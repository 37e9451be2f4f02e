------------------------------ MODULE Settings ------------------------------
(***************************************************************************)
(* CConfigManager: .cleo_config.ini, what was loaded of it and the cache   *)
(* of the settings already asked for.  The file is written as a whole, the *)
(* user may edit it at any time, it may be impossible to open, and the     *)
(* disk may get full while it is written, which the code does not see.     *)
(*                                                                         *)
(* Abstractions.  A setting is a section with a key.  Its text is a value  *)
(* with or without a comment behind it; the parsing of numbers and the     *)
(* layout of the file are left out.  A full disk leaves any of the lines,  *)
(* not the first ones only; a value broken off in the middle is empty.     *)
(***************************************************************************)
EXTENDS Naturals, FiniteSets

CONSTANTS
  Setting,    \* settings, by section and key
  Default,    \* those of the configuration embedded in cleo.asi
  Summary,    \* those logged at the start of a session
  Value,      \* values of settings
  NoValue,    \* an empty value, which reads as the caller's default
  NoFile,     \* there is no file
  IniFaults   \* what may fail: "write" (the file cannot be opened), "full" (the disk)

VARIABLES
  iniFile,    \* the texts of the file, or NoFile
  ini, iniLoaded, cache,
  saved,      \* auxiliary: what WriteString last reported as written
  differs,    \* auxiliary: settings edited behind ini, or refused by the file
  lost        \* auxiliary: settings a full disk cut off the file since it was last written

settingsVars == <<iniFile, ini, iniLoaded, cache, saved, differs, lost>>

----------------------------------------------------------------------------
Text == [value : Value \cup {NoValue}, remark : BOOLEAN]
Ini == UNION {[S -> Text] : S \in SUBSET Setting}
Empty == [k \in {} |-> {}]

SettingsAssumption ==
  /\ Default \cup Summary \subseteq Setting /\ NoValue \notin Value /\ NoFile \notin Ini
  /\ IniFaults \subseteq {"write", "full"}

\* The embedded texts have a remark on each setting.
Defaults == [k \in Default |-> [value |-> NoValue, remark |-> TRUE]]

StripInlineComment(text) == [value |-> text.value, remark |-> FALSE]

Over(f, g) == [k \in DOMAIN f \cup DOMAIN g |-> IF k \in DOMAIN f THEN f[k] ELSE g[k]]

\* Variant: the embedded texts replace those of the user.
MergeOver(user) == Over(Defaults, user)

UpdateUserConfig(user) == Over(user, Defaults)

Lookup(texts, k) == IF k \in DOMAIN texts THEN texts[k] ELSE [value |-> NoValue, remark |-> FALSE]
TextsOf(file) == IF file = NoFile THEN Empty ELSE file

\* SaveIni does not look at the stream again once the file is open: when the disk gets full,
\* lines are missing, and the last one may be broken off before the end of its value.
Broken == [value |-> NoValue, remark |-> FALSE]
Lines(texts) == {[k \in S |-> texts[k]] : S \in SUBSET DOMAIN texts}
Cut(texts) == Lines(texts) \cup UNION {{[f EXCEPT ![k] = Broken] : k \in DOMAIN f} : f \in Lines(texts)}
CutOff(texts, file) == {k \in DOMAIN texts : Lookup(TextsOf(file), k).value # texts[k].value}

\* What EnsureLoaded wants the file to be, and what is there after it tried.
Merged == IF iniFile = NoFile THEN Defaults ELSE UpdateUserConfig(iniFile)
FilesAfterFresh ==
  IF Merged = iniFile THEN {iniFile}
  ELSE {Merged} \cup (IF "write" \in IniFaults THEN {iniFile} ELSE {})
               \cup (IF "full" \in IniFaults THEN Cut(Merged) ELSE {})

\* The file as it is then is loaded over what was merged.
Fresh(load) == Over(TextsOf(load), IF iniFile = NoFile THEN Empty ELSE Merged)

FilesAfterLoad == IF iniLoaded THEN {iniFile} ELSE FilesAfterFresh
EnsureLoaded(load) == IF iniLoaded THEN ini ELSE Fresh(load)
LostAfterLoad(load) == IF iniLoaded THEN lost ELSE CutOff(Merged, load)

----------------------------------------------------------------------------
\* GetCachedValue of a setting not asked for yet.
ReadString(k, load) ==
  /\ k \notin DOMAIN cache
  /\ ini' = EnsureLoaded(load) /\ iniFile' = load /\ iniLoaded' = TRUE /\ lost' = LostAfterLoad(load)
  /\ cache' = Over([x \in {k} |-> StripInlineComment(Lookup(EnsureLoaded(load), k))], cache)
  /\ UNCHANGED <<saved, differs>>

Set(k, text, texts) == Over([x \in {k} |-> text], texts)

\* The cache has the value already: nothing is written.
WriteSame(k, text) ==
  /\ k \in DOMAIN cache /\ cache[k] = text
  /\ saved' = Set(k, StripInlineComment(text), saved)
  /\ UNCHANGED <<iniFile, ini, iniLoaded, cache, differs, lost>>

Writes(k, text, load) ==
  /\ ~(k \in DOMAIN cache /\ cache[k] = text)
  /\ ini' = Set(k, text, EnsureLoaded(load)) /\ iniLoaded' = TRUE

Reports(k, text) ==
  /\ cache' = Set(k, text, cache)
  /\ saved' = Set(k, StripInlineComment(text), saved)
  /\ differs' = differs \ {k}

WriteString(k, text, load) ==
  /\ Writes(k, text, load)
  /\ iniFile' = ini' /\ lost' = {}
  /\ Reports(k, text)

\* The disk gets full: WriteString reports the same.
WriteCutOff(k, text, load) ==
  /\ "full" \in IniFaults
  /\ Writes(k, text, load)
  /\ \E file \in Cut(ini') : iniFile' = file /\ lost' = CutOff(ini', file)
  /\ Reports(k, text)

\* The file cannot be opened: the loaded settings keep the change, the cache does not get it.
WriteFails(k, text, load) ==
  /\ "write" \in IniFaults
  /\ Writes(k, text, load)
  /\ iniFile' = load /\ lost' = LostAfterLoad(load)
  /\ differs' = differs \cup {k}
  /\ saved' = [x \in DOMAIN saved \ {k} |-> saved[x]]
  /\ UNCHANGED cache

\* What a write reported stays true of the texts that are loaded now, except where ini had
\* something else, or a full disk took or broke the line.
Forget(load) ==
  LET gone == differs \cup lost \cup (CutOff(Merged, load) \cap DOMAIN TextsOf(load))
  IN  saved' = [x \in DOMAIN saved \ gone |-> saved[x]]

\* At the start of a session: the log of some settings loads the file again.
Reset(load) ==
  /\ ini' = Fresh(load) /\ iniFile' = load /\ iniLoaded' = TRUE
  /\ cache' = [k \in Summary |-> StripInlineComment(Lookup(ini', k))]
  /\ Forget(load) /\ differs' = {} /\ lost' = CutOff(Merged, load)

\* The user edits the file in the background of the game.
Edit(k, text) ==
  /\ iniFile # NoFile
  /\ iniFile' = Set(k, text, iniFile)
  /\ saved' = [x \in DOMAIN saved \ {k} |-> saved[x]]
  /\ differs' = IF iniLoaded THEN differs \cup {k} ELSE differs
  /\ UNCHANGED <<ini, iniLoaded, cache, lost>>

----------------------------------------------------------------------------
SettingsInit ==
  /\ iniFile = NoFile /\ ini = Empty /\ iniLoaded = FALSE /\ cache = Empty
  /\ saved = Empty /\ differs = {} /\ lost = {}

SettingsNext ==
  \/ \E k \in Setting, load \in FilesAfterLoad : ReadString(k, load)
  \/ \E k \in Setting, text \in Text, load \in FilesAfterLoad :
       WriteString(k, text, load) \/ WriteCutOff(k, text, load) \/ WriteFails(k, text, load)
  \/ \E k \in Setting, text \in Text : WriteSame(k, text) \/ Edit(k, text)

----------------------------------------------------------------------------
\* Types of the settings.
SettingsTypeOK ==
  /\ iniFile \in Ini \cup {NoFile} /\ ini \in Ini /\ iniLoaded \in BOOLEAN
  /\ cache \in Ini /\ saved \in Ini /\ differs \subseteq Setting /\ lost \subseteq Setting

\* What WriteString reported as written is what is loaded, and is in the file, whatever else is
\* read, merged, written or refused, over any number of sessions. In the file it may be missing
\* only from the moment a full disk cut it off, which the code reports as success, to the next
\* write that gets through; it is gone when the file is loaded before that (Forget). Excepted
\* are, until the file is loaded again, settings the user edited behind the loaded ones or whose
\* write was refused: ini keeps the refused text, and the next write of any setting saves it too.
WrittenStays ==
  \A k \in DOMAIN saved \ differs :
    /\ StripInlineComment(Lookup(ini, k)) = StripInlineComment(saved[k])
    /\ k \notin lost =>
         StripInlineComment(Lookup(TextsOf(iniFile), k)) = StripInlineComment(saved[k])
=============================================================================
