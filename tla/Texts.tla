-------------------------------- MODULE Texts --------------------------------
(***************************************************************************)
(* The Text plugin: texts by label, from files and from scripts, and the   *)
(* messages scripts print.  The game keeps pointers to the texts it is     *)
(* given, so the plugin copies each to a place in a ring first: one ring   *)
(* for messages, one for those that go to the briefs of the menu too.      *)
(*                                                                         *)
(* Abstractions.  Texts are members of a small set.  What the game does    *)
(* with its queue of messages and its briefs is modelled from their use;   *)
(* its own messages, help boxes and big messages are left out.             *)
(***************************************************************************)
EXTENDS Naturals, Sequences, SequencesExt

CONSTANTS
  Label, FxtText, Message,  \* labels of texts, what stands for them, what is printed
  Subtitle,          \* messages that are subtitles
  FxtFile,           \* files of texts: sequences of entries
  MessageQueueSize, BriefSize,
  MaxLines           \* lines that can be drawn in a frame

\* No label of a user is one made for a line: those have a character that cannot be printed.
TextsAssumption ==
  /\ MessageQueueSize \in Nat \ {0} /\ BriefSize \in Nat \ {0} /\ MaxLines \in Nat
  /\ Label \cap (0..MaxLines) = {}
  /\ FxtFile \subseteq Seq([key : [label : Label, capitals : BOOLEAN], text : FxtText])

VARIABLES
  fxts,              \* the text of each label, and whether it is static
  genericLabelCounter, introTextLines,
  messageQueue, queueIdx, briefs, briefIdx,
  BriefMessages, PreviousBriefs, \* of the game: messages waiting, and shown
  bAddNextMessageToPreviousBriefs, m_bPrefsShowSubtitles

labelVars == <<fxts, genericLabelCounter, introTextLines>>
ringVars == <<messageQueue, queueIdx, briefs, briefIdx>>
gameVars == <<BriefMessages, PreviousBriefs, bAddNextMessageToPreviousBriefs, m_bPrefsShowSubtitles>>
messageVars == <<ringVars, gameVars>>
textsVars == <<labelVars, messageVars>>

----------------------------------------------------------------------------
(* Texts by label *)

\* Keys are stored in capitals, but looked for as they are given.
LabelKey == [label : Label, capitals : BOOLEAN]
FxtEntry == [text : FxtText, is_static : BOOLEAN]
Generic(n) == [label |-> n, capitals |-> TRUE]

NoFxts == [l \in {} |-> {}]
Found(fx, key) == key.capitals /\ key.label \in DOMAIN fx

\* A text not found is put in place of what is there. One that is there stays as it was where
\* it or the new one is from a file.
AddFxt(fx, key, text, dynamic) ==
  IF ~Found(fx, key)
  THEN [l \in DOMAIN fx \cup {key.label} |->
         IF l = key.label THEN [text |-> text, is_static |-> ~dynamic] ELSE fx[l]]
  ELSE IF ~dynamic \/ fx[key.label].is_static THEN fx
  ELSE [fx EXCEPT ![key.label].text = text]

RemoveFxt(fx, key) == [l \in DOMAIN fx \ {key.label} |-> fx[l]]

LocateFxt(l) == IF l \in DOMAIN fxts THEN {fxts[l].text} ELSE {}

ParseFxtFile(fx, file, dynamic, remove) ==
  FoldLeft(LAMBDA f, e : IF remove THEN RemoveFxt(f, e.key) ELSE AddFxt(f, e.key, e.text, dynamic), fx, file)

Become(fx) == fxts' = fx /\ UNCHANGED <<genericLabelCounter, introTextLines, messageVars>>

\* At the start of a session, and at its end, when the frame it was drawn in is over too.
LoadFxts(file) == Become(ParseFxtFile(fxts, file, FALSE, FALSE))
Clear == fxts' = NoFxts /\ introTextLines' = <<>> /\ UNCHANGED <<genericLabelCounter, messageVars>>

\* get_text_label_string and the lookups of the game: its own text when there is none.
Get(l) == LocateFxt(l)
opcode_0ADE(l) == Get(l) # {} /\ UNCHANGED textsVars
HOOK_CTextGet(l) == Get(l) # {} /\ UNCHANGED textsVars

\* add_text_label, add_text_label_formatted, remove_text_label, load_fxt, unload_fxt
opcode_0ADF(key, text) == Become(AddFxt(fxts, key, text, TRUE))
opcode_2609(key, text) == Become(AddFxt(fxts, key, text, TRUE))
opcode_0AE0(key) == Become(RemoveFxt(fxts, key))
opcode_2606(file) == Become(ParseFxtFile(fxts, file, TRUE, FALSE))
opcode_2607(file) == Become(ParseFxtFile(fxts, file, TRUE, TRUE))

\* Variant: every line of a frame gets the same label.
SameLabel(n) == n

NextLabel(n) == n + 1

\* display_text_formatted: nothing when the game has no room for the line.
opcode_2605(text) ==
  IF Len(introTextLines) >= MaxLines THEN UNCHANGED textsVars
  ELSE /\ fxts' = AddFxt(fxts, Generic(genericLabelCounter), text, TRUE)
       /\ introTextLines' = Append(introTextLines, [gxt |-> genericLabelCounter, text |-> text])
       /\ genericLabelCounter' = NextLabel(genericLabelCounter)
       /\ UNCHANGED messageVars

\* The game has drawn the lines of the frame and starts the next.
OnGameProcessBefore ==
  /\ genericLabelCounter' = 0 /\ introTextLines' = <<>>
  /\ UNCHANGED <<fxts, messageVars>>

----------------------------------------------------------------------------
(* Messages *)

Slot == [ring : {"messageQueue"}, idx : 0..(MessageQueueSize - 1)] \cup [ring : {"briefs"}, idx : 0..(BriefSize - 1)]
Content(slot) == IF slot.ring = "briefs" THEN briefs[slot.idx] ELSE messageQueue[slot.idx]

\* Of the game: a pointer each. Auxiliary are the text that was printed, and how many messages
\* passed this one and how many briefs were prepared since (up to a bound).
Entry == [slot : Slot, brief : BOOLEAN, text : Message, passed : 0..MessageQueueSize, prepared : 0..BriefSize]
Brief == [slot : Slot, text : Message]

CanThisTextBeAddedToBrief(text) ==
  /\ bAddNextMessageToPreviousBriefs
  /\ \A i \in 1..Len(PreviousBriefs) : Content(PreviousBriefs[i].slot) # text

\* AddToPreviousBriefArray of the game: no pointer is listed twice, the oldest one goes.
Shown(previous, slot, text) ==
  IF \E i \in 1..Len(previous) : previous[i].slot = slot THEN previous
  ELSE <<[slot |-> slot, text |-> text]>> \o
         (IF Len(previous) = BriefSize THEN Front(previous) ELSE previous)

\* Variant: briefs that show the place keep pointing to it.
NotEvicted(slot) == PreviousBriefs

Evicted(slot) ==
  FoldLeft(LAMBDA kept, b : IF b.slot = slot THEN kept ELSE Append(kept, b), <<>>, PreviousBriefs)

UpTo(bound, n) == IF n > bound THEN bound ELSE n
Aged(now, prepares) ==
  [i \in 1..Len(BriefMessages) |->
    [BriefMessages[i] EXCEPT !.passed = UpTo(MessageQueueSize, IF now THEN @ + 1 ELSE @),
                             !.prepared = UpTo(BriefSize, IF prepares THEN @ + 1 ELSE @)]]

NextBrief == (briefIdx + 1) % BriefSize
BriefSlot == [ring |-> "briefs", idx |-> NextBrief]

PrepareThisTextForBrief(text) == briefIdx' = NextBrief /\ briefs' = [briefs EXCEPT ![NextBrief] = text]

PrintHelp(text, legacy) ==
  /\ ~legacy
  /\ IF CanThisTextBeAddedToBrief(text)
     THEN /\ PrepareThisTextForBrief(text)
          /\ PreviousBriefs' = Shown(Evicted(BriefSlot), BriefSlot, text)
          /\ BriefMessages' = Aged(FALSE, TRUE)
     ELSE UNCHANGED <<briefs, briefIdx, PreviousBriefs, BriefMessages>>
  /\ bAddNextMessageToPreviousBriefs' = TRUE
  /\ UNCHANGED <<labelVars, messageQueue, queueIdx, m_bPrefsShowSubtitles>>

\* A message waits when there is room, or takes the place of the one shown. It is listed among
\* the briefs when it is shown.
IsDisplayed(text, now, legacy) ==
  /\ now \/ Len(BriefMessages) < MessageQueueSize
  /\ legacy \/ m_bPrefsShowSubtitles \/ text \notin Subtitle

AddToMessageQueue(text, now, legacy) ==
  /\ IsDisplayed(text, now, legacy)
  /\ LET next == (queueIdx + 1) % MessageQueueSize
         addToBrief == ~legacy /\ CanThisTextBeAddedToBrief(text)
         slot == IF addToBrief THEN BriefSlot ELSE [ring |-> "messageQueue", idx |-> next]
         entry == [slot |-> slot, brief |-> addToBrief, text |-> text, passed |-> 0, prepared |-> 0]
         waiting == Aged(now, addToBrief)
         previous == IF addToBrief THEN Evicted(slot) ELSE PreviousBriefs
     IN  /\ queueIdx' = next /\ messageQueue' = [messageQueue EXCEPT ![next] = text]
         /\ IF addToBrief THEN PrepareThisTextForBrief(text) ELSE UNCHANGED <<briefs, briefIdx>>
         /\ BriefMessages' = IF now /\ waiting # <<>> THEN <<entry>> \o Tail(waiting) ELSE Append(waiting, entry)
         /\ PreviousBriefs' = IF addToBrief /\ (now \/ waiting = <<>>) THEN Shown(previous, slot, text)
                              ELSE previous
  /\ bAddNextMessageToPreviousBriefs' = (~legacy \/ bAddNextMessageToPreviousBriefs)
  /\ UNCHANGED <<labelVars, m_bPrefsShowSubtitles>>

NotDisplayed(text, now, legacy) ==
  /\ ~IsDisplayed(text, now, legacy) /\ ~legacy
  /\ bAddNextMessageToPreviousBriefs' = TRUE
  /\ UNCHANGED <<labelVars, ringVars, BriefMessages, PreviousBriefs, m_bPrefsShowSubtitles>>

\* print_help_string, print_string and print_string_now, with formats too
opcode_0ACA(text, legacy) == PrintHelp(text, legacy)
opcode_0ACE(text, legacy) == PrintHelp(text, legacy)
Display(text, now, legacy) == AddToMessageQueue(text, now, legacy) \/ NotDisplayed(text, now, legacy)
opcode_0ACC(text, legacy) == Display(text, FALSE, legacy)
opcode_0ACD(text, legacy) == Display(text, TRUE, legacy)
opcode_0AD0(text, legacy) == Display(text, FALSE, legacy)
opcode_0AD1(text, legacy) == Display(text, TRUE, legacy)

\* The time of the message shown is over: the game shows the next.
MessageEnds ==
  /\ BriefMessages # <<>>
  /\ BriefMessages' = Tail(BriefMessages)
  /\ PreviousBriefs' =
       IF Len(BriefMessages) > 1 /\ BriefMessages[2].brief
       THEN Shown(PreviousBriefs, BriefMessages[2].slot, Content(BriefMessages[2].slot))
       ELSE PreviousBriefs
  /\ UNCHANGED <<labelVars, ringVars, bAddNextMessageToPreviousBriefs, m_bPrefsShowSubtitles>>

\* A script excepts its next message from the briefs, the user shows or hides subtitles.
NoBriefForNext ==
  /\ bAddNextMessageToPreviousBriefs' = FALSE
  /\ UNCHANGED <<labelVars, ringVars, BriefMessages, PreviousBriefs, m_bPrefsShowSubtitles>>
Subtitles(shown) ==
  /\ m_bPrefsShowSubtitles' = shown
  /\ UNCHANGED <<labelVars, ringVars, BriefMessages, PreviousBriefs, bAddNextMessageToPreviousBriefs>>

----------------------------------------------------------------------------
TextsInit ==
  /\ fxts = NoFxts /\ genericLabelCounter = 0 /\ introTextLines = <<>>
  /\ \E text \in Message : messageQueue = [i \in 0..(MessageQueueSize - 1) |-> text]
                           /\ briefs = [i \in 0..(BriefSize - 1) |-> text]
  /\ queueIdx = 0 /\ briefIdx = 0
  /\ BriefMessages = <<>> /\ PreviousBriefs = <<>>
  /\ bAddNextMessageToPreviousBriefs = TRUE /\ m_bPrefsShowSubtitles = TRUE

LabelsNext ==
  \/ \E key \in LabelKey : (\E text \in FxtText : opcode_0ADF(key, text) \/ opcode_2609(key, text)) \/ opcode_0AE0(key)
  \/ \E l \in Label : opcode_0ADE(l) \/ HOOK_CTextGet(l)
  \/ \E file \in FxtFile : opcode_2606(file) \/ opcode_2607(file)
  \/ \E text \in FxtText : opcode_2605(text)
  \/ OnGameProcessBefore

MessagesNext ==
  \/ \E text \in Message, legacy \in BOOLEAN :
       \/ opcode_0ACA(text, legacy) \/ opcode_0ACE(text, legacy)
       \/ opcode_0ACC(text, legacy) \/ opcode_0ACD(text, legacy)
       \/ opcode_0AD0(text, legacy) \/ opcode_0AD1(text, legacy)
  \/ MessageEnds \/ NoBriefForNext
  \/ \E shown \in BOOLEAN : Subtitles(shown)

----------------------------------------------------------------------------
\* Types of texts and messages.
TextsTypeOK ==
  /\ DOMAIN fxts \subseteq Label \cup 0..MaxLines /\ fxts \in [DOMAIN fxts -> FxtEntry]
  /\ genericLabelCounter \in 0..MaxLines /\ introTextLines \in Seq([gxt : 0..MaxLines, text : FxtText])
  /\ messageQueue \in [0..(MessageQueueSize - 1) -> Message] /\ briefs \in [0..(BriefSize - 1) -> Message]
  /\ queueIdx \in 0..(MessageQueueSize - 1) /\ briefIdx \in 0..(BriefSize - 1)
  /\ BriefMessages \in Seq(Entry) /\ Len(BriefMessages) <= MessageQueueSize
  /\ PreviousBriefs \in Seq(Brief) /\ Len(PreviousBriefs) <= BriefSize
  /\ bAddNextMessageToPreviousBriefs \in BOOLEAN /\ m_bPrefsShowSubtitles \in BOOLEAN

\* A brief in the menu never turns into another text, although its place in the ring is used
\* again. A waiting message shows the text that was printed as long as no more messages were
\* shown at once (print_string_now) since than are before it, and not all places for briefs
\* were used again: beyond that, messages are written over that still wait.
MessagesKeepText ==
  /\ \A i \in 1..Len(PreviousBriefs) : Content(PreviousBriefs[i].slot) = PreviousBriefs[i].text
  /\ \A i \in 1..Len(BriefMessages) :
       LET m == BriefMessages[i]
       IN  m.passed < i /\ m.prepared < BriefSize => Content(m.slot) = m.text

\* A line drawn with a generic label shows its own text in the whole frame.
LinesKeepText ==
  \A i \in 1..Len(introTextLines) : LocateFxt(introTextLines[i].gxt) = {introTextLines[i].text}
=============================================================================
