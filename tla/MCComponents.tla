---------------------------- MODULE MCComponents ----------------------------
(***************************************************************************)
(* Small instances of GameSession.  The parts share no state, so that a    *)
(* behaviour has the steps of the instance and of one part, which is       *)
(* chosen in Init; only for the instance itself it has saved games and     *)
(* exits too.                                                              *)
(***************************************************************************)
EXTENDS GameSession, TLC

CONSTANTS a, b, l

VARIABLE part

Parts == {"instance", "settings", "plugins", "modules", "memory", "files", "char", "car", "object",
          "labels", "messages", "params", "calls", "keys"}

\* What these keep is not touched by the end of a session: one is enough.
Lasting == {"plugins", "messages", "params", "calls", "keys"}

\* A file with a key that is not in capitals.
Fxt(capitals, t) == [key |-> [label |-> l, capitals |-> capitals], text |-> t]
Fxts == {<<Fxt(TRUE, a), Fxt(FALSE, b)>>}

Cheats == {<<1>>, <<1, 2>>}

\* The initial values that matter to one part only.
PartInit ==
  /\ Init
  /\ part \in Parts
  /\ part # "params" => code = <<>> /\ strict
  /\ part # "messages" => messageQueue[0] = a
  /\ part # "calls" => textParams = [i \in 1..Max_Text_Params |-> a]

\* The configuration can be written when a session begins, except where it is the part.
PartNext ==
  /\ \/ LoadPlugins \/ Start \/ OnScmInit1 \/ OnScmInit2 \/ OnGameEnds \/ ProcessScript
     \/ (part \in Lasting => ~booted) /\ NewGame
     \/ part = "instance" /\ (OnScmInit3 \/ \E slot \in SaveSlot : LoadGame(slot))
     \/ part = "instance" /\ (Stop \/ \E shutdown \in BOOLEAN : Exit(shutdown))
     \/ part = "settings" /\ scriptsLoaded /\ SettingsStep
     \/ part = "plugins" /\ (InstallPlugins \/ FindExports)
     \/ part = "modules" /\ (InstallModule \/ ModulesStep)
     \/ part = "memory" /\ MemoryStep
     \/ part = "files" /\ FilesStep
     \/ part \in Ent!Pool /\ EntitiesStep(part)
     \/ part = "labels" /\ LabelsStep
     \/ part = "messages" /\ MessagesStep
     \/ part = "params" /\ ParamsStep
     \/ part = "calls" /\ CallsStep
     \/ part = "keys" /\ KeysStep
  /\ part # "settings" /\ m_bGameInProgress' => iniFile' = Cfg!Defaults
  /\ UNCHANGED part

PartSpec == PartInit /\ [][PartNext]_<<vars, part>>
=============================================================================
