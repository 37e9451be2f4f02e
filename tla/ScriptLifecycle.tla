--------------------------- MODULE ScriptLifecycle ---------------------------
(***************************************************************************)
(* What the script engine promises about the memory of a custom script,    *)
(* whatever scripts do to each other.  A script object is free, live (the  *)
(* game may process it) or doomed (terminated, still allocated).  The      *)
(* game enters one script at a time; a script can be terminated at any     *)
(* moment, also by itself and while it is being processed, but its memory  *)
(* is reclaimed only between two scripts or when the session ends.         *)
(***************************************************************************)
CONSTANTS Obj,      \* addresses of script objects
          NoObj,    \* the null pointer
          Native    \* stands for any of the game's own scripts

VARIABLES life,     \* what each address currently is
          busy      \* the script inside HOOK_ProcessScript, NoObj between two

lifeVars == <<life, busy>>

LifeInit == /\ life = [o \in Obj |-> "free"]
            /\ busy = NoObj

\* The processing hook is called for a script: the doomed are reclaimed, then
\* the script runs, unless a plugin vetoes it or it sleeps.
LifeEnter ==
  /\ busy = NoObj
  /\ life' = [o \in Obj |-> IF life[o] = "doomed" THEN "free" ELSE life[o]]
  /\ busy' \in {Native, NoObj} \cup {o \in Obj : life[o] = "live"}

\* A script starts others, or terminates some, itself possibly included.
LifeRun ==
  /\ busy # NoObj
  /\ \E started \in SUBSET {o \in Obj : life[o] = "free"},
        ended   \in SUBSET {o \in Obj : life[o] = "live"} :
       life' = [o \in Obj |-> IF o \in started THEN "live"
                              ELSE IF o \in ended THEN "doomed" ELSE life[o]]
  /\ busy' \in {busy, NoObj}

\* A session begins: the scripts found on disk are started.
LifeLoad ==
  /\ busy = NoObj
  /\ \E started \in SUBSET {o \in Obj : life[o] = "free"} :
       life' = [o \in Obj |-> IF o \in started THEN "live" ELSE life[o]]
  /\ busy' \in {Native, NoObj}

\* A session ends: the doomed, and the live scripts the engine still knows,
\* are reclaimed.
LifeEnd ==
  /\ busy = NoObj
  /\ \E known \in SUBSET {o \in Obj : life[o] = "live"} :
       life' = [o \in Obj |-> IF o \in known \/ life[o] = "doomed"
                              THEN "free" ELSE life[o]]
  /\ busy' = busy

LifeNext == LifeEnter \/ LifeRun \/ LifeLoad \/ LifeEnd

LifeSpec == LifeInit /\ [][LifeNext]_lifeVars
=============================================================================
