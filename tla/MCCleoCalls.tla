----------------------------- MODULE MCCleoCalls -----------------------------
(***************************************************************************)
(* Small instances of CleoCalls: a script of the game, custom scripts of   *)
(* different versions, a mission.                                          *)
(***************************************************************************)
EXTENDS CleoCalls, TLC

CONSTANTS native, native2, custom, mission

Versions == [s \in Script |-> IF s = custom THEN 4 ELSE 5]
CustomScripts == Script \ {native, native2}
Missions == Script \cap {mission}
=============================================================================
