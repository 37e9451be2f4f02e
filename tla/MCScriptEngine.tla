--------------------------- MODULE MCScriptEngine ---------------------------
(***************************************************************************)
(* Small instances of ScriptEngine for TLC.  Three objects make a chain    *)
(* parent, child, grandchild, or a mission, a suspended mission and a      *)
(* script that terminates them; two are a parent and its child, or a       *)
(* script and another that terminates it again.                            *)
(***************************************************************************)
EXTENDS ScriptEngine, TLC

ObjSymmetry == Permutations(Obj)

\* What is allowed to go wrong, per run.
NoFaults == {}
FamilyFaults == {"ancestor", "suspend", "read"}
PointerFaults == {"ancestor", "again", "suspend", "read"}
=============================================================================
