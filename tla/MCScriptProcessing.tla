------------------------ MODULE MCScriptProcessing ------------------------
(* One custom script and one of the game; the custom script may also be    *)
(* removed with a parent that is not followed.                             *)
EXTENDS ScriptProcessing

CONSTANTS c1, n1, t1, t2
=============================================================================
