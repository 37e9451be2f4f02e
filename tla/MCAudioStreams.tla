--------------------------- MODULE MCAudioStreams ---------------------------
(***************************************************************************)
(* Small instances of AudioStreams for TLC.                                *)
(***************************************************************************)
EXTENDS AudioStreams, TLC
=============================================================================
