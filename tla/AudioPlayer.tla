---------------------------- MODULE AudioPlayer ----------------------------
(***************************************************************************)
(* Audio streams as a script sees them.  A stream is closed, stopped,      *)
(* playing or paused, and has a position in its file.  A stopped stream    *)
(* starts from the beginning, a paused one goes on where it was.  Only a   *)
(* playing stream moves on, and none while the game is silenced; that      *)
(* silence begins and ends behind the script's back and changes nothing it *)
(* can ask for.                                                            *)
(***************************************************************************)
EXTENDS Naturals

CONSTANTS Stream, Length

VARIABLES player,  \* of each stream, its state and position
          silenced

Closed == [state |-> "closed", pos |-> 0]

PlayerInit == /\ player = [s \in Stream |-> Closed]
              /\ silenced = FALSE

Open(s) == /\ player[s] = Closed
           /\ player' = [player EXCEPT ![s] = [state |-> "paused", pos |-> 0]]
           /\ UNCHANGED silenced

Close(S) == /\ player' = [s \in Stream |-> IF s \in S THEN Closed ELSE player[s]]
            /\ UNCHANGED silenced

Become(s, state, pos) == /\ player' = [player EXCEPT ![s] = [state |-> state, pos |-> pos]]
                         /\ UNCHANGED silenced

Play(s) == /\ player[s] # Closed
           /\ Become(s, "playing", IF player[s].state = "stopped" THEN 0 ELSE player[s].pos)

Halt(s) == /\ player[s] # Closed
           /\ Become(s, "stopped", player[s].pos)

Pause(s) == /\ player[s].state = "playing"
            /\ Become(s, "paused", player[s].pos)

\* A stopped stream goes on from where it was sent.
Seek(s, pos) ==
  /\ player[s] # Closed
  /\ Become(s, IF player[s].state = "stopped" THEN "paused" ELSE player[s].state, pos)

\* The sound plays: on, or from the end to the beginning.
Advance(s) ==
  /\ player[s].state = "playing" /\ ~silenced
  /\ \/ player[s].pos < Length /\ Become(s, "playing", player[s].pos + 1)
     \/ player[s].pos = Length /\ Become(s, "playing", 0)

\* The game goes on for a frame and silence ends.  A stream may come to the end
\* or lose its place, start over at the end, or be slowed to a pause.
AfterFrame(p) ==
  {p} \cup (IF p.state = "closed" THEN {} ELSE {[p EXCEPT !.state = "stopped"]})
      \cup (IF p.state # "playing" THEN {}
            ELSE [state : {"playing", "paused"},
                  pos : {p.pos} \cup (IF p.pos = Length THEN {0} ELSE {})])

Frame == /\ silenced' = FALSE
         /\ player' = [s \in Stream |-> player'[s]]
         /\ \A s \in Stream : player'[s] \in AfterFrame(player[s])

Silence(on) == silenced' = on /\ UNCHANGED player

PlayerNext ==
  \/ \E s \in Stream :
       \/ Open(s) \/ Play(s) \/ Halt(s) \/ Pause(s) \/ Advance(s)
       \/ \E pos \in 0..Length : Seek(s, pos)
  \/ \E S \in SUBSET Stream : Close(S)
  \/ Frame
  \/ \E on \in BOOLEAN : Silence(on)

PlayerSpec == PlayerInit /\ [][PlayerNext]_<<player, silenced>>
=============================================================================
