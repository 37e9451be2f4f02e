---------------------------- MODULE AudioStreams ----------------------------
(***************************************************************************)
(* The Audio plugin: CAudioStream and C3DAudioStream over the channels of  *)
(* the BASS library, and CSoundSystem, which silences all of them while    *)
(* the game is in a menu or in the background, and processes them once a   *)
(* frame otherwise.                                                        *)
(*                                                                         *)
(* Abstractions.  A position in a file is one of 0..Length; a place in the *)
(* world is the origin or another one.  Speeds are integers, and the step  *)
(* of a transition is rounded away from zero.  The volume is modelled by   *)
(* whether a channel is muted: its value, a CInterpolatedValue like the    *)
(* speed, and the type of a stream scale the sound only.                   *)
(***************************************************************************)
EXTENDS Integers, FiniteSets

CONSTANTS
  Stream,     \* addresses the heap can give to a stream
  Stream3D,   \* those of C3DAudioStream
  Entity,     \* slots of the pools of peds, vehicles and objects
  NoEntity,   \* the null pointer
  Length,     \* last position in a file
  MaxSpeed,   \* bound on the speeds asked for
  MaxTime     \* bound on transition times, and on the time of a frame

ASSUME ConstantsAssumption ==
  /\ Stream3D \subseteq Stream
  /\ NoEntity \notin Entity
  /\ Length \in Nat /\ MaxSpeed \in Nat \ {0} /\ MaxTime \in Nat \ {0}

VARIABLES
  streams,   \* streams in CSoundSystem::streams
  stream,    \* the fields of each CAudioStream, and of its BASS channel
  paused,    \* CSoundSystem::paused
  menu,      \* CTimer::m_UserPause or CTimer::m_CodePause
  valid      \* pool slots in use: IsObjectValid

vars == <<streams, stream, paused, menu, valid>>

----------------------------------------------------------------------------
(* CInterpolatedValue *)

Quotient(a, b) == IF a >= 0 THEN (a + b - 1) \div b ELSE -((b - 1 - a) \div b)

setValue(v, target, time) ==
  IF time = 0 THEN [v EXCEPT !.currValue = target, !.targetValue = target]
  ELSE [v EXCEPT !.targetValue = target, !.step = Quotient(target - v.currValue, time)]

\* Variant: only a rising value is stopped at its target.
OvershootRisingOnly(v, curr) == v.targetValue - curr <= 0 /\ v.step > 0

Overshoot(v, curr) ==
  (IF v.step > 0 THEN v.targetValue - curr ELSE curr - v.targetValue) <= 0

update(v, elapsed) ==
  LET curr == v.currValue + v.step * elapsed IN
  IF v.currValue = v.targetValue THEN v
  ELSE [v EXCEPT !.currValue = IF Overshoot(v, curr) THEN v.targetValue ELSE curr]

finish(v) == [v EXCEPT !.currValue = v.targetValue]

----------------------------------------------------------------------------
(* BASS channels: "stopped" until first played and after the end *)

ChannelPause(r) == [r EXCEPT !.channel = IF @ = "active" THEN "paused" ELSE @]

\* BASS_ChannelPlay without restart; one at its end may start over.
ChannelPlay(r, restart) ==
  [r EXCEPT !.channel = "active", !.pos = IF @ = Length /\ restart THEN 0 ELSE @]

----------------------------------------------------------------------------
(* CAudioStream *)

New == [state |-> "Paused", channel |-> "stopped", pos |-> 0, looping |-> FALSE,
        speed |-> [currValue |-> 1, targetValue |-> 1, step |-> 0],
        muted |-> FALSE, host |-> NoEntity, lost |-> FALSE, offset |-> FALSE,
        away |-> FALSE, placed |-> FALSE]

\* A 3D channel is muted until it is processed.
Constructed(s) == IF s \in Stream3D THEN [New EXCEPT !.muted = TRUE] ELSE New

GetState(r) == IF r.state = "PlayingInactive" THEN "Playing" ELSE r.state

Play(r) ==
  [r EXCEPT !.pos = IF r.state = "Stopped" THEN 0 ELSE @, !.state = "PlayingInactive"]

\* Variant: a stream not processed since the last Play is forgotten.
PauseProcessed(r, changeState) ==
  IF r.state # "Playing" THEN r
  ELSE [ChannelPause(r) EXCEPT !.state = IF changeState THEN "Paused" ELSE "PlayingInactive"]

Pause(r, changeState) ==
  IF GetState(r) # "Playing" THEN r
  ELSE [ChannelPause(r) EXCEPT !.state = IF changeState THEN "Paused" ELSE "PlayingInactive"]

Stop(r) == [ChannelPause(r) EXCEPT !.state = "Stopped", !.speed = finish(@)]

\* Variant: the position is not clamped.
SetProgressAny(r, value) ==
  [r EXCEPT !.state = IF @ = "Stopped" THEN "Paused" ELSE @, !.pos = value]

SetProgress(r, value) ==
  [r EXCEPT !.state = IF @ = "Stopped" THEN "Paused" ELSE @,
            !.pos = IF value < 0 THEN 0 ELSE IF value > Length THEN Length ELSE value]

SetSpeed(r, value, time) ==
  [(IF value > 0 /\ time > 0 THEN Play(r) ELSE r) EXCEPT !.speed = setValue(@, value, time)]

\* Variant: it is taken for granted that BASS plays.
ProcessPlayingUnchecked(r, plays, restart) ==
  IF r.state = "PlayingInactive"
  THEN [(IF plays \/ r.channel = "active" THEN ChannelPlay(r, restart) ELSE r) EXCEPT !.state = "Playing"]
  ELSE IF r.state = "Playing" /\ r.channel = "stopped"
       THEN [r EXCEPT !.state = "Stopped"] ELSE r

\* One stream in one frame of the given length; plays: BASS can play it, as it
\* can one that is active already.
ProcessPlaying(r, plays, restart) ==
  IF r.state = "PlayingInactive"
  THEN IF plays \/ r.channel = "active" THEN [ChannelPlay(r, restart) EXCEPT !.state = "Playing"] ELSE r
  ELSE IF r.state = "Playing" /\ r.channel = "stopped"
       THEN [r EXCEPT !.state = "Stopped"] ELSE r

ProcessSpeed(r, elapsed) ==
  LET next == [r EXCEPT !.speed = update(@, elapsed)] IN
  IF r.speed.currValue > 0 /\ next.speed.currValue <= 0 THEN Pause(next, TRUE) ELSE next

CalculateMuted(s, r) == s \in Stream3D /\ ~r.placed

ProcessVolume(s, r) ==
  IF r.state = "Playing" THEN [r EXCEPT !.muted = CalculateMuted(s, r)] ELSE r

----------------------------------------------------------------------------
(* C3DAudioStream *)

Set3dPosition(r, away) ==
  [r EXCEPT !.host = NoEntity, !.lost = FALSE, !.offset = away]

SetHost(r, host) == [r EXCEPT !.host = host, !.lost = FALSE, !.offset = FALSE]

HostLost(r) == Stop([r EXCEPT !.lost = TRUE, !.placed = FALSE])

\* hostAway: the host is not at the origin of the world.
UpdatePosition(r, hostAway) ==
  IF r.host # NoEntity /\ r.lost THEN r
  ELSE IF r.host # NoEntity /\ r.host \notin valid THEN HostLost(r)
  ELSE [r EXCEPT !.away = IF r.host # NoEntity THEN hostAway ELSE r.offset,
                 !.placed = r.away]

\* Variant: the stream is processed before it is placed.
ProcessThenPlace(s, r, elapsed, plays, restart, hostAway) ==
  LET processed == ProcessVolume(s, ProcessSpeed(ProcessPlaying(r, plays, restart), elapsed))
  IN IF s \in Stream3D THEN UpdatePosition(processed, hostAway) ELSE processed

Process(s, r, elapsed, plays, restart, hostAway) ==
  LET placed == IF s \in Stream3D THEN UpdatePosition(r, hostAway) ELSE r
  IN ProcessVolume(s, ProcessSpeed(ProcessPlaying(placed, plays, restart), elapsed))

----------------------------------------------------------------------------
(* CSoundSystem *)

\* Variant: whatever is paused is resumed.
ResumeAll(r) == Play(r)

ResumeStream(r) == IF GetState(r) = "Playing" THEN Play(r) ELSE r

Resumed == [s \in Stream |-> IF s \in streams THEN ResumeStream(stream[s]) ELSE stream[s]]

SystemResume == /\ paused' = FALSE
                /\ stream' = Resumed
                /\ UNCHANGED <<streams, menu, valid>>

SystemPause ==
  /\ paused' = TRUE
  /\ stream' = [s \in Stream |-> IF s \in streams THEN Pause(stream[s], FALSE) ELSE stream[s]]
  /\ UNCHANGED <<streams, menu, valid>>

\* CSoundSystem::Process in a menu.
ProcessInMenu == menu /\ ~paused /\ SystemPause

\* CSoundSystem::Process in the game; able: whether BASS can play each stream.
ProcessInGame(elapsed, able, restart, hostAway) ==
  LET before == IF paused THEN Resumed ELSE stream IN
  /\ ~menu
  /\ paused' = FALSE
  /\ stream' = [s \in Stream |->
       IF s \in streams
       THEN Process(s, before[s], elapsed, able[s], restart, hostAway) ELSE stream[s]]
  /\ UNCHANGED <<streams, menu, valid>>

\* The window gets or loses the focus.
OnMainWindowFocus(active) == IF active THEN SystemResume ELSE SystemPause

CreateStream(s) ==
  /\ ~menu
  /\ s \notin streams
  /\ streams' = streams \cup {s}
  /\ stream' = [stream EXCEPT ![s] = Constructed(s)]
  /\ UNCHANGED <<paused, menu, valid>>

DestroyStream(s) ==
  /\ ~menu
  /\ s \in streams
  /\ streams' = streams \ {s}
  /\ stream' = [stream EXCEPT ![s] = New]
  /\ UNCHANGED <<paused, menu, valid>>

\* OnGameEnd
Clear == /\ streams' = {}
         /\ stream' = [s \in Stream |-> New]
         /\ UNCHANGED <<paused, menu, valid>>

\* An opcode changes a stream; a handle that is not in the list is refused.
Update(s, r) == /\ ~menu
                /\ s \in streams
                /\ stream' = [stream EXCEPT ![s] = r]
                /\ UNCHANGED <<streams, paused, menu, valid>>

opcode_0AAD(s, action) ==
  Update(s, CASE action = "Stop"   -> Stop(stream[s])
              [] action = "Play"   -> Play(stream[s])
              [] action = "Pause"  -> Pause(stream[s], TRUE)
              [] action = "Resume" -> Play(stream[s]))

opcode_0AC0(s, loop) == Update(s, [stream[s] EXCEPT !.looping = loop])
opcode_0AC2(s, away) == s \in Stream3D /\ Update(s, Set3dPosition(stream[s], away))

\* link_3d_audiostream to an object, char or vehicle that exists.
opcode_0AC3(s, host) ==
  s \in Stream3D /\ host \in valid /\ Update(s, SetHost(stream[s], host))

opcode_2505(s, value, time) == Update(s, SetSpeed(stream[s], value, time))
opcode_2508(s, value) == Update(s, SetProgress(stream[s], value))

----------------------------------------------------------------------------
(* The game, and BASS playing in a thread of its own *)

Menu == /\ menu' = ~menu
        /\ UNCHANGED <<streams, stream, paused, valid>>

\* Entities come and go, and take the pool slots of others.
Spawn(e) == /\ ~menu
            /\ valid' = IF e \in valid THEN valid \ {e} ELSE valid \cup {e}
            /\ UNCHANGED <<streams, stream, paused, menu>>

ChannelAdvances(s) ==
  LET r == stream[s] IN
  /\ s \in streams /\ r.channel = "active"
  /\ stream' = [stream EXCEPT ![s] =
       IF r.pos < Length THEN [r EXCEPT !.pos = @ + 1]
       ELSE IF r.looping THEN [r EXCEPT !.pos = 0]
       ELSE [r EXCEPT !.channel = "stopped"]]
  /\ UNCHANGED <<streams, paused, menu, valid>>

Init == /\ streams = {}
        /\ stream = [s \in Stream |-> New]
        /\ paused = FALSE /\ menu = FALSE
        /\ valid = {}

AnyFrame == \E elapsed \in 0..MaxTime, able \in [Stream -> BOOLEAN], restart, hostAway \in BOOLEAN :
              ProcessInGame(elapsed, able, restart, hostAway)

\* A frame in which BASS plays what it is asked to.
GoodFrame == \E elapsed \in 0..MaxTime, restart, hostAway \in BOOLEAN :
               ProcessInGame(elapsed, [s \in Stream |-> TRUE], restart, hostAway)

Next ==
  \/ AnyFrame \/ ProcessInMenu \/ Menu \/ Clear
  \/ \E active \in BOOLEAN : OnMainWindowFocus(active)
  \/ \E e \in Entity : Spawn(e)
  \/ \E s \in Stream :
       \/ CreateStream(s) \/ DestroyStream(s) \/ ChannelAdvances(s)
       \/ \E action \in {"Stop", "Play", "Pause", "Resume"} : opcode_0AAD(s, action)
       \/ \E loop \in BOOLEAN : opcode_0AC0(s, loop)
       \/ \E away \in BOOLEAN : opcode_0AC2(s, away)
       \/ \E host \in Entity : opcode_0AC3(s, host)
       \/ \E value \in 0..MaxSpeed, time \in 0..MaxTime : opcode_2505(s, value, time)
       \/ \E value \in (-1)..(Length + 1) : opcode_2508(s, value)

Spec == Init /\ [][Next]_vars

\* The player leaves menus and the game goes on; BASS plays now and then.
FairSpec == Spec /\ WF_vars(menu /\ Menu) /\ SF_vars(GoodFrame)

----------------------------------------------------------------------------
(* Properties *)

SpeedType == [currValue : 0..MaxSpeed, targetValue : 0..MaxSpeed, step : Int]

StreamType ==
  [state : {"Stopped", "PlayingInactive", "Playing", "Paused"},
   channel : {"stopped", "active", "paused"}, pos : 0..Length, looping : BOOLEAN,
   speed : SpeedType, muted : BOOLEAN,
   host : Entity \cup {NoEntity}, lost : BOOLEAN, offset : BOOLEAN,
   away : BOOLEAN, placed : BOOLEAN]

TypeOK == /\ streams \subseteq Stream /\ valid \subseteq Entity
          /\ paused \in BOOLEAN /\ menu \in BOOLEAN
          /\ stream \in [Stream -> StreamType]

\* While the sound system is paused no channel plays, and none of a stream that
\* is stopped or paused for scripts, whatever was done between two frames.
SilenceIsKept ==
  \A s \in streams : stream[s].channel = "active" => ~paused /\ GetState(stream[s]) = "Playing"

\* A 3D stream is heard only from a place: never before it has one, and not
\* after its host is gone.
NoSoundFromNowhere ==
  \A s \in streams \cap Stream3D :
    stream[s].channel = "active" /\ ~stream[s].muted => stream[s].placed

\* A transition goes towards its target and not past it, through pauses, stops
\* and new transitions: between two frames the speed only gets nearer, unless
\* the script has asked for another one.
Gap(v) == LET d == v.targetValue - v.currValue IN IF d < 0 THEN -d ELSE d
TransitionsApproach ==
  [][AnyFrame => \A s \in streams : Gap(stream'[s].speed) <= Gap(stream[s].speed)]_vars

\* A 3D stream can be given a place: at a point of the world, or at a host that
\* exists, neither being the origin, which stands for no position.
Placeable(s) ==
  s \in Stream3D => LET r == stream[s] IN
    IF r.host = NoEntity THEN r.offset ELSE ~r.lost /\ r.host \in valid /\ r.away

Heard(s) == stream[s].channel = "active" /\ ~stream[s].muted

\* What a script has started is heard, not only played: however often the system
\* was paused and BASS has failed to play it, the channel gets active and loses the
\* mute it was constructed with, unless the stream is stopped, paused or closed,
\* or has no place: never given one, or its host is gone or at the origin.
PlayIsHeard ==
  \A s \in Stream :
    LET due == s \in streams /\ GetState(stream[s]) = "Playing" /\ Placeable(s)
    IN due ~> Heard(s) \/ ~due

\* For scripts it is an AudioPlayer: silencing never shows.
View(s) == IF s \notin streams THEN [state |-> "closed", pos |-> 0]
           ELSE [state |-> CASE GetState(stream[s]) = "Stopped" -> "stopped"
                             [] GetState(stream[s]) = "Playing" -> "playing"
                             [] GetState(stream[s]) = "Paused"  -> "paused",
                 pos |-> stream[s].pos]
Player == INSTANCE AudioPlayer WITH player <- [s \in Stream |-> View(s)], silenced <- paused
ImplementsPlayer == Player!PlayerSpec
=============================================================================
