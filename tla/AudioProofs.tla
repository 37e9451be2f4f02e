---------------------------- MODULE AudioProofs ----------------------------
(***************************************************************************)
(* Theorems about AudioStreams: types, silence, places and transitions,    *)
(* and that it implements AudioPlayer.                                     *)
(***************************************************************************)
EXTENDS AudioStreams, TLAPS

----------------------------------------------------------------------------
(* CInterpolatedValue *)

\* A step is an integer, for any positive transition time.
LEMMA QuotientType == ASSUME NEW a \in Int, NEW b \in Int, b > 0
                      PROVE  Quotient(a, b) \in Int
  BY DEF Quotient

\* CInterpolatedValue::setValue keeps the types of a value.
LEMMA SetValueType ==
  ASSUME NEW v \in SpeedType, NEW target \in 0..MaxSpeed, NEW time \in 0..MaxTime
  PROVE  setValue(v, target, time) \in SpeedType
<1>1. CASE time = 0  BY <1>1 DEF setValue, SpeedType
<1>2. CASE time # 0
  <2>1. target - v.currValue \in Int /\ time \in Int /\ time > 0
    BY <1>2, ConstantsAssumption DEF SpeedType
  <2>2. Quotient(target - v.currValue, time) \in Int  BY <2>1, QuotientType
  <2> QED  BY <1>2, <2>2 DEF setValue, SpeedType
<1> QED  BY <1>1, <1>2

\* CInterpolatedValue::update goes towards the target, whatever the step is: a
\* step of the wrong sign overshoots at once, and so ends at the target.
LEMMA UpdateApproaches ==
  ASSUME NEW v \in SpeedType, NEW elapsed \in Nat
  PROVE  /\ update(v, elapsed) \in SpeedType
         /\ Gap(update(v, elapsed)) <= Gap(v)
<1> DEFINE curr == v.currValue + v.step * elapsed
<1>1. /\ v.currValue \in 0..MaxSpeed /\ v.targetValue \in 0..MaxSpeed
      /\ v.step \in Int /\ MaxSpeed \in Nat
  BY ConstantsAssumption DEF SpeedType
<1>2. CASE v.currValue = v.targetValue \/ Overshoot(v, curr)
  <2>1. update(v, elapsed) \in SpeedType
    BY <1>1, <1>2 DEF update, SpeedType
  <2>2. update(v, elapsed).currValue = v.targetValue
    BY <1>1, <1>2 DEF update, SpeedType
  <2>3. update(v, elapsed).targetValue = v.targetValue
    BY <1>1, <1>2 DEF update, SpeedType
  <2> QED  BY <1>1, <2>1, <2>2, <2>3 DEF Gap
<1>3. CASE v.currValue # v.targetValue /\ ~Overshoot(v, curr)
  <2> DEFINE delta == v.step * elapsed
  <2>1. delta \in Int /\ (v.step > 0 => delta >= 0) /\ (v.step <= 0 => delta <= 0)
    BY <1>1
  <2>2. update(v, elapsed) = [v EXCEPT !.currValue = v.currValue + delta]
    BY <1>3 DEF update
  <2> HIDE DEF delta
  <2>3. /\ v.step > 0 => v.currValue + delta < v.targetValue
        /\ v.step <= 0 => v.currValue + delta > v.targetValue
    BY <1>1, <1>3, <2>1 DEF Overshoot, delta
  <2>4. v.currValue + delta \in 0..MaxSpeed  BY <1>1, <2>1, <2>3
  <2>5. update(v, elapsed) \in SpeedType  BY <2>2, <2>4 DEF SpeedType
  <2>6. /\ update(v, elapsed).currValue = v.currValue + delta
        /\ update(v, elapsed).targetValue = v.targetValue
    BY <2>2 DEF SpeedType
  <2> QED  BY <1>1, <2>1, <2>3, <2>5, <2>6 DEF Gap
<1> QED  BY <1>2, <1>3

\* CInterpolatedValue::finish is at its target.
LEMMA FinishType ==
  ASSUME NEW v \in SpeedType
  PROVE  finish(v) \in SpeedType /\ Gap(finish(v)) <= Gap(v)
<1>1. v.currValue \in Int /\ v.targetValue \in Int  BY ConstantsAssumption DEF SpeedType
<1>2. finish(v) \in SpeedType /\ finish(v).currValue = v.targetValue
      /\ finish(v).targetValue = v.targetValue
  BY DEF finish, SpeedType
<1> QED  BY <1>1, <1>2 DEF Gap

----------------------------------------------------------------------------
(* One stream *)

\* A channel plays only for a stream that plays for scripts.
OnPurpose(r) == r.channel = "active" => GetState(r) = "Playing"

\* A 3D stream is mute while it has no place.
HeardFromPlace(s, r) ==
  s \in Stream3D /\ r.channel = "active" /\ ~r.muted => r.placed

\* What opcodes, pauses and frames do to a stream keeps this.
Sound(s, r) == r \in StreamType /\ OnPurpose(r) /\ HeardFromPlace(s, r)

LEMMA NewIsSound ==
  ASSUME NEW s \in Stream
  PROVE  Sound(s, New) /\ Sound(s, Constructed(s))
<1>1. New \in StreamType
  <2>1. [currValue |-> 1, targetValue |-> 1, step |-> 0] \in SpeedType
    BY ConstantsAssumption DEF SpeedType
  <2>2. 0 \in 0..Length  BY ConstantsAssumption
  <2> QED  BY <2>1, <2>2 DEF New, StreamType
<1>2. /\ Constructed(s) \in StreamType /\ Constructed(s).channel = New.channel
  BY <1>1 DEF Constructed, StreamType
<1>3. New.channel # "active"  BY DEF New
<1> QED  BY <1>1, <1>2, <1>3 DEF Sound, OnPurpose, HeardFromPlace

\* CAudioStream::Play leaves the channel alone.
LEMMA PlaySound ==
  ASSUME NEW s \in Stream, NEW r, Sound(s, r)
  PROVE  /\ Sound(s, Play(r)) /\ Play(r).channel = r.channel /\ Play(r).placed = r.placed
         /\ Play(r).speed = r.speed
<1>1. r \in StreamType  BY DEF Sound
<1>2. /\ Play(r) \in StreamType /\ Play(r).channel = r.channel /\ Play(r).muted = r.muted
      /\ Play(r).placed = r.placed /\ Play(r).state = "PlayingInactive"
      /\ Play(r).speed = r.speed
  <2> DEFINE pos == IF r.state = "Stopped" THEN 0 ELSE r.pos
  <2>1. pos \in 0..Length  BY <1>1, ConstantsAssumption DEF StreamType
  <2>2. Play(r) = [r EXCEPT !.pos = pos, !.state = "PlayingInactive"]  BY DEF Play
  <2> HIDE DEF pos
  <2> QED  BY <1>1, <2>1, <2>2 DEF StreamType
<1> QED  BY <1>2 DEF Sound, OnPurpose, HeardFromPlace, GetState

\* CAudioStream::Pause stops the channel, whichever of the pauses it is.
LEMMA PauseSound ==
  ASSUME NEW s \in Stream, NEW r, Sound(s, r), NEW change \in BOOLEAN
  PROVE  /\ Sound(s, Pause(r, change)) /\ Pause(r, change).channel # "active"
         /\ Pause(r, change).speed = r.speed
<1>1. r \in StreamType  BY DEF Sound
<1>2. CASE GetState(r) # "Playing"
  BY <1>2 DEF Pause, Sound, OnPurpose
<1>3. CASE GetState(r) = "Playing"
  <2>1. /\ Pause(r, change) \in StreamType /\ Pause(r, change).channel # "active"
        /\ Pause(r, change).speed = r.speed
    BY <1>1, <1>3 DEF Pause, ChannelPause, StreamType
  <2> QED  BY <2>1 DEF Sound, OnPurpose, HeardFromPlace
<1> QED  BY <1>2, <1>3

\* CAudioStream::Stop stops the channel and ends transitions.
LEMMA StopSound ==
  ASSUME NEW s \in Stream, NEW r \in StreamType
  PROVE  /\ Sound(s, Stop(r)) /\ Stop(r).channel # "active"
         /\ Gap(Stop(r).speed) <= Gap(r.speed)
<1>1. r.speed \in SpeedType  BY DEF StreamType
<1>2. finish(r.speed) \in SpeedType /\ Gap(finish(r.speed)) <= Gap(r.speed)
  BY <1>1, FinishType
<1>3. /\ Stop(r) \in StreamType /\ Stop(r).channel # "active"
      /\ Stop(r).speed = finish(r.speed)
  BY <1>2 DEF Stop, ChannelPause, StreamType
<1> QED  BY <1>2, <1>3 DEF Sound, OnPurpose, HeardFromPlace

\* CAudioStream::SetProgress clamps the position.
LEMMA SetProgressSound ==
  ASSUME NEW s \in Stream, NEW r, Sound(s, r), NEW value \in Int
  PROVE  Sound(s, SetProgress(r, value)) /\ SetProgress(r, value).channel = r.channel
<1>1. r \in StreamType  BY DEF Sound
<1> DEFINE pos == IF value < 0 THEN 0 ELSE IF value > Length THEN Length ELSE value
<1>2. pos \in 0..Length  BY ConstantsAssumption
<1> HIDE DEF pos
<1>3. SetProgress(r, value) =
        [r EXCEPT !.state = IF r.state = "Stopped" THEN "Paused" ELSE r.state, !.pos = pos]
  BY <1>1 DEF SetProgress, StreamType, pos
<1>4. /\ SetProgress(r, value) \in StreamType /\ SetProgress(r, value).channel = r.channel
      /\ SetProgress(r, value).muted = r.muted /\ SetProgress(r, value).placed = r.placed
      /\ SetProgress(r, value).state = IF r.state = "Stopped" THEN "Paused" ELSE r.state
  BY <1>1, <1>2, <1>3 DEF StreamType
<1> QED  BY <1>4 DEF Sound, OnPurpose, HeardFromPlace, GetState

\* CAudioStream::SetSpeed.
LEMMA SetSpeedSound ==
  ASSUME NEW s \in Stream, NEW r, Sound(s, r),
         NEW value \in 0..MaxSpeed, NEW time \in 0..MaxTime
  PROVE  Sound(s, SetSpeed(r, value, time)) /\ SetSpeed(r, value, time).channel = r.channel
<1> DEFINE p == IF value > 0 /\ time > 0 THEN Play(r) ELSE r
<1>1. Sound(s, p) /\ p.channel = r.channel  BY PlaySound
<1> HIDE DEF p
<1>2. p \in StreamType /\ p.speed \in SpeedType  BY <1>1 DEF Sound, StreamType
<1>3. setValue(p.speed, value, time) \in SpeedType  BY <1>2, SetValueType
<1>4. SetSpeed(r, value, time) = [p EXCEPT !.speed = setValue(p.speed, value, time)]
  BY <1>2 DEF SetSpeed, p, StreamType
<1>5. /\ SetSpeed(r, value, time) \in StreamType
      /\ SetSpeed(r, value, time).channel = p.channel
      /\ SetSpeed(r, value, time).state = p.state
      /\ SetSpeed(r, value, time).muted = p.muted
      /\ SetSpeed(r, value, time).placed = p.placed
  BY <1>2, <1>3, <1>4 DEF StreamType
<1> QED  BY <1>1, <1>5 DEF Sound, OnPurpose, HeardFromPlace, GetState

----------------------------------------------------------------------------
(* One stream in one frame *)

\* Set3dPosition and SetHost do not touch channel and place.
LEMMA LinkSound ==
  ASSUME NEW s \in Stream, NEW r, Sound(s, r),
         NEW host \in Entity \cup {NoEntity}, NEW away \in BOOLEAN
  PROVE  /\ Sound(s, [r EXCEPT !.host = host, !.lost = FALSE, !.offset = away])
         /\ [r EXCEPT !.host = host, !.lost = FALSE, !.offset = away].channel = r.channel
<1> DEFINE q == [r EXCEPT !.host = host, !.lost = FALSE, !.offset = away]
<1>1. r \in StreamType  BY DEF Sound
<1>2. /\ q \in StreamType /\ q.channel = r.channel /\ q.muted = r.muted
      /\ q.placed = r.placed /\ q.state = r.state
  BY <1>1 DEF StreamType
<1> HIDE DEF q
<1>3. Sound(s, q)  BY <1>2 DEF Sound, OnPurpose, HeardFromPlace, GetState
<1> QED  BY <1>2, <1>3 DEF q

\* SetLooping neither.
LEMMA LoopSound ==
  ASSUME NEW s \in Stream, NEW r, Sound(s, r), NEW loop \in BOOLEAN
  PROVE  /\ Sound(s, [r EXCEPT !.looping = loop])
         /\ [r EXCEPT !.looping = loop].channel = r.channel
<1> DEFINE q == [r EXCEPT !.looping = loop]
<1>1. r \in StreamType  BY DEF Sound
<1>2. /\ q \in StreamType /\ q.channel = r.channel /\ q.muted = r.muted
      /\ q.placed = r.placed /\ q.state = r.state
  BY <1>1 DEF StreamType
<1> HIDE DEF q
<1>3. Sound(s, q)  BY <1>2 DEF Sound, OnPurpose, HeardFromPlace, GetState
<1> QED  BY <1>2, <1>3 DEF q

\* C3DAudioStream::UpdatePosition may take the place away from a stream that is
\* heard; the volume follows in the same frame.
LEMMA UpdatePositionPurpose ==
  ASSUME NEW s \in Stream, NEW r \in StreamType, OnPurpose(r), NEW away \in BOOLEAN
  PROVE  /\ UpdatePosition(r, away) \in StreamType /\ OnPurpose(UpdatePosition(r, away))
         /\ Gap(UpdatePosition(r, away).speed) <= Gap(r.speed)
<1>0. Gap(r.speed) \in Int
  <2>1. r.speed \in SpeedType  BY DEF StreamType
  <2> QED  BY <2>1, ConstantsAssumption DEF Gap, SpeedType
<1>1. CASE r.host # NoEntity /\ r.lost
  BY <1>0, <1>1 DEF UpdatePosition
<1>2. CASE ~(r.host # NoEntity /\ r.lost) /\ r.host # NoEntity /\ r.host \notin valid
  <2> DEFINE q == [r EXCEPT !.lost = TRUE, !.placed = FALSE]
  <2>1. q \in StreamType /\ q.speed = r.speed  BY DEF StreamType
  <2>2. UpdatePosition(r, away) = Stop(q)  BY <1>2 DEF UpdatePosition, HostLost
  <2> HIDE DEF q
  <2>3. Sound(s, Stop(q)) /\ Gap(Stop(q).speed) <= Gap(q.speed)  BY <2>1, StopSound
  <2> QED  BY <2>1, <2>2, <2>3 DEF Sound
<1>3. CASE ~(r.host # NoEntity /\ r.lost) /\ ~(r.host # NoEntity /\ r.host \notin valid)
  <2>1. PICK new \in BOOLEAN :
          UpdatePosition(r, away) = [r EXCEPT !.away = new, !.placed = r.away]
    BY <1>3 DEF UpdatePosition, StreamType
  <2>2. /\ UpdatePosition(r, away) \in StreamType
        /\ UpdatePosition(r, away).channel = r.channel
        /\ UpdatePosition(r, away).state = r.state
        /\ UpdatePosition(r, away).speed = r.speed
    BY <2>1 DEF StreamType
  <2> QED  BY <1>0, <2>2 DEF OnPurpose, GetState
<1> QED  BY <1>1, <1>2, <1>3

\* After the first part of CAudioStream::Process a channel that plays belongs to
\* a stream known to play.
LEMMA ProcessPlayingPurpose ==
  ASSUME NEW r \in StreamType, OnPurpose(r), NEW plays \in BOOLEAN, NEW restart \in BOOLEAN
  PROVE  LET q == ProcessPlaying(r, plays, restart) IN
         /\ q \in StreamType /\ q.speed = r.speed
         /\ q.channel = "active" => q.state = "Playing"
<1> DEFINE q == ProcessPlaying(r, plays, restart)
<1>1. CASE r.state = "PlayingInactive" /\ (plays \/ r.channel = "active")
  <2> DEFINE pos == IF r.pos = Length /\ restart THEN 0 ELSE r.pos
  <2>1. pos \in 0..Length  BY ConstantsAssumption DEF StreamType
  <2>2. q = [[r EXCEPT !.channel = "active", !.pos = pos] EXCEPT !.state = "Playing"]
    BY <1>1 DEF ProcessPlaying, ChannelPlay
  <2> HIDE DEF pos, q
  <2>3. q \in StreamType /\ q.speed = r.speed /\ q.state = "Playing"
    BY <2>1, <2>2 DEF StreamType
  <2> QED  BY <2>3 DEF q
<1>2. CASE r.state = "PlayingInactive" /\ ~(plays \/ r.channel = "active")
  BY <1>2 DEF ProcessPlaying
<1>3. CASE r.state = "Playing" /\ r.channel = "stopped"
  BY <1>3 DEF ProcessPlaying, StreamType
<1>4. CASE r.state # "PlayingInactive" /\ ~(r.state = "Playing" /\ r.channel = "stopped")
  BY <1>4 DEF ProcessPlaying, OnPurpose, GetState
<1> QED  BY <1>1, <1>2, <1>3, <1>4

\* The second part, which animates the speed and may pause.
LEMMA ProcessSpeedPurpose ==
  ASSUME NEW r \in StreamType, r.channel = "active" => r.state = "Playing",
         NEW elapsed \in Nat
  PROVE  LET q == ProcessSpeed(r, elapsed) IN
         /\ q \in StreamType /\ Gap(q.speed) <= Gap(r.speed)
         /\ q.channel = "active" => q.state = "Playing"
<1> DEFINE next == [r EXCEPT !.speed = update(r.speed, elapsed)]
<1>1. r.speed \in SpeedType  BY DEF StreamType
<1>2. update(r.speed, elapsed) \in SpeedType /\ Gap(update(r.speed, elapsed)) <= Gap(r.speed)
  BY <1>1, UpdateApproaches
<1>3. /\ next \in StreamType /\ next.speed = update(r.speed, elapsed)
      /\ next.channel = r.channel /\ next.state = r.state
  BY <1>2 DEF StreamType
<1>4. ProcessSpeed(r, elapsed) \in {next, Pause(next, TRUE)}
  BY DEF ProcessSpeed
<1> HIDE DEF next
<1>5. CASE ProcessSpeed(r, elapsed) = next  BY <1>2, <1>3, <1>5
<1>6. CASE ProcessSpeed(r, elapsed) = Pause(next, TRUE)
  <2>1. CASE GetState(next) # "Playing"
    BY <1>2, <1>3, <1>6, <2>1 DEF Pause
  <2>2. CASE GetState(next) = "Playing"
    <3>1. /\ Pause(next, TRUE) \in StreamType /\ Pause(next, TRUE).channel # "active"
          /\ Pause(next, TRUE).speed = next.speed
      BY <1>3, <2>2 DEF Pause, ChannelPause, StreamType
    <3> QED  BY <1>2, <1>3, <1>6, <3>1
  <2> QED  BY <2>1, <2>2
<1> QED  BY <1>4, <1>5, <1>6

\* The whole frame of one stream: what is heard has a place again, and the
\* speed is no farther from its target.
LEMMA ProcessSound ==
  ASSUME NEW s \in Stream, NEW r, Sound(s, r), NEW elapsed \in Nat,
         NEW plays \in BOOLEAN, NEW restart \in BOOLEAN, NEW away \in BOOLEAN
  PROVE  LET q == Process(s, r, elapsed, plays, restart, away) IN
         Sound(s, q) /\ Gap(q.speed) <= Gap(r.speed)
<1> DEFINE a == IF s \in Stream3D THEN UpdatePosition(r, away) ELSE r
           b == ProcessPlaying(a, plays, restart)
           c == ProcessSpeed(b, elapsed)
           d == ProcessVolume(s, c)
<1>0. ASSUME NEW x \in StreamType PROVE Gap(x.speed) \in Int
  <2>1. x.speed \in SpeedType  BY DEF StreamType
  <2> QED  BY <2>1, ConstantsAssumption DEF Gap, SpeedType
<1>1. a \in StreamType /\ OnPurpose(a) /\ Gap(a.speed) <= Gap(r.speed)
  BY <1>0, UpdatePositionPurpose DEF Sound
<1> HIDE DEF a
<1>2. b \in StreamType /\ b.speed = a.speed /\ (b.channel = "active" => b.state = "Playing")
  BY <1>1, ProcessPlayingPurpose
<1> HIDE DEF b
<1>3. c \in StreamType /\ Gap(c.speed) <= Gap(b.speed) /\ (c.channel = "active" => c.state = "Playing")
  BY <1>2, ProcessSpeedPurpose
<1> HIDE DEF c
<1>4. Sound(s, d) /\ d.speed = c.speed
  <2>1. CASE c.state # "Playing"
    BY <1>3, <2>1 DEF ProcessVolume, Sound, OnPurpose, HeardFromPlace
  <2>2. CASE c.state = "Playing"
    <3>1. PICK m \in BOOLEAN : m = CalculateMuted(s, c)  BY DEF CalculateMuted
    <3>2. d = [c EXCEPT !.muted = m]  BY <2>2, <3>1, Zenon DEF ProcessVolume
    <3> HIDE DEF d
    <3>3. /\ d \in StreamType /\ d.speed = c.speed /\ d.state = c.state
          /\ d.placed = c.placed /\ d.muted = m
      BY <1>3, <3>2 DEF StreamType
    <3>4. s \in Stream3D /\ ~m => c.placed  BY <3>1 DEF CalculateMuted
    <3> QED  BY <2>2, <3>3, <3>4 DEF Sound, OnPurpose, HeardFromPlace, GetState
  <2> QED  BY <2>1, <2>2
<1> HIDE DEF d
<1>5. Process(s, r, elapsed, plays, restart, away) = d
  BY DEF Process, a, b, c, d
<1>6. Gap(r.speed) \in Int /\ Gap(a.speed) \in Int /\ Gap(c.speed) \in Int
  BY <1>0, <1>1, <1>3 DEF Sound
<1> QED  BY <1>1, <1>2, <1>3, <1>4, <1>5, <1>6

----------------------------------------------------------------------------
(* The inductive invariant: silence of the whole system, and each stream     *)
(* sound by itself.                                                          *)

SystemIsSilent == paused => \A s \in streams : stream[s].channel # "active"

SoundInv == /\ TypeOK
            /\ \A s \in streams : Sound(s, stream[s])
            /\ SystemIsSilent

LEMMA SoundInit == Init => SoundInv
<1> SUFFICES ASSUME Init PROVE SoundInv  OBVIOUS
<1>1. \A s \in Stream : New \in StreamType  BY NewIsSound DEF Sound
<1> QED  BY <1>1 DEF Init, SoundInv, TypeOK, SystemIsSilent

\* Opcodes act on one stream, and start no channel.
LEMMA UpdateKeepsSound ==
  ASSUME SoundInv, NEW s \in Stream, NEW r, Update(s, r),
         s \in streams => Sound(s, r) /\ (r.channel = "active" => stream[s].channel = "active")
  PROVE  SoundInv'
<1>1. s \in streams /\ Sound(s, r) /\ (r.channel = "active" => stream[s].channel = "active")
  BY DEF Update
<1>2. stream' = [stream EXCEPT ![s] = r] /\ UNCHANGED <<streams, paused, menu, valid>>
  BY DEF Update
<1>3. r \in StreamType  BY <1>1 DEF Sound
<1>4. TypeOK'  BY <1>2, <1>3 DEF SoundInv, TypeOK
<1>5. \A t \in streams' : Sound(t, stream'[t])
  BY <1>1, <1>2 DEF SoundInv, TypeOK
<1>6. SystemIsSilent'  BY <1>1, <1>2 DEF SoundInv, TypeOK, SystemIsSilent
<1> QED  BY <1>4, <1>5, <1>6 DEF SoundInv, Sound, StreamType, OnPurpose, HeardFromPlace, GetState

\* A change of all streams at once, by the system.
LEMMA AllKeepSound ==
  ASSUME SoundInv, NEW f,
         stream' = [s \in Stream |-> IF s \in streams THEN f[s] ELSE stream[s]],
         streams' = streams, menu' = menu, valid' = valid, paused' \in BOOLEAN,
         \A s \in streams : Sound(s, f[s]) /\ (paused' => f[s].channel # "active")
  PROVE  SoundInv'
<1>1. \A s \in Stream : stream[s] \in StreamType  BY DEF SoundInv, TypeOK
<1>2. \A s \in streams : s \in Stream /\ f[s] \in StreamType
  BY DEF SoundInv, TypeOK, Sound
<1>3. TypeOK'  BY <1>1, <1>2 DEF SoundInv, TypeOK
<1>4. \A s \in streams' : stream'[s] = f[s]  BY <1>2
<1>5. \A s \in streams' : Sound(s, stream'[s])  BY <1>4
<1>6. SystemIsSilent'  BY <1>4 DEF SystemIsSilent
<1> QED  BY <1>3, <1>5, <1>6 DEF SoundInv, Sound, StreamType, OnPurpose, HeardFromPlace, GetState

\* Streams before they are processed: resumed if the system was paused.
LEMMA ResumedSound ==
  ASSUME SoundInv, NEW s \in streams
  PROVE  /\ s \in Stream /\ Resumed[s] = ResumeStream(stream[s]) /\ Sound(s, Resumed[s])
         /\ Resumed[s].speed = stream[s].speed
<1>1. s \in Stream /\ Sound(s, stream[s])  BY DEF SoundInv, TypeOK
<1>2. Resumed[s] = ResumeStream(stream[s])  BY <1>1 DEF Resumed
<1> QED  BY <1>1, <1>2, PlaySound DEF ResumeStream

\* CSoundSystem::Process in the game.
LEMMA FrameKeepsSound ==
  ASSUME SoundInv, AnyFrame
  PROVE  SoundInv' /\ \A s \in streams : Gap(stream'[s].speed) <= Gap(stream[s].speed)
<1>1. PICK elapsed \in 0..MaxTime, able \in [Stream -> BOOLEAN], restart \in BOOLEAN, hostAway \in BOOLEAN :
        ProcessInGame(elapsed, able, restart, hostAway)
  BY DEF AnyFrame
<1> DEFINE before == IF paused THEN Resumed ELSE stream
           f == [s \in Stream |-> Process(s, before[s], elapsed, able[s], restart, hostAway)]
<1>2. /\ stream' = [s \in Stream |-> IF s \in streams THEN f[s] ELSE stream[s]]
      /\ streams' = streams /\ menu' = menu /\ valid' = valid /\ paused' = FALSE
  BY <1>1 DEF ProcessInGame
<1>3. \A s \in streams : /\ Sound(s, f[s]) /\ Gap(f[s].speed) <= Gap(stream[s].speed)
  <2> TAKE s \in streams
  <2>1. s \in Stream /\ Sound(s, before[s]) /\ before[s].speed = stream[s].speed
    BY ResumedSound DEF SoundInv, TypeOK
  <2> HIDE DEF before
  <2>2. elapsed \in Nat  BY ConstantsAssumption
  <2>3. able[s] \in BOOLEAN  BY <2>1
  <2>4. f[s] = Process(s, before[s], elapsed, able[s], restart, hostAway)  BY <2>1
  <2> HIDE DEF f
  <2>5. Sound(s, f[s]) /\ Gap(f[s].speed) <= Gap(before[s].speed)
    BY <2>1, <2>2, <2>3, <2>4, ProcessSound
  <2> QED  BY <2>1, <2>5
<1> HIDE DEF f, before
<1>4. SoundInv'  BY <1>2, <1>3, AllKeepSound
<1>5. \A s \in streams : stream'[s] = f[s]  BY <1>2 DEF SoundInv, TypeOK
<1> QED  BY <1>3, <1>4, <1>5

LEMMA ResumeKeepsSound == ASSUME SoundInv, SystemResume PROVE SoundInv'
<1> DEFINE f == [s \in Stream |-> ResumeStream(stream[s])]
<1>1. /\ stream' = [s \in Stream |-> IF s \in streams THEN f[s] ELSE stream[s]]
      /\ streams' = streams /\ menu' = menu /\ valid' = valid /\ paused' = FALSE
  BY DEF SystemResume, Resumed
<1>2. \A s \in streams : Sound(s, f[s])  BY ResumedSound DEF SoundInv, TypeOK
<1> HIDE DEF f
<1> QED  BY <1>1, <1>2, AllKeepSound

LEMMA PauseKeepsSound == ASSUME SoundInv, SystemPause PROVE SoundInv'
<1> DEFINE f == [s \in Stream |-> Pause(stream[s], FALSE)]
<1>1. /\ stream' = [s \in Stream |-> IF s \in streams THEN f[s] ELSE stream[s]]
      /\ streams' = streams /\ menu' = menu /\ valid' = valid /\ paused' = TRUE
  BY DEF SystemPause
<1>2. \A s \in streams : Sound(s, f[s]) /\ f[s].channel # "active"
  BY PauseSound DEF SoundInv, TypeOK
<1> HIDE DEF f
<1> QED  BY <1>1, <1>2, AllKeepSound

\* BASS plays on, or comes to an end.
LEMMA AdvanceKeepsSound ==
  ASSUME SoundInv, NEW s \in Stream, ChannelAdvances(s)
  PROVE  SoundInv'
<1> DEFINE r == stream[s]
           q == IF r.pos < Length THEN [r EXCEPT !.pos = r.pos + 1]
                ELSE IF r.looping THEN [r EXCEPT !.pos = 0]
                ELSE [r EXCEPT !.channel = "stopped"]
<1>1. /\ s \in streams /\ r.channel = "active" /\ stream' = [stream EXCEPT ![s] = q]
      /\ UNCHANGED <<streams, paused, menu, valid>>
  BY DEF ChannelAdvances
<1>2. Sound(s, r) /\ r \in StreamType /\ ~paused
  BY <1>1 DEF SoundInv, TypeOK, SystemIsSilent
<1>3. /\ q \in StreamType /\ q.state = r.state /\ q.muted = r.muted /\ q.placed = r.placed
      /\ q.channel \in {"active", "stopped"}
  <2>1. r.pos \in 0..Length /\ Length \in Nat  BY <1>2, ConstantsAssumption DEF StreamType
  <2>2. CASE r.pos < Length
    <3>1. r.pos + 1 \in 0..Length  BY <2>1, <2>2
    <3>2. q = [r EXCEPT !.pos = r.pos + 1]  BY <2>2
    <3> HIDE DEF q, r
    <3> QED  BY <1>1, <1>2, <3>1, <3>2 DEF StreamType
  <2>3. CASE ~(r.pos < Length) /\ r.looping
    <3>1. 0 \in 0..Length  BY <2>1
    <3>2. q = [r EXCEPT !.pos = 0]  BY <2>3
    <3> HIDE DEF q, r
    <3> QED  BY <1>1, <1>2, <3>1, <3>2 DEF StreamType
  <2>4. CASE ~(r.pos < Length) /\ ~r.looping
    <3>1. q = [r EXCEPT !.channel = "stopped"]  BY <2>4
    <3> HIDE DEF q, r
    <3> QED  BY <1>1, <1>2, <3>1 DEF StreamType
  <2> QED  BY <2>2, <2>3, <2>4
<1> HIDE DEF q
<1>4. Sound(s, q)
  BY <1>1, <1>2, <1>3 DEF Sound, OnPurpose, HeardFromPlace, GetState
<1>5. TypeOK'  BY <1>1, <1>3 DEF SoundInv, TypeOK
<1>6. \A t \in streams' : Sound(t, stream'[t])
  BY <1>1, <1>4 DEF SoundInv, TypeOK
<1>7. SystemIsSilent'  BY <1>1, <1>2 DEF SystemIsSilent
<1> QED  BY <1>5, <1>6, <1>7 DEF SoundInv, Sound, StreamType, OnPurpose, HeardFromPlace, GetState

LEMMA SoundStep == SoundInv /\ [Next]_vars => SoundInv'
<1> SUFFICES ASSUME SoundInv, [Next]_vars PROVE SoundInv'  OBVIOUS
<1> USE DEF SoundInv
<1>1. CASE AnyFrame  BY <1>1, FrameKeepsSound
<1>2. CASE ProcessInMenu  BY <1>2, PauseKeepsSound DEF ProcessInMenu
<1>3. CASE Menu
  BY <1>3 DEF Menu, TypeOK, SystemIsSilent, Sound, StreamType, OnPurpose, HeardFromPlace, GetState
<1>4. CASE Clear
  <2>1. \A s \in Stream : New \in StreamType  BY NewIsSound DEF Sound
  <2> QED  BY <1>4, <2>1 DEF Clear, TypeOK, SystemIsSilent
<1>5. ASSUME NEW active \in BOOLEAN, OnMainWindowFocus(active) PROVE SoundInv'
  BY <1>5, PauseKeepsSound, ResumeKeepsSound DEF OnMainWindowFocus
<1>6. ASSUME NEW e \in Entity, Spawn(e) PROVE SoundInv'
  BY <1>6 DEF Spawn, TypeOK, SystemIsSilent, Sound, StreamType, OnPurpose, HeardFromPlace, GetState
<1>7. ASSUME NEW s \in Stream, CreateStream(s) PROVE SoundInv'
  <2>1. /\ streams' = streams \cup {s} /\ stream' = [stream EXCEPT ![s] = Constructed(s)]
        /\ UNCHANGED <<paused, menu, valid>>
    BY <1>7 DEF CreateStream
  <2>2. Sound(s, Constructed(s)) /\ Constructed(s) \in StreamType /\ Constructed(s).channel = "stopped"
    BY NewIsSound DEF Sound, Constructed, New
  <2>3. TypeOK'  BY <2>1, <2>2 DEF TypeOK
  <2>4. \A t \in streams' : Sound(t, stream'[t])  BY <2>1, <2>2 DEF TypeOK
  <2>5. SystemIsSilent'  BY <2>1, <2>2 DEF TypeOK, SystemIsSilent
  <2> QED  BY <2>3, <2>4, <2>5 DEF Sound, StreamType, OnPurpose, HeardFromPlace, GetState
<1>8. ASSUME NEW s \in Stream, DestroyStream(s) PROVE SoundInv'
  <2>1. /\ streams' = streams \ {s} /\ stream' = [stream EXCEPT ![s] = New]
        /\ UNCHANGED <<paused, menu, valid>>
    BY <1>8 DEF DestroyStream
  <2>2. New \in StreamType  BY NewIsSound DEF Sound
  <2>3. TypeOK'  BY <2>1, <2>2 DEF TypeOK
  <2>4. \A t \in streams' : t \in streams /\ stream'[t] = stream[t]  BY <2>1 DEF TypeOK
  <2>5. SystemIsSilent'  BY <2>1, <2>4 DEF SystemIsSilent
  <2> QED  BY <2>3, <2>4, <2>5 DEF Sound, StreamType, OnPurpose, HeardFromPlace, GetState
<1>9. ASSUME NEW s \in Stream, ChannelAdvances(s) PROVE SoundInv'
  BY <1>9, AdvanceKeepsSound
<1>10. ASSUME NEW s \in Stream, NEW action \in {"Stop", "Play", "Pause", "Resume"},
              opcode_0AAD(s, action)
       PROVE  SoundInv'
  <2>1. ASSUME s \in streams PROVE Sound(s, stream[s]) /\ stream[s] \in StreamType
    BY <2>1 DEF TypeOK
  <2>2. CASE action = "Stop"
    <3>1. Update(s, Stop(stream[s]))  BY <1>10, <2>2 DEF opcode_0AAD
    <3>2. s \in streams => Sound(s, Stop(stream[s])) /\ Stop(stream[s]).channel # "active"
      BY <2>1, StopSound
    <3> QED  BY <3>1, <3>2, UpdateKeepsSound
  <2>3. CASE action = "Pause"
    <3>1. Update(s, Pause(stream[s], TRUE))  BY <1>10, <2>3 DEF opcode_0AAD
    <3>2. s \in streams => /\ Sound(s, Pause(stream[s], TRUE))
                           /\ Pause(stream[s], TRUE).channel # "active"
      BY <2>1, PauseSound
    <3> QED  BY <3>1, <3>2, UpdateKeepsSound
  <2>4. CASE action \in {"Play", "Resume"}
    <3>1. Update(s, Play(stream[s]))  BY <1>10, <2>4 DEF opcode_0AAD
    <3>2. s \in streams => /\ Sound(s, Play(stream[s]))
                           /\ Play(stream[s]).channel = stream[s].channel
      BY <2>1, PlaySound
    <3> QED  BY <3>1, <3>2, UpdateKeepsSound
  <2> QED  BY <2>2, <2>3, <2>4
<1>11. ASSUME NEW s \in Stream, NEW loop \in BOOLEAN, opcode_0AC0(s, loop) PROVE SoundInv'
  <2>1. s \in streams => /\ Sound(s, [stream[s] EXCEPT !.looping = loop])
                         /\ [stream[s] EXCEPT !.looping = loop].channel = stream[s].channel
    BY LoopSound
  <2> QED  BY <1>11, <2>1, UpdateKeepsSound DEF opcode_0AC0
<1>12. ASSUME NEW s \in Stream, NEW away \in BOOLEAN, opcode_0AC2(s, away) PROVE SoundInv'
  <2>1. s \in streams => /\ Sound(s, Set3dPosition(stream[s], away))
                         /\ Set3dPosition(stream[s], away).channel = stream[s].channel
    <3>1. NoEntity \in Entity \cup {NoEntity}  OBVIOUS
    <3> QED  BY <3>1, LinkSound DEF Set3dPosition
  <2> QED  BY <1>12, <2>1, UpdateKeepsSound DEF opcode_0AC2
<1>13. ASSUME NEW s \in Stream, NEW host \in Entity, opcode_0AC3(s, host) PROVE SoundInv'
  <2>1. s \in streams => /\ Sound(s, SetHost(stream[s], host))
                         /\ SetHost(stream[s], host).channel = stream[s].channel
    BY LinkSound DEF SetHost
  <2> QED  BY <1>13, <2>1, UpdateKeepsSound DEF opcode_0AC3
<1>14. ASSUME NEW s \in Stream, NEW value \in 0..MaxSpeed, NEW time \in 0..MaxTime,
              opcode_2505(s, value, time)
       PROVE  SoundInv'
  BY <1>14, SetSpeedSound, UpdateKeepsSound DEF opcode_2505
<1>15. ASSUME NEW s \in Stream, NEW value \in (-1)..(Length + 1), opcode_2508(s, value)
       PROVE  SoundInv'
  <2>1. value \in Int  BY ConstantsAssumption
  <2> QED  BY <1>15, <2>1, SetProgressSound, UpdateKeepsSound DEF opcode_2508
<1>16. CASE UNCHANGED vars
  BY <1>16 DEF vars, TypeOK, SystemIsSilent, Sound, StreamType, OnPurpose, HeardFromPlace, GetState
<1> QED
  BY <1>1, <1>2, <1>3, <1>4, <1>5, <1>6, <1>7, <1>8, <1>9, <1>10, <1>11, <1>12, <1>13,
     <1>14, <1>15, <1>16 DEF Next

LEMMA SoundAlways == Spec => []SoundInv
  BY SoundInit, SoundStep, PTL DEF Spec

\* Type correctness: positions stay within the file, a speed between those asked
\* for (CInterpolatedValue, CAudioStream::SetProgress).
THEOREM TypesAreCorrect == Spec => []TypeOK
<1>1. SoundInv => TypeOK  BY DEF SoundInv
<1> QED  BY <1>1, SoundAlways, PTL

\* Silence is kept by CSoundSystem::Pause, Resume and Process and by every
\* opcode that runs between them.
THEOREM SilenceKept == Spec => []SilenceIsKept
<1>1. SoundInv => SilenceIsKept
  BY DEF SoundInv, SystemIsSilent, Sound, OnPurpose, SilenceIsKept
<1> QED  BY <1>1, SoundAlways, PTL

\* C3DAudioStream::Process mutes a stream in the frame in which it has no place.
THEOREM SoundHasPlace == Spec => []NoSoundFromNowhere
<1>1. SoundInv => NoSoundFromNowhere
  BY DEF SoundInv, Sound, HeardFromPlace, NoSoundFromNowhere
<1> QED  BY <1>1, SoundAlways, PTL

\* CInterpolatedValue::update never leads away from the target.
THEOREM TransitionsAreMonotonic == Spec => TransitionsApproach
<1>1. SoundInv /\ [Next]_vars =>
        [AnyFrame => \A s \in streams : Gap(stream'[s].speed) <= Gap(stream[s].speed)]_vars
  BY FrameKeepsSound
<1> QED  BY <1>1, SoundAlways, PTL DEF Spec, TransitionsApproach

----------------------------------------------------------------------------
(* AudioStreams implements AudioPlayer *)

\* What scripts see of an open stream.
Seen(r) == [state |-> CASE GetState(r) = "Stopped" -> "stopped"
                        [] GetState(r) = "Playing" -> "playing"
                        [] GetState(r) = "Paused"  -> "paused",
            pos |-> r.pos]

Views == [s \in Stream |-> View(s)]

LEMMA SeenOpen ==
  ASSUME NEW r \in StreamType
  PROVE  /\ Seen(r).pos = r.pos /\ Seen(r) # Player!Closed
         /\ Seen(r).state = "stopped" <=> r.state = "Stopped"
         /\ Seen(r).state = "playing" <=> r.state \in {"PlayingInactive", "Playing"}
         /\ Seen(r).state = "paused" <=> r.state = "Paused"
         /\ Seen(r).state \in {"stopped", "playing", "paused"}
<1>1. r.state \in {"Stopped", "PlayingInactive", "Playing", "Paused"}  BY DEF StreamType
<1> QED  BY <1>1 DEF Seen, GetState, Player!Closed

\* Two streams with the same state and position look the same.
LEMMA SeenSame ==
  ASSUME NEW r, NEW q, GetState(q) = GetState(r), q.pos = r.pos
  PROVE  Seen(q) = Seen(r)
BY DEF Seen

LEMMA SeenIs ==
  ASSUME NEW r
  PROVE  /\ r.state = "Stopped" => Seen(r) = [state |-> "stopped", pos |-> r.pos]
         /\ r.state \in {"Playing", "PlayingInactive"} => Seen(r) = [state |-> "playing", pos |-> r.pos]
         /\ r.state = "Paused" => Seen(r) = [state |-> "paused", pos |-> r.pos]
BY DEF Seen, GetState

LEMMA ViewOpen ==
  ASSUME SoundInv
  PROVE  \A s \in streams : /\ s \in Stream /\ stream[s] \in StreamType
                            /\ View(s) = Seen(stream[s]) /\ Views[s] = Seen(stream[s])
BY DEF SoundInv, TypeOK, View, Seen, Views

\* An opcode, or BASS, changes one stream.
LEMMA OneIsSeen ==
  ASSUME SoundInv, NEW s \in streams, NEW r,
         stream' = [stream EXCEPT ![s] = r], streams' = streams, paused' = paused
  PROVE  /\ Views' = [Views EXCEPT ![s] = Seen(r)]
         /\ \A state, pos : Seen(r) = [state |-> state, pos |-> pos] => Player!Become(s, state, pos)
         /\ Seen(r) = Seen(stream[s]) => UNCHANGED <<Views, paused>>
<1>1. s \in Stream /\ stream'[s] = r  BY DEF SoundInv, TypeOK
<1>2. View(s)' = Seen(r)  BY <1>1 DEF View, Seen
<1>3. \A t \in Stream \ {s} : View(t)' = View(t)
  BY DEF View, GetState, SoundInv, TypeOK
<1>4. Views' = [Views EXCEPT ![s] = Seen(r)]  BY <1>1, <1>2, <1>3 DEF Views
<1>5. \A state, pos : Seen(r) = [state |-> state, pos |-> pos] => Player!Become(s, state, pos)
  BY <1>4 DEF Player!Become, Views
<1>6. ASSUME Seen(r) = Seen(stream[s]) PROVE Views' = Views
  BY <1>4, <1>6, ViewOpen DEF Views
<1> QED  BY <1>4, <1>5, <1>6

\* What a script sees of the functions of CAudioStream.
LEMMA SeenPlay ==
  ASSUME NEW r \in StreamType
  PROVE  Seen(Play(r)) = [state |-> "playing",
                          pos |-> IF Seen(r).state = "stopped" THEN 0 ELSE Seen(r).pos]
<1>1. Play(r).state = "PlayingInactive" /\ Play(r).pos = IF r.state = "Stopped" THEN 0 ELSE r.pos
  BY DEF Play, StreamType
<1>2. Seen(r).pos = r.pos /\ (Seen(r).state = "stopped" <=> r.state = "Stopped")  BY SeenOpen
<1>3. Seen(Play(r)) = [state |-> "playing", pos |-> Play(r).pos]  BY <1>1, SeenIs
<1> QED  BY <1>1, <1>2, <1>3

LEMMA SeenStop ==
  ASSUME NEW r \in StreamType
  PROVE  Seen(Stop(r)) = [state |-> "stopped", pos |-> Seen(r).pos]
<1>1. Stop(r).state = "Stopped" /\ Stop(r).pos = r.pos  BY DEF Stop, ChannelPause, StreamType
<1> QED  BY <1>1, SeenIs, SeenOpen

LEMMA SeenPause ==
  ASSUME NEW r \in StreamType, NEW change \in BOOLEAN
  PROVE  Seen(Pause(r, change)) =
           IF Seen(r).state = "playing" /\ change THEN [state |-> "paused", pos |-> Seen(r).pos]
           ELSE Seen(r)
<1>1. Seen(r).state = "playing" <=> GetState(r) = "Playing"  BY SeenOpen DEF GetState
<1>2. CASE GetState(r) # "Playing"  BY <1>1, <1>2 DEF Pause
<1>3. CASE GetState(r) = "Playing"
  <2>1. /\ Pause(r, change).state = IF change THEN "Paused" ELSE "PlayingInactive"
        /\ Pause(r, change).pos = r.pos
    BY <1>3 DEF Pause, ChannelPause, StreamType
  <2>2. CASE change  BY <1>1, <1>3, <2>1, <2>2, SeenIs, SeenOpen
  <2>3. CASE ~change
    <3>1. GetState(Pause(r, change)) = GetState(r)  BY <1>3, <2>1, <2>3 DEF GetState
    <3> QED  BY <2>1, <2>3, <3>1, SeenSame
  <2> QED  BY <2>2, <2>3
<1> QED  BY <1>2, <1>3

LEMMA SeenSeek ==
  ASSUME NEW r \in StreamType, NEW value \in Int
  PROVE  \E pos \in 0..Length :
           Seen(SetProgress(r, value)) =
             [state |-> IF Seen(r).state = "stopped" THEN "paused" ELSE Seen(r).state, pos |-> pos]
<1> DEFINE pos == IF value < 0 THEN 0 ELSE IF value > Length THEN Length ELSE value
           q == SetProgress(r, value)
<1>1. pos \in 0..Length  BY ConstantsAssumption
<1>2. q.pos = pos /\ q.state = IF r.state = "Stopped" THEN "Paused" ELSE r.state
  BY DEF SetProgress, StreamType
<1> HIDE DEF pos, q
<1>3. Seen(q) = [state |-> IF Seen(r).state = "stopped" THEN "paused" ELSE Seen(r).state, pos |-> pos]
  <2>1. r.state \in {"Stopped", "PlayingInactive", "Playing", "Paused"}  BY DEF StreamType
  <2>2. CASE r.state \in {"Stopped", "Paused"}  BY <1>2, <2>2, SeenIs, SeenOpen
  <2>3. CASE r.state \in {"Playing", "PlayingInactive"}  BY <1>2, <2>3, SeenIs, SeenOpen
  <2> QED  BY <2>1, <2>2, <2>3
<1> QED  BY <1>1, <1>3 DEF q

LEMMA SeenSetSpeed ==
  ASSUME NEW r \in StreamType, NEW value \in 0..MaxSpeed, NEW time \in 0..MaxTime
  PROVE  Seen(SetSpeed(r, value, time)) \in {Seen(r), Seen(Play(r))}
<1> DEFINE p == IF value > 0 /\ time > 0 THEN Play(r) ELSE r
           q == SetSpeed(r, value, time)
<1>1. q.state = p.state /\ q.pos = p.pos  BY DEF SetSpeed, Play, StreamType
<1>2. Seen(q) = Seen(p)  BY <1>1, SeenSame DEF GetState
<1> QED  BY <1>2

\* Opcodes of a script.
LEMMA OpcodeSeen ==
  ASSUME SoundInv, NEW s \in Stream, NEW r, Update(s, r)
  PROVE  /\ Views[s] = Seen(stream[s]) /\ stream[s] \in StreamType /\ Views[s] # Player!Closed
         /\ \A state, pos : Seen(r) = [state |-> state, pos |-> pos] => Player!Become(s, state, pos)
         /\ Seen(r) = Seen(stream[s]) => UNCHANGED <<Views, paused>>
<1>1. /\ s \in streams /\ stream' = [stream EXCEPT ![s] = r]
      /\ streams' = streams /\ paused' = paused
  BY DEF Update
<1>2. Views[s] = Seen(stream[s]) /\ stream[s] \in StreamType  BY <1>1, ViewOpen
<1>3. Views[s] # Player!Closed  BY <1>2, SeenOpen
<1>4. /\ \A state, pos : Seen(r) = [state |-> state, pos |-> pos] => Player!Become(s, state, pos)
      /\ Seen(r) = Seen(stream[s]) => UNCHANGED <<Views, paused>>
  BY <1>1, OneIsSeen
<1> QED  BY <1>2, <1>3, <1>4

LEMMA PlayIsSeen ==
  ASSUME SoundInv, NEW s \in Stream, Update(s, Play(stream[s]))
  PROVE  Player!Play(s)
<1>1. /\ Views[s] = Seen(stream[s]) /\ stream[s] \in StreamType /\ Views[s] # Player!Closed
  BY OpcodeSeen
<1>2. Player!Become(s, "playing", IF Views[s].state = "stopped" THEN 0 ELSE Views[s].pos)
  BY <1>1, SeenPlay, OpcodeSeen
<1> QED  BY <1>1, <1>2 DEF Player!Play, Views

LEMMA StopIsSeen ==
  ASSUME SoundInv, NEW s \in Stream, Update(s, Stop(stream[s]))
  PROVE  Player!Halt(s)
<1>1. /\ Views[s] = Seen(stream[s]) /\ stream[s] \in StreamType /\ Views[s] # Player!Closed
  BY OpcodeSeen
<1>2. Player!Become(s, "stopped", Views[s].pos)  BY <1>1, SeenStop, OpcodeSeen
<1> QED  BY <1>1, <1>2 DEF Player!Halt, Views

LEMMA PauseIsSeen ==
  ASSUME SoundInv, NEW s \in Stream, Update(s, Pause(stream[s], TRUE))
  PROVE  Player!Pause(s) \/ UNCHANGED <<Views, paused>>
<1>1. Views[s] = Seen(stream[s]) /\ stream[s] \in StreamType  BY OpcodeSeen
<1>2. CASE Seen(stream[s]).state # "playing"
  <2>1. Seen(Pause(stream[s], TRUE)) = Seen(stream[s])  BY <1>1, <1>2, SeenPause
  <2> QED  BY <2>1, OpcodeSeen
<1>3. CASE Seen(stream[s]).state = "playing"
  <2>1. Seen(Pause(stream[s], TRUE)) = [state |-> "paused", pos |-> Views[s].pos]
    BY <1>1, <1>3, SeenPause
  <2>2. Player!Become(s, "paused", Views[s].pos)  BY <2>1, OpcodeSeen
  <2> QED  BY <1>1, <1>3, <2>2 DEF Player!Pause, Views
<1> QED  BY <1>2, <1>3

LEMMA SeekIsSeen ==
  ASSUME SoundInv, NEW s \in Stream, NEW value \in Int, Update(s, SetProgress(stream[s], value))
  PROVE  \E pos \in 0..Length : Player!Seek(s, pos)
<1>1. /\ Views[s] = Seen(stream[s]) /\ stream[s] \in StreamType /\ Views[s] # Player!Closed
  BY OpcodeSeen
<1>2. PICK pos \in 0..Length :
        Seen(SetProgress(stream[s], value)) =
          [state |-> IF Views[s].state = "stopped" THEN "paused" ELSE Views[s].state, pos |-> pos]
  BY <1>1, SeenSeek
<1>3. Player!Become(s, IF Views[s].state = "stopped" THEN "paused" ELSE Views[s].state, pos)
  BY <1>2, OpcodeSeen
<1>4. Player!Seek(s, pos)  BY <1>1, <1>3 DEF Player!Seek, Views
<1> QED  BY <1>4

LEMMA SpeedIsSeen ==
  ASSUME SoundInv, NEW s \in Stream, NEW value \in 0..MaxSpeed, NEW time \in 0..MaxTime,
         Update(s, SetSpeed(stream[s], value, time))
  PROVE  Player!Play(s) \/ UNCHANGED <<Views, paused>>
<1>1. /\ Views[s] = Seen(stream[s]) /\ stream[s] \in StreamType /\ Views[s] # Player!Closed
  BY OpcodeSeen
<1>2. Seen(SetSpeed(stream[s], value, time)) \in {Seen(stream[s]), Seen(Play(stream[s]))}
  BY <1>1, SeenSetSpeed
<1>3. CASE Seen(SetSpeed(stream[s], value, time)) = Seen(stream[s])  BY <1>3, OpcodeSeen
<1>4. CASE Seen(SetSpeed(stream[s], value, time)) = Seen(Play(stream[s]))
  <2>1. Player!Become(s, "playing", IF Views[s].state = "stopped" THEN 0 ELSE Views[s].pos)
    BY <1>1, <1>4, SeenPlay, OpcodeSeen
  <2> QED  BY <1>1, <2>1 DEF Player!Play, Views
<1> QED  BY <1>2, <1>3, <1>4

\* A lost host stops a stream.
LEMMA SeenPosition ==
  ASSUME NEW r \in StreamType, NEW away \in BOOLEAN
  PROVE  Seen(UpdatePosition(r, away)) \in {Seen(r), [state |-> "stopped", pos |-> Seen(r).pos]}
<1> DEFINE q == UpdatePosition(r, away)
<1>1. CASE r.host # NoEntity /\ r.lost  BY <1>1 DEF UpdatePosition
<1>2. CASE ~(r.host # NoEntity /\ r.lost) /\ r.host # NoEntity /\ r.host \notin valid
  <2> DEFINE lost == [r EXCEPT !.lost = TRUE, !.placed = FALSE]
  <2>1. lost \in StreamType /\ lost.pos = r.pos  BY DEF StreamType
  <2>2. q = Stop(lost)  BY <1>2 DEF UpdatePosition, HostLost
  <2> HIDE DEF lost, q
  <2>3. Seen(q) = [state |-> "stopped", pos |-> r.pos]  BY <2>1, <2>2, SeenStop, SeenOpen
  <2> QED  BY <2>3, SeenOpen DEF q
<1>3. CASE ~(r.host # NoEntity /\ r.lost) /\ ~(r.host # NoEntity /\ r.host \notin valid)
  <2>1. q.state = r.state /\ q.pos = r.pos  BY <1>3 DEF UpdatePosition, StreamType
  <2> QED  BY <2>1, SeenSame DEF GetState
<1> QED  BY <1>1, <1>2, <1>3

\* BASS starts a stream, perhaps over, or has come to its end.
LEMMA SeenPlaying ==
  ASSUME NEW r \in StreamType, NEW plays \in BOOLEAN, NEW restart \in BOOLEAN
  PROVE  LET q == ProcessPlaying(r, plays, restart) IN
         \/ Seen(q) \in {Seen(r), [state |-> "stopped", pos |-> Seen(r).pos]}
         \/ /\ Seen(r).state = "playing" /\ Seen(q).state = "playing"
            /\ Seen(q) = [state |-> "playing", pos |-> 0] /\ Seen(r).pos = Length
<1> DEFINE q == ProcessPlaying(r, plays, restart)
<1>1. CASE r.state = "PlayingInactive" /\ (plays \/ r.channel = "active")
  <2>1. q.state = "Playing" /\ q.pos = IF r.pos = Length /\ restart THEN 0 ELSE r.pos
    BY <1>1 DEF ProcessPlaying, ChannelPlay, StreamType
  <2> HIDE DEF q
  <2>2. Seen(q) = [state |-> "playing", pos |-> q.pos]  BY <2>1, SeenIs
  <2>3. Seen(r) = [state |-> "playing", pos |-> r.pos]  BY <1>1, SeenIs
  <2>4. Seen(q) = Seen(r) \/ (Seen(q) = [state |-> "playing", pos |-> 0] /\ r.pos = Length)
    BY <2>1, <2>2, <2>3
  <2> QED  BY <2>2, <2>3, <2>4 DEF q
<1>2. CASE r.state = "PlayingInactive" /\ ~(plays \/ r.channel = "active")
  BY <1>2 DEF ProcessPlaying
<1>3. CASE r.state = "Playing" /\ r.channel = "stopped"
  <2>1. q.state = "Stopped" /\ q.pos = r.pos  BY <1>3 DEF ProcessPlaying, StreamType
  <2> HIDE DEF q
  <2>2. Seen(q) = [state |-> "stopped", pos |-> Seen(r).pos]  BY <2>1, SeenIs, SeenOpen
  <2> QED  BY <2>2 DEF q
<1>4. CASE r.state # "PlayingInactive" /\ ~(r.state = "Playing" /\ r.channel = "stopped")
  BY <1>4 DEF ProcessPlaying
<1> QED  BY <1>1, <1>2, <1>3, <1>4

\* A stream slowed down to nothing is paused.
LEMMA SeenSpeed ==
  ASSUME NEW r \in StreamType, NEW elapsed \in Nat
  PROVE  LET q == ProcessSpeed(r, elapsed) IN
         \/ Seen(q) = Seen(r)
         \/ Seen(r).state = "playing" /\ Seen(q) = [state |-> "paused", pos |-> Seen(r).pos]
<1> DEFINE next == [r EXCEPT !.speed = update(r.speed, elapsed)]
<1>1. update(r.speed, elapsed) \in SpeedType  BY UpdateApproaches DEF StreamType
<1>2. next \in StreamType /\ next.state = r.state /\ next.pos = r.pos  BY <1>1 DEF StreamType
<1>3. ProcessSpeed(r, elapsed) \in {next, Pause(next, TRUE)}  BY DEF ProcessSpeed
<1> HIDE DEF next
<1>4. Seen(next) = Seen(r)  BY <1>2, SeenSame DEF GetState
<1> QED  BY <1>2, <1>3, <1>4, SeenPause

LEMMA SeenVolume ==
  ASSUME NEW r \in StreamType, NEW s
  PROVE  Seen(ProcessVolume(s, r)) = Seen(r)
<1>1. ProcessVolume(s, r).state = r.state /\ ProcessVolume(s, r).pos = r.pos
  BY DEF ProcessVolume, StreamType
<1> QED  BY <1>1, SeenSame DEF GetState

\* CAudioStream::Process
LEMMA SeenProcess ==
  ASSUME NEW s \in Stream, NEW r, Sound(s, r), NEW elapsed \in Nat,
         NEW plays \in BOOLEAN, NEW restart \in BOOLEAN, NEW away \in BOOLEAN
  PROVE  Seen(Process(s, r, elapsed, plays, restart, away)) \in Player!AfterFrame(Seen(r))
<1> DEFINE a == IF s \in Stream3D THEN UpdatePosition(r, away) ELSE r
           b == ProcessPlaying(a, plays, restart)
           c == ProcessSpeed(b, elapsed)
           d == ProcessVolume(s, c)
           p == Seen(r)
<1>1. a \in StreamType /\ OnPurpose(a)  BY UpdatePositionPurpose DEF Sound
<1>2. Seen(a) \in {p, [state |-> "stopped", pos |-> p.pos]}  BY SeenPosition DEF Sound
<1> HIDE DEF a
<1>3. b \in StreamType /\ (b.channel = "active" => b.state = "Playing")
  BY <1>1, ProcessPlayingPurpose
<1>4. \/ Seen(b) \in {Seen(a), [state |-> "stopped", pos |-> Seen(a).pos]}
      \/ /\ Seen(a).state = "playing"
         /\ Seen(b) = [state |-> "playing", pos |-> 0] /\ Seen(a).pos = Length
  BY <1>1, SeenPlaying
<1> HIDE DEF b
<1>5. c \in StreamType  BY <1>3, ProcessSpeedPurpose
<1>6. \/ Seen(c) = Seen(b)
      \/ Seen(b).state = "playing" /\ Seen(c) = [state |-> "paused", pos |-> Seen(b).pos]
  BY <1>3, SeenSpeed
<1> HIDE DEF c
<1>7. Seen(d) = Seen(c)  BY <1>5, SeenVolume
<1> HIDE DEF d
<1>8. Process(s, r, elapsed, plays, restart, away) = d  BY DEF Process, a, b, c, d
<1>9. p = [state |-> p.state, pos |-> p.pos] /\ p.state \in {"stopped", "playing", "paused"}
  BY SeenOpen DEF Seen, Sound
<1> HIDE DEF p
<1>10. Seen(b) \in {p, [state |-> "stopped", pos |-> p.pos]}
         \cup {q \in {[state |-> "playing", pos |-> 0]} : p.state = "playing" /\ p.pos = Length}
  BY <1>2, <1>4, <1>9
<1>11. Seen(c) \in {p, [state |-> "stopped", pos |-> p.pos]}
         \cup (IF p.state # "playing" THEN {}
               ELSE [state : {"playing", "paused"},
                     pos : {p.pos} \cup (IF p.pos = Length THEN {0} ELSE {})])
  BY <1>6, <1>9, <1>10
<1>12. [p EXCEPT !.state = "stopped"] = [state |-> "stopped", pos |-> p.pos]  BY <1>9
<1> QED  BY <1>7, <1>8, <1>9, <1>11, <1>12 DEF Player!AfterFrame, p

\* A resumed stream looks as before it was silenced.
LEMMA SeenResumed ==
  ASSUME SoundInv, NEW s \in streams
  PROVE  Seen(ResumeStream(stream[s])) = Seen(stream[s])
<1>1. stream[s] \in StreamType  BY ViewOpen
<1>2. CASE GetState(stream[s]) # "Playing"  BY <1>2 DEF ResumeStream
<1>3. CASE GetState(stream[s]) = "Playing"
  <2>1. Seen(stream[s]) = [state |-> "playing", pos |-> stream[s].pos] /\ stream[s].pos = Seen(stream[s]).pos
    BY <1>1, <1>3, SeenIs, SeenOpen DEF GetState
  <2>2. Seen(Play(stream[s])) = Seen(stream[s])  BY <1>1, <2>1, SeenPlay
  <2> QED  BY <1>3, <2>2 DEF ResumeStream
<1> QED  BY <1>2, <1>3

\* All open streams change at once.
LEMMA AllAreSeen ==
  ASSUME SoundInv, NEW f, streams' = streams,
         stream' = [s \in Stream |-> IF s \in streams THEN f[s] ELSE stream[s]]
  PROVE  \A s \in Stream : Views'[s] = IF s \in streams THEN Seen(f[s]) ELSE Views[s]
<1> TAKE s \in Stream
<1>1. CASE s \in streams  BY <1>1 DEF Views, View, Seen
<1>2. CASE s \notin streams  BY <1>2 DEF Views, View
<1> QED  BY <1>1, <1>2

LEMMA FrameIsSeen == ASSUME SoundInv, AnyFrame PROVE Player!Frame
<1>1. PICK elapsed \in 0..MaxTime, able \in [Stream -> BOOLEAN], restart \in BOOLEAN, hostAway \in BOOLEAN :
        ProcessInGame(elapsed, able, restart, hostAway)
  BY DEF AnyFrame
<1> DEFINE before == IF paused THEN Resumed ELSE stream
           f == [s \in Stream |-> Process(s, before[s], elapsed, able[s], restart, hostAway)]
<1>2. /\ stream' = [s \in Stream |-> IF s \in streams THEN f[s] ELSE stream[s]]
      /\ streams' = streams /\ paused' = FALSE
  BY <1>1 DEF ProcessInGame
<1>3. \A s \in streams : Seen(f[s]) \in Player!AfterFrame(Views[s])
  <2> TAKE s \in streams
  <2>1. s \in Stream /\ Sound(s, before[s])
    BY ResumedSound DEF SoundInv, TypeOK
  <2>2. Seen(before[s]) = Views[s]
    BY ResumedSound, SeenResumed, ViewOpen
  <2> HIDE DEF before
  <2>3. elapsed \in Nat  BY ConstantsAssumption
  <2>4. able[s] \in BOOLEAN  BY <2>1
  <2>5. f[s] = Process(s, before[s], elapsed, able[s], restart, hostAway)  BY <2>1
  <2> HIDE DEF f
  <2> QED  BY <2>1, <2>2, <2>3, <2>4, <2>5, SeenProcess
<1> HIDE DEF f
<1>4. \A s \in Stream : Views'[s] \in Player!AfterFrame(Views[s])
  <2> TAKE s \in Stream
  <2>1. Views'[s] = IF s \in streams THEN Seen(f[s]) ELSE Views[s]  BY <1>2, AllAreSeen
  <2>2. Views[s] \in Player!AfterFrame(Views[s])  BY DEF Player!AfterFrame
  <2> QED  BY <1>3, <2>1, <2>2
<1>5. Views' = [s \in Stream |-> Views'[s]]  BY DEF Views
<1> QED  BY <1>2, <1>4, <1>5 DEF Player!Frame, Views

\* CSoundSystem::Pause and Resume.
LEMMA SilenceIsNotSeen ==
  ASSUME SoundInv, SystemPause \/ SystemResume
  PROVE  \E on \in BOOLEAN : Player!Silence(on)
<1>1. CASE SystemPause
  <2> DEFINE f == [s \in Stream |-> Pause(stream[s], FALSE)]
  <2>1. /\ stream' = [s \in Stream |-> IF s \in streams THEN f[s] ELSE stream[s]]
        /\ streams' = streams /\ paused' = TRUE
    BY <1>1 DEF SystemPause
  <2>2. \A s \in streams : Seen(f[s]) = Views[s]
    BY ViewOpen, SeenPause
  <2> HIDE DEF f
  <2>3. \A s \in Stream : Views'[s] = Views[s]  BY <2>1, <2>2, AllAreSeen
  <2>4. Views' = Views  BY <2>3 DEF Views
  <2> QED  BY <2>1, <2>4 DEF Player!Silence, Views
<1>2. CASE SystemResume
  <2> DEFINE f == [s \in Stream |-> ResumeStream(stream[s])]
  <2>1. /\ stream' = [s \in Stream |-> IF s \in streams THEN f[s] ELSE stream[s]]
        /\ streams' = streams /\ paused' = FALSE
    BY <1>2 DEF SystemResume, Resumed
  <2>2. \A s \in streams : Seen(f[s]) = Views[s]
    BY ViewOpen, SeenResumed
  <2> HIDE DEF f
  <2>3. \A s \in Stream : Views'[s] = Views[s]  BY <2>1, <2>2, AllAreSeen
  <2>4. Views' = Views  BY <2>3 DEF Views
  <2> QED  BY <2>1, <2>4 DEF Player!Silence, Views
<1> QED  BY <1>1, <1>2

\* A channel that plays is one of a stream that plays for the script, and the
\* system is not silent: the script sees the sound go on, or come to the end.
LEMMA AdvanceIsSeen ==
  ASSUME SoundInv, NEW s \in Stream, ChannelAdvances(s)
  PROVE  Player!Advance(s) \/ UNCHANGED <<Views, paused>>
<1> DEFINE r == stream[s]
           q == IF r.pos < Length THEN [r EXCEPT !.pos = r.pos + 1]
                ELSE IF r.looping THEN [r EXCEPT !.pos = 0]
                ELSE [r EXCEPT !.channel = "stopped"]
<1>1. /\ s \in streams /\ r.channel = "active" /\ stream' = [stream EXCEPT ![s] = q]
      /\ streams' = streams /\ paused' = paused
  BY DEF ChannelAdvances
<1>2. r \in StreamType /\ Views[s] = Seen(r) /\ ~paused /\ GetState(r) = "Playing"
  BY <1>1, ViewOpen DEF SoundInv, TypeOK, SystemIsSilent, Sound, OnPurpose
<1>3. Seen(r) = [state |-> "playing", pos |-> r.pos] /\ r.pos \in 0..Length /\ Length \in Nat
  BY <1>2, SeenIs, ConstantsAssumption DEF GetState, StreamType
<1>4. /\ Seen(q) = Seen(r) => UNCHANGED <<Views, paused>>
      /\ \A state, pos : Seen(q) = [state |-> state, pos |-> pos] => Player!Become(s, state, pos)
  <2> HIDE DEF q
  <2> QED  BY <1>1, OneIsSeen
<1>5. CASE r.pos < Length
  <2>1. q.state = r.state /\ q.pos = r.pos + 1  BY <1>2, <1>5 DEF StreamType
  <2> HIDE DEF q, r
  <2>2. Seen(q) = [state |-> "playing", pos |-> Seen(r).pos + 1]
    BY <1>2, <1>3, <2>1, SeenIs DEF GetState
  <2>3. Player!Become(s, "playing", Views[s].pos + 1)  BY <1>2, <1>4, <2>2
  <2> QED  BY <1>2, <1>3, <1>5, <2>3 DEF Player!Advance, Views
<1>6. CASE ~(r.pos < Length) /\ r.looping
  <2>1. q.state = r.state /\ q.pos = 0  BY <1>2, <1>6 DEF StreamType
  <2> HIDE DEF q, r
  <2>2. Seen(q) = [state |-> "playing", pos |-> 0]
    BY <1>2, <1>3, <2>1, SeenIs DEF GetState
  <2>3. Player!Become(s, "playing", 0)  BY <1>4, <2>2
  <2>4. Views[s].pos = Length  BY <1>2, <1>3, <1>6
  <2> QED  BY <1>2, <1>3, <2>3, <2>4 DEF Player!Advance, Views
<1>7. CASE ~(r.pos < Length) /\ ~r.looping
  <2>1. q.state = r.state /\ q.pos = r.pos  BY <1>2, <1>7 DEF StreamType
  <2> HIDE DEF q, r
  <2>2. Seen(q) = Seen(r)  BY <2>1, SeenSame DEF GetState
  <2> QED  BY <1>4, <2>2
<1> QED  BY <1>5, <1>6, <1>7

\* Streams are opened and closed.
LEMMA OpenIsSeen == ASSUME SoundInv, NEW s \in Stream, CreateStream(s) PROVE Player!Open(s)
<1>1. /\ s \notin streams /\ streams' = streams \cup {s} /\ paused' = paused
      /\ stream' = [stream EXCEPT ![s] = Constructed(s)]
  BY DEF CreateStream
<1>2. stream'[s] = Constructed(s)  BY <1>1 DEF SoundInv, TypeOK
<1>3. Constructed(s).state = "Paused" /\ Constructed(s).pos = 0  BY DEF Constructed, New
<1>4. View(s) = Player!Closed  BY <1>1 DEF View, Player!Closed
<1>5. View(s)' = [state |-> "paused", pos |-> 0]
  BY <1>1, <1>2, <1>3, SeenIs DEF View, Seen
<1>6. \A t \in Stream \ {s} : View(t)' = View(t)
  BY <1>1 DEF View, GetState, SoundInv, TypeOK
<1> QED  BY <1>1, <1>4, <1>5, <1>6 DEF Player!Open

LEMMA CloseIsSeen ==
  ASSUME SoundInv, NEW S \in SUBSET Stream, streams' = streams \ S, paused' = paused,
         \A t \in Stream \ S : stream'[t] = stream[t]
  PROVE  Player!Close(S)
<1>1. \A t \in S : View(t)' = Player!Closed  BY DEF View, Player!Closed
<1>2. \A t \in Stream \ S : View(t)' = View(t)  BY DEF View, GetState
<1> QED  BY <1>1, <1>2 DEF Player!Close

LEMMA PlayerStep == SoundInv /\ [Next]_vars => [Player!PlayerNext]_<<Views, paused>>
<1> SUFFICES ASSUME SoundInv, [Next]_vars
             PROVE  Player!PlayerNext \/ UNCHANGED <<Views, paused>>
  OBVIOUS
<1>1. CASE AnyFrame  BY <1>1, FrameIsSeen DEF Player!PlayerNext
<1>2. CASE ProcessInMenu \/ \E active \in BOOLEAN : OnMainWindowFocus(active)
  <2>1. \E on \in BOOLEAN : Player!Silence(on)
    BY <1>2, SilenceIsNotSeen DEF ProcessInMenu, OnMainWindowFocus
  <2> QED  BY <2>1 DEF Player!PlayerNext
<1>3. CASE Menu \/ (\E e \in Entity : Spawn(e)) \/ UNCHANGED vars
  <2>1. UNCHANGED <<streams, stream, paused>>  BY <1>3 DEF Menu, Spawn, vars
  <2> QED  BY <2>1 DEF Views, View, GetState
<1>4. CASE Clear
  <2>1. Player!Close(Stream)  BY <1>4, CloseIsSeen DEF Clear, SoundInv, TypeOK
  <2> QED  BY <2>1 DEF Player!PlayerNext
<1>5. ASSUME NEW s \in Stream, CreateStream(s) PROVE Player!PlayerNext
  BY <1>5, OpenIsSeen DEF Player!PlayerNext
<1>6. ASSUME NEW s \in Stream, DestroyStream(s) PROVE Player!PlayerNext
  <2>1. \A t \in Stream \ {s} : stream'[t] = stream[t]
    BY <1>6 DEF DestroyStream, SoundInv, TypeOK
  <2>2. Player!Close({s})  BY <1>6, <2>1, CloseIsSeen DEF DestroyStream
  <2> QED  BY <2>2 DEF Player!PlayerNext
<1>7. ASSUME NEW s \in Stream, ChannelAdvances(s)
      PROVE  Player!PlayerNext \/ UNCHANGED <<Views, paused>>
  BY <1>7, AdvanceIsSeen DEF Player!PlayerNext
<1>8. ASSUME NEW s \in Stream, NEW action \in {"Stop", "Play", "Pause", "Resume"},
             opcode_0AAD(s, action)
      PROVE  Player!PlayerNext \/ UNCHANGED <<Views, paused>>
  <2>1. CASE action = "Stop"
    BY <1>8, <2>1, StopIsSeen DEF opcode_0AAD, Player!PlayerNext
  <2>2. CASE action = "Pause"
    BY <1>8, <2>2, PauseIsSeen DEF opcode_0AAD, Player!PlayerNext
  <2>3. CASE action \in {"Play", "Resume"}
    BY <1>8, <2>3, PlayIsSeen DEF opcode_0AAD, Player!PlayerNext
  <2> QED  BY <2>1, <2>2, <2>3
<1>9. ASSUME NEW s \in Stream, NEW r, Update(s, r),
             s \in streams => r.state = stream[s].state /\ r.pos = stream[s].pos
      PROVE  UNCHANGED <<Views, paused>>
  <2>1. Seen(r) = Seen(stream[s])  BY <1>9, SeenSame DEF Update, GetState
  <2> QED  BY <1>9, <2>1, OpcodeSeen
<1>10. ASSUME NEW s \in Stream,
              \/ \E loop \in BOOLEAN : opcode_0AC0(s, loop)
              \/ \E away \in BOOLEAN : opcode_0AC2(s, away)
              \/ \E host \in Entity : opcode_0AC3(s, host)
       PROVE  UNCHANGED <<Views, paused>>
  <2>1. s \in streams => stream[s] \in StreamType  BY ViewOpen
  <2>2. ASSUME NEW loop \in BOOLEAN, opcode_0AC0(s, loop) PROVE UNCHANGED <<Views, paused>>
    BY <1>9, <2>1, <2>2 DEF opcode_0AC0, StreamType
  <2>3. ASSUME NEW away \in BOOLEAN, opcode_0AC2(s, away) PROVE UNCHANGED <<Views, paused>>
    BY <1>9, <2>1, <2>3 DEF opcode_0AC2, Set3dPosition, StreamType
  <2>4. ASSUME NEW host \in Entity, opcode_0AC3(s, host) PROVE UNCHANGED <<Views, paused>>
    BY <1>9, <2>1, <2>4 DEF opcode_0AC3, SetHost, StreamType
  <2> QED  BY <1>10, <2>2, <2>3, <2>4
<1>11. ASSUME NEW s \in Stream, NEW value \in 0..MaxSpeed, NEW time \in 0..MaxTime,
              opcode_2505(s, value, time)
       PROVE  Player!PlayerNext \/ UNCHANGED <<Views, paused>>
  BY <1>11, SpeedIsSeen DEF opcode_2505, Player!PlayerNext
<1>12. ASSUME NEW s \in Stream, NEW value \in (-1)..(Length + 1), opcode_2508(s, value)
       PROVE  Player!PlayerNext
  <2>1. value \in Int  BY ConstantsAssumption
  <2>2. \E pos \in 0..Length : Player!Seek(s, pos)  BY <1>12, <2>1, SeekIsSeen DEF opcode_2508
  <2> QED  BY <2>2 DEF Player!PlayerNext
<1> QED
  BY <1>1, <1>2, <1>3, <1>4, <1>5, <1>6, <1>7, <1>8, <1>10, <1>11, <1>12 DEF Next

LEMMA PlayerStart == Init => Player!PlayerInit
BY DEF Init, View, Player!PlayerInit, Player!Closed

\* Whatever the sound system, the menu and BASS do between the calls of a script,
\* it sees the states and positions AudioPlayer promises: CSoundSystem's silence
\* never shows in CAudioStream::GetState, and a play, pause, stop or seek is
\* never lost or undone by it.
THEOREM StreamsImplementPlayer == Spec => ImplementsPlayer
<1>1. SoundInv /\ [Next]_vars => [Player!PlayerNext]_<<[s \in Stream |-> View(s)], paused>>
  BY PlayerStep DEF Views
<1> QED  BY <1>1, PlayerStart, SoundAlways, PTL DEF Spec, ImplementsPlayer, Player!PlayerSpec
=============================================================================
