-------------------------------- MODULE Keys --------------------------------
(***************************************************************************)
(* Input: which keys are down and which have just been pressed, as scripts *)
(* ask in every frame, keys scripts press themselves, and cheats.          *)
(*                                                                         *)
(* Abstractions.  The keyboard is that of the thread of the game: presses  *)
(* and releases wait until the thread takes them from its queue.  Mouse    *)
(* buttons are keys.  Names of keys and the keys of controller actions are *)
(* left out.                                                               *)
(***************************************************************************)
EXTENDS Naturals, Sequences, SequencesExt

CONSTANTS
  Key,            \* the keys, numbered by their codes: a range from 1
  Cheat,          \* texts of cheats scripts test: sequences of keys
  MaxEvents,      \* bound on events in the queue
  CheatLength     \* 30: how much of what was typed the game keeps

KeysAssumption == Key \subseteq Nat /\ CheatLength \in Nat /\ \A j, k \in Key : j..k \subseteq Key

VARIABLES
  keyStatesCurr, keyStatesPrev, \* the keys that are down
  keyboard, events, foreground, menu, \* of the system and the game
  m_CheatString,  \* of the game: what was typed, the last key first
  down,           \* auxiliary: at how many checks in a row a key was down, up to 2
  answer          \* auxiliary: the last answer to a script

keysVars == <<keyStatesCurr, keyStatesPrev, keyboard, events, foreground, menu, m_CheatString, down, answer>>
checkVars == <<keyStatesCurr, keyStatesPrev, down>>
systemVars == <<keyboard, events, foreground, menu>>

----------------------------------------------------------------------------
NoKey == 0
NoAnswer == [asked |-> "nothing", keys |-> {}, found |-> NoKey]

\* Variant: the states of the frame before stay what they were at first.
PreviousKept(states) == keyStatesPrev

Previous(states) == states

CheckKeyboard ==
  /\ keyStatesPrev' = Previous(keyStatesCurr)
  /\ keyStatesCurr' = IF foreground THEN keyboard ELSE {}
  /\ down' = [k \in Key |-> IF k \notin keyStatesCurr' THEN 0 ELSE IF down[k] = 0 THEN 1 ELSE 2]
  /\ answer' = NoAnswer
  /\ UNCHANGED <<systemVars, m_CheatString>>

\* Before the scripts of a frame, and in the menu after it was drawn.
OnGameProcessBefore == CheckKeyboard
OnDrawingFinished == menu /\ CheckKeyboard

----------------------------------------------------------------------------
(* Opcodes *)

IsDown(k) == k \in keyStatesCurr
IsJustPressed(k) == k \in keyStatesCurr \ keyStatesPrev
Lowest(K) == IF K = {} THEN NoKey ELSE CHOOSE k \in K : \A j \in K : k <= j

Answer(asked, K, found) ==
  /\ answer' = [asked |-> asked, keys |-> K, found |-> Lowest(found)]
  /\ UNCHANGED <<checkVars, systemVars, m_CheatString>>

\* is_key_pressed, is_key_just_pressed
opcode_0AB0(k) == Answer("down", {k}, {j \in {k} : IsDown(j)})
opcode_2080(k) == Answer("pressed", {k}, {j \in {k} : IsJustPressed(j)})

\* get_key_pressed_in_range, get_key_just_pressed_in_range: the first one there is
opcode_2081(keyMin, keyMax) ==
  keyMin <= keyMax /\ Answer("down", keyMin..keyMax, {k \in keyMin..keyMax : IsDown(k)})
opcode_2082(keyMin, keyMax) ==
  keyMin <= keyMax /\ Answer("pressed", keyMin..keyMax, {k \in keyMin..keyMax : IsJustPressed(k)})

SendKeyEvent(k, isDown) ==
  /\ Len(events) < MaxEvents
  /\ events' = Append(events, [key |-> k, down |-> isDown])
  /\ UNCHANGED <<checkVars, keyboard, foreground, menu, m_CheatString, answer>>

\* emulate_key_press, emulate_key_release
opcode_2083(k) == SendKeyEvent(k, TRUE)
opcode_2084(k) == SendKeyEvent(k, FALSE)

\* test_cheat: one that was typed is used up, with all that was typed before it.
opcode_0ADC(cheat) ==
  /\ cheat # <<>> /\ IsPrefix(Reverse(cheat), m_CheatString)
  /\ m_CheatString' = <<>>
  /\ UNCHANGED <<checkVars, systemVars, answer>>

----------------------------------------------------------------------------
(* The system and the game *)

\* The user presses or releases a key, as a script may.
UserEvent(k, isDown) == SendKeyEvent(k, isDown)

\* The game takes an event from its queue. Keys typed are added to the text of cheats.
TakeEvent ==
  /\ events # <<>>
  /\ LET e == Head(events)
     IN  /\ keyboard' = IF e.down THEN keyboard \cup {e.key} ELSE keyboard \ {e.key}
         /\ m_CheatString' = IF e.down /\ foreground
                             THEN SubSeq(<<e.key>> \o m_CheatString, 1, IF Len(m_CheatString) < CheatLength
                                                                        THEN Len(m_CheatString) + 1 ELSE CheatLength)
                             ELSE m_CheatString
  /\ events' = Tail(events)
  /\ UNCHANGED <<checkVars, foreground, menu, answer>>

Window(active) == foreground' = active /\ UNCHANGED <<checkVars, keyboard, events, menu, m_CheatString, answer>>
Menu(open) == menu' = open /\ UNCHANGED <<checkVars, keyboard, events, foreground, m_CheatString, answer>>

----------------------------------------------------------------------------
KeysInit ==
  /\ keyStatesCurr = {} /\ keyStatesPrev = {} /\ down = [k \in Key |-> 0] /\ answer = NoAnswer
  /\ keyboard = {} /\ events = <<>> /\ foreground = TRUE /\ menu = FALSE /\ m_CheatString = <<>>

KeysNext ==
  \/ OnGameProcessBefore \/ OnDrawingFinished
  \/ \E k \in Key :
       \/ opcode_0AB0(k) \/ opcode_2080(k) \/ opcode_2083(k) \/ opcode_2084(k)
       \/ \E j \in Key : opcode_2081(k, j) \/ opcode_2082(k, j)
       \/ \E isDown \in BOOLEAN : UserEvent(k, isDown)
  \/ \E cheat \in Cheat : opcode_0ADC(cheat)
  \/ TakeEvent
  \/ \E b \in BOOLEAN : Window(b) \/ Menu(b)

----------------------------------------------------------------------------
\* Types of the keys.
KeysTypeOK ==
  /\ keyStatesCurr \subseteq Key /\ keyStatesPrev \subseteq Key /\ keyboard \subseteq Key
  /\ events \in Seq([key : Key, down : BOOLEAN]) /\ foreground \in BOOLEAN /\ menu \in BOOLEAN
  /\ m_CheatString \in Seq(Key) /\ Len(m_CheatString) <= CheatLength
  /\ down \in [Key -> 0..2]

\* Every script is told of a press in the one frame in which the key is down for the first
\* time, however many ask, in which order and for which ranges; a key held while the window
\* is left and entered again is pressed anew, and one held through the menu is not.
PressesAreSeen ==
  LET wanted == {k \in answer.keys : IF answer.asked = "pressed" THEN down[k] = 1 ELSE down[k] > 0}
  IN  answer.found = Lowest(wanted)
=============================================================================
