------------------------------- MODULE Memory -------------------------------
(***************************************************************************)
(* MemoryOperations: blocks of memory and libraries scripts ask for, and   *)
(* the accounts by which a script is warned that it holds too much.        *)
(*                                                                         *)
(* Abstractions.  An address stands for a block of any size that fits.  A  *)
(* script is its structure, which the next script may get.  An opcode that *)
(* refuses its arguments changes nothing here; the script is suspended.    *)
(***************************************************************************)
EXTENDS Integers, FiniteSets, FiniteSetsExt

CONSTANTS
  Script,   \* script structures
  Block,    \* addresses calloc may return
  Size,     \* sizes asked for
  Library,
  MaxCount, \* bound on the blocks on one account
  MaxHolds  \* bound on the references to a library

MemoryAssumption == Size \subseteq Nat /\ MaxCount \in Nat /\ MaxHolds \in Nat

VARIABLES
  heap,      \* of the process: "free", "live", or "given" away by the script
  m_allocations, m_scriptAllocationsInfo,
  m_libraries,
  holds      \* references LoadLibrary gave out and FreeLibrary has not taken back

memoryVars == <<heap, m_allocations, m_scriptAllocationsInfo, m_libraries, holds>>

----------------------------------------------------------------------------
NoInfo == [count |-> 0, size |-> 0]
Known == DOMAIN m_allocations
Accounts == DOMAIN m_scriptAllocationsInfo
Without(f, x) == [y \in DOMAIN f \ {x} |-> f[y]]
With(f, x, v) == [y \in DOMAIN f \cup {x} |-> IF y = x THEN v ELSE f[y]]

Account(s) == IF s \in Accounts THEN m_scriptAllocationsInfo[s] ELSE NoInfo

Charged(s, size) == [count |-> Account(s).count + 1, size |-> Account(s).size + size]
Discharged(s, size) == [count |-> Account(s).count - 1, size |-> Account(s).size - size]

RegisterMemoryAllocation(s, b, size) ==
  /\ m_allocations' = With(m_allocations, b, size)
  /\ m_scriptAllocationsInfo' = With(m_scriptAllocationsInfo, s, Charged(s, size))

\* Variant: an account stays open with no block on it.
IsOverdrawn(info) == info.count < 0

\* Variant: an account is closed one block too early.
IsPaidOff(info) == info.count <= 1

IsClosed(info) == info.count <= 0

\* The script that gives the block back is credited, whoever asked for it.
UnregisterMemoryAllocation(s, b) ==
  LET info == Discharged(s, m_allocations[b])
  IN  /\ m_allocations' = Without(m_allocations, b)
      /\ m_scriptAllocationsInfo' =
           IF s \notin Accounts THEN m_scriptAllocationsInfo
           ELSE IF IsClosed(info) THEN Without(m_scriptAllocationsInfo, s)
           ELSE With(m_scriptAllocationsInfo, s, info)

----------------------------------------------------------------------------
\* allocate_memory
opcode_0AC8(s, b, size) ==
  /\ heap[b] = "free" /\ Account(s).count < MaxCount
  /\ heap' = [heap EXCEPT ![b] = "live"]
  /\ RegisterMemoryAllocation(s, b, size)
  /\ UNCHANGED <<m_libraries, holds>>

\* free_memory, by any script that knows the address
opcode_0AC9(s, b) ==
  /\ b \in Known
  /\ heap' = [heap EXCEPT ![b] = "free"]
  /\ UnregisterMemoryAllocation(s, b)
  /\ UNCHANGED <<m_libraries, holds>>

\* forget_memory: the block belongs to the game from now on
opcode_2403(s, b) ==
  /\ b \in Known
  /\ heap' = [heap EXCEPT ![b] = "given"]
  /\ UnregisterMemoryAllocation(s, b)
  /\ UNCHANGED <<m_libraries, holds>>

\* The new owner frees a block it was given.
OwnerFrees(b) ==
  /\ heap[b] = "given"
  /\ heap' = [heap EXCEPT ![b] = "free"]
  /\ UNCHANGED <<m_allocations, m_scriptAllocationsInfo, m_libraries, holds>>

\* load_dynamic_library
opcode_0AA2(l) ==
  /\ holds[l] < MaxHolds
  /\ holds' = [holds EXCEPT ![l] = @ + 1]
  /\ m_libraries' = With(m_libraries, l, (IF l \in DOMAIN m_libraries THEN m_libraries[l] ELSE 0) + 1)
  /\ UNCHANGED <<heap, m_allocations, m_scriptAllocationsInfo>>

\* free_library: the entry of an unloaded library stays, with 0
opcode_0AA3(l) ==
  /\ l \in DOMAIN m_libraries /\ m_libraries[l] # 0
  /\ holds' = [holds EXCEPT ![l] = @ - 1]
  /\ m_libraries' = [m_libraries EXCEPT ![l] = @ - 1]
  /\ UNCHANGED <<heap, m_allocations, m_scriptAllocationsInfo>>

OnGameEnd ==
  /\ heap' = [b \in Block |-> IF b \in Known THEN "free" ELSE heap[b]]
  /\ m_allocations' = [b \in {} |-> 0] /\ m_scriptAllocationsInfo' = [s \in {} |-> NoInfo]
  /\ holds' = [l \in Library |-> IF l \in DOMAIN m_libraries THEN holds[l] - m_libraries[l]
                                 ELSE holds[l]]
  /\ m_libraries' = [l \in {} |-> 0]

----------------------------------------------------------------------------
MemoryInit ==
  /\ heap = [b \in Block |-> "free"]
  /\ m_allocations = [b \in {} |-> 0] /\ m_scriptAllocationsInfo = [s \in {} |-> NoInfo]
  /\ m_libraries = [l \in {} |-> 0] /\ holds = [l \in Library |-> 0]

MemoryNext ==
  \/ \E s \in Script, b \in Block :
       (\E size \in Size : opcode_0AC8(s, b, size)) \/ opcode_0AC9(s, b) \/ opcode_2403(s, b)
  \/ \E b \in Block : OwnerFrees(b)
  \/ \E l \in Library : opcode_0AA2(l) \/ opcode_0AA3(l)

----------------------------------------------------------------------------
\* Types of the tables.  Sizes on an account may be less than nothing.
MemoryTypeOK ==
  /\ heap \in [Block -> {"free", "live", "given"}]
  /\ Known \subseteq Block /\ m_allocations \in [Known -> Size]
  /\ Accounts \subseteq Script
  /\ m_scriptAllocationsInfo \in [Accounts -> [count : Nat \ {0}, size : Int]]
  /\ DOMAIN m_libraries \subseteq Library /\ m_libraries \in [DOMAIN m_libraries -> 0..MaxHolds]
  /\ holds \in [Library -> 0..MaxHolds]

\* What the tables list is what the process holds for scripts, no more, as it is freed at the
\* end of the session, and no less: a block is live until it is freed once or given away, and a
\* library has as many references as it was loaded more often than freed.
TablesAreExact ==
  /\ \A b \in Block : heap[b] = "live" <=> b \in Known
  /\ \A l \in Library : holds[l] = IF l \in DOMAIN m_libraries THEN m_libraries[l] ELSE 0

\* The accounts together never list fewer blocks than there are, whoever frees whose blocks in
\* whatever order: holding too many cannot be hidden from all accounts.
BlocksAreCharged ==
  MapThenSumSet(LAMBDA s : m_scriptAllocationsInfo[s].count, Accounts) >= Cardinality(Known)
=============================================================================
