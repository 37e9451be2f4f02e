----------------------------- MODULE PartsProofs -----------------------------
(***************************************************************************)
(* Theorems about GameSession: the resources of scripts, the parameters    *)
(* and the arguments of functions, the pointers into modules and texts,    *)
(* and the types of all parts.                                             *)
(***************************************************************************)
EXTENDS SessionProofs, FiniteSetTheorems

----------------------------------------------------------------------------
(* Sums over finite sets *)

\* g has the sum of w over each subset of S.
IsSum(g, w, S) ==
  /\ g = [T \in SUBSET S |-> g[T]] /\ g[{}] = 0
  /\ \A x \in S : w[x] \in Int
  /\ \A T \in SUBSET S : g[T] \in Int /\ \A x \in T : g[T] = w[x] + g[T \ {x}]

LEMMA LeastNatural ==
  ASSUME NEW N, N \subseteq Nat, N # {}
  PROVE  \E n \in N : \A m \in N : n <= m
BY MinOfNaturals

LEMMA SumWithOneMore ==
  ASSUME NEW S, NEW x, x \notin S, NEW w, w[x] \in Int, NEW h, IsSum(h, w, S)
  PROVE  \E g : IsSum(g, w, S \cup {x})
<1> DEFINE g == [T \in SUBSET (S \cup {x}) |-> IF x \in T THEN w[x] + h[T \ {x}] ELSE h[T]]
<1>1. \A T \in SUBSET (S \cup {x}) : T \ {x} \in SUBSET S /\ (x \notin T => T \in SUBSET S)
  OBVIOUS
<1>2. \A T \in SUBSET (S \cup {x}) : g[T] = (IF x \in T THEN w[x] + h[T \ {x}] ELSE h[T])
  OBVIOUS
<1>3. g[{}] = 0
  <2>1. {} \in SUBSET (S \cup {x}) /\ x \notin {}  OBVIOUS
  <2>2. g[{}] = h[{}]  BY <1>2, <2>1
  <2> QED  BY <2>2 DEF IsSum
<1>4. ASSUME NEW T \in SUBSET (S \cup {x}) PROVE g[T] \in Int
  <2>1. h[T \ {x}] \in Int /\ (x \notin T => h[T] \in Int)  BY <1>1 DEF IsSum
  <2> HIDE DEF g
  <2> QED  BY <1>2, <2>1
<1>5. ASSUME NEW T \in SUBSET (S \cup {x}), NEW y \in T PROVE g[T] = w[y] + g[T \ {y}]
  <2>1. T \ {y} \in SUBSET (S \cup {x})  OBVIOUS
  <2> HIDE DEF g
  <2>2. CASE y = x  BY <1>2, <2>1, <2>2
  <2>3. CASE y # x /\ x \notin T  BY <1>1, <1>2, <2>1, <2>3 DEF IsSum
  <2>4. CASE y # x /\ x \in T
    <3>1. h[T \ {x}] = w[y] + h[(T \ {x}) \ {y}] /\ w[y] \in Int
      BY <1>1, <2>4 DEF IsSum
    <3>2. (T \ {x}) \ {y} = (T \ {y}) \ {x} /\ (T \ {x}) \ {y} \in SUBSET S  BY <1>1
    <3>3. h[(T \ {x}) \ {y}] \in Int  BY <3>2 DEF IsSum
    <3>4. g[T] = w[x] + h[T \ {x}] /\ g[T \ {y}] = w[x] + h[(T \ {y}) \ {x}]
      BY <1>2, <2>1, <2>4
    <3>5. w[x] \in Int /\ w[y] \in Int /\ h[(T \ {x}) \ {y}] \in Int  BY <3>1, <3>3
    <3>6. h[(T \ {x}) \ {y}] = h[(T \ {y}) \ {x}]  BY <3>2
    <3>7. g[T] = w[x] + (w[y] + h[(T \ {x}) \ {y}])  BY <3>1, <3>4
    <3>8. g[T \ {y}] = w[x] + h[(T \ {x}) \ {y}]  BY <3>4, <3>6
    <3> QED  BY ONLY <3>5, <3>7, <3>8
  <2> QED  BY <2>2, <2>3, <2>4
<1>6. g = [T \in SUBSET (S \cup {x}) |-> g[T]]  OBVIOUS
<1>7. \A y \in S \cup {x} : w[y] \in Int  BY DEF IsSum
<1> HIDE DEF g
<1>8. IsSum(g, w, S \cup {x})  BY <1>3, <1>4, <1>5, <1>6, <1>7 DEF IsSum
<1> QED  BY <1>8

\* Every finite set of integers has a sum.
LEMMA SumExists ==
  ASSUME NEW S, IsFiniteSet(S), NEW w, \A x \in S : w[x] \in Int
  PROVE  \E g : IsSum(g, w, S)
<1> DEFINE Bad == {T \in SUBSET S : ~\E g : IsSum(g, w, T)}
           Sizes == {Cardinality(T) : T \in Bad}
<1>1. \A T \in SUBSET S : IsFiniteSet(T) /\ Cardinality(T) \in Nat  BY FS_Subset, FS_CardinalityType
<1>2. SUFFICES ASSUME Bad # {} PROVE FALSE  OBVIOUS
<1>3. PICK T \in Bad : \A U \in Bad : Cardinality(T) <= Cardinality(U)
  <2>1. Sizes \subseteq Nat /\ Sizes # {}  BY <1>1, <1>2
  <2>2. PICK n \in Sizes : \A m \in Sizes : n <= m  BY <2>1, LeastNatural
  <2> QED  BY <2>2
<1>4. T # {}
  <2> DEFINE g == [U \in SUBSET {} |-> 0]
  <2>1. g = [U \in SUBSET {} |-> g[U]] /\ g[{}] = 0  OBVIOUS
  <2> HIDE DEF g
  <2>2. \A U \in SUBSET {} : U = {}  OBVIOUS
  <2>3. \A U \in SUBSET {} : g[U] \in Int /\ \A y \in U : g[U] = w[y] + g[U \ {y}]
    <3>1. \A U \in SUBSET {} : g[U] = 0 /\ U = {}  BY <2>1, <2>2
    <3> QED  BY <3>1
  <2>4. IsSum(g, w, {})  BY <2>1, <2>3 DEF IsSum
  <2> QED  BY <1>3, <2>4
<1>5. PICK x : x \in T  BY <1>4
<1>6. Cardinality(T \ {x}) = Cardinality(T) - 1  BY <1>1, <1>5, FS_RemoveElement
<1>7. T \ {x} \in SUBSET S /\ T \ {x} \notin Bad  BY <1>1, <1>3, <1>6
<1>8. PICK h : IsSum(h, w, T \ {x})  BY <1>7
<1>9. (T \ {x}) \cup {x} = T /\ x \notin T \ {x} /\ w[x] \in Int  BY <1>5
<1>10. \E g : IsSum(g, w, T)  BY <1>8, <1>9, SumWithOneMore
<1> QED  BY <1>10

\* A function that adds up the members one after the other has the sums, in whatever order it
\* takes them.
AddsUp(h, w, pick, S) ==
  /\ h[{}] = 0
  /\ \A T \in SUBSET S : T # {} => pick[T] \in T /\ h[T] = w[pick[T]] + h[T \ {pick[T]}]

LEMMA AnyOrderSums ==
  ASSUME NEW S, IsFiniteSet(S), NEW w, NEW g, IsSum(g, w, S), NEW h, NEW pick, AddsUp(h, w, pick, S)
  PROVE  h[S] = g[S]
<1> DEFINE Bad == {T \in SUBSET S : h[T] # g[T]}
           Sizes == {Cardinality(T) : T \in Bad}
<1>1. \A T \in SUBSET S : IsFiniteSet(T) /\ Cardinality(T) \in Nat  BY FS_Subset, FS_CardinalityType
<1>2. SUFFICES ASSUME Bad # {} PROVE FALSE  OBVIOUS
<1>3. PICK T \in Bad : \A U \in Bad : Cardinality(T) <= Cardinality(U)
  <2>1. Sizes \subseteq Nat /\ Sizes # {}  BY <1>1, <1>2
  <2>2. PICK n \in Sizes : \A m \in Sizes : n <= m  BY <2>1, LeastNatural
  <2> QED  BY <2>2
<1>4. T # {}  BY <1>3 DEF IsSum, AddsUp
<1> DEFINE x == pick[T]
<1>5. x \in T /\ h[T] = w[x] + h[T \ {x}]  BY <1>3, <1>4 DEF AddsUp
<1> HIDE DEF x
<1>6. Cardinality(T \ {x}) = Cardinality(T) - 1  BY <1>1, <1>5, FS_RemoveElement
<1>7. T \ {x} \in SUBSET S /\ T \ {x} \notin Bad  BY <1>1, <1>3, <1>6
<1>8. g[T] = w[x] + g[T \ {x}]  BY <1>5 DEF IsSum
<1> QED  BY <1>3, <1>5, <1>7, <1>8

LEMMA SumsAgree ==
  ASSUME NEW S, NEW w, NEW g, IsSum(g, w, S), NEW R, NEW v, NEW h, IsSum(h, v, R),
         NEW T, IsFiniteSet(T), T \subseteq S, T \subseteq R, \A x \in T : w[x] = v[x]
  PROVE  g[T] = h[T]
<1> DEFINE k == [U \in SUBSET T |-> g[U]]
           pick == [U \in SUBSET T |-> CHOOSE x \in U : TRUE]
<1>1. \A U \in SUBSET T : U \in SUBSET S /\ U \in SUBSET R /\ k[U] = g[U]  OBVIOUS
<1>2. IsSum(k, w, T)
  <2>1. k = [U \in SUBSET T |-> k[U]]  OBVIOUS
  <2>2. \A U \in SUBSET T : \A x \in U : U \ {x} \in SUBSET T  OBVIOUS
  <2> HIDE DEF k
  <2>3. k[{}] = 0  BY <1>1 DEF IsSum
  <2>4. \A x \in T : w[x] \in Int  BY DEF IsSum
  <2>5. ASSUME NEW U \in SUBSET T
        PROVE  k[U] \in Int /\ \A x \in U : k[U] = w[x] + k[U \ {x}]
    <3>1. g[U] \in Int /\ \A x \in U : g[U] = w[x] + g[U \ {x}]  BY <1>1 DEF IsSum
    <3>2. ASSUME NEW x \in U PROVE k[U] = w[x] + k[U \ {x}]
      <4>1. k[U] = g[U] /\ k[U \ {x}] = g[U \ {x}]  BY <1>1, <2>2
      <4> QED  BY <3>1, <4>1
    <3> QED  BY <1>1, <3>1, <3>2
  <2> QED  BY <2>1, <2>3, <2>4, <2>5 DEF IsSum
<1>3. AddsUp(h, w, pick, T)
  <2>1. h[{}] = 0  BY DEF IsSum
  <2>2. \A U \in SUBSET T : U # {} => pick[U] \in U  OBVIOUS
  <2> HIDE DEF pick
  <2>3. ASSUME NEW U \in SUBSET T, U # {} PROVE h[U] = w[pick[U]] + h[U \ {pick[U]}]
    <3>1. pick[U] \in U /\ U \in SUBSET R /\ w[pick[U]] = v[pick[U]]  BY <1>1, <2>2, <2>3
    <3> QED  BY <3>1 DEF IsSum
  <2> QED  BY <2>1, <2>2, <2>3 DEF AddsUp
<1> HIDE DEF k, pick
<1>4. h[T] = k[T]  BY <1>2, <1>3, AnyOrderSums
<1>5. k[T] = g[T]  BY <1>1
<1> QED  BY <1>4, <1>5

----------------------------------------------------------------------------
(* Blocks are charged *)

Total(f) == MapThenSumSet(LAMBDA s : f[s].count, DOMAIN f)
Counts(f) == [s \in DOMAIN f |-> f[s].count]

LEMMA TotalIsSum ==
  ASSUME NEW f, IsFiniteSet(DOMAIN f), NEW g, IsSum(g, Counts(f), DOMAIN f)
  PROVE  Total(f) = g[DOMAIN f] /\ Total(f) \in Int
<1> DEFINE S == DOMAIN f
           w == Counts(f)
           Body(i) == [T \in SUBSET S |-> IF T = {} THEN 0
                        ELSE f[CHOOSE x \in T : TRUE].count + i[T \ {CHOOSE x \in T : TRUE}]]
           pick == [T \in SUBSET S |-> CHOOSE x \in T : TRUE]
           iter == CHOOSE i : i = Body(i)
<1>1. Total(f) = iter[S]  BY DEF Total, MapThenSumSet, MapThenFoldSet
<1>2. \A T \in SUBSET S : T # {} => pick[T] \in T /\ w[pick[T]] = f[pick[T]].count
  BY DEF Counts
<1>3. g = Body(g)
  <2>1. ASSUME NEW T \in SUBSET S
        PROVE  g[T] = IF T = {} THEN 0 ELSE f[CHOOSE x \in T : TRUE].count + g[T \ {CHOOSE x \in T : TRUE}]
    <3>1. T # {} => (CHOOSE x \in T : TRUE) \in T  OBVIOUS
    <3>2. \A x \in T : w[x] = f[x].count  BY DEF Counts
    <3>3. IsSum(g, w, S)  OBVIOUS
    <3> HIDE DEF w, S
    <3>4. T # {} => g[T] = w[CHOOSE x \in T : TRUE] + g[T \ {CHOOSE x \in T : TRUE}]
      BY <3>1, <3>3 DEF IsSum
    <3>5. T # {} => w[CHOOSE x \in T : TRUE] = f[CHOOSE x \in T : TRUE].count  BY <3>1, <3>2
    <3> QED  BY <3>3, <3>4, <3>5 DEF IsSum
  <2>2. g = [T \in SUBSET S |-> g[T]]  BY DEF IsSum
  <2> QED  BY <2>1, <2>2
<1>4. iter = Body(iter)  BY <1>3
<1> HIDE DEF iter
<1>5. iter[{}] = 0  BY <1>4
<1>6. \A T \in SUBSET S : T # {} => pick[T] \in T /\ iter[T] = f[pick[T]].count + iter[T \ {pick[T]}]
  BY <1>2, <1>4
<1> HIDE DEF pick, w
<1>7. AddsUp(iter, w, pick, S)  BY <1>2, <1>5, <1>6 DEF AddsUp
<1>8. iter[S] = g[S]  BY <1>7, AnyOrderSums DEF w
<1> QED  BY <1>1, <1>8 DEF IsSum

LEMMA TotalChanges ==
  ASSUME NEW f, NEW h, NEW s, IsFiniteSet(DOMAIN f), IsFiniteSet(DOMAIN h),
         DOMAIN h \ {s} = DOMAIN f \ {s},
         \A x \in DOMAIN f : f[x].count \in Int, \A x \in DOMAIN h : h[x].count \in Int,
         \A x \in DOMAIN f \ {s} : h[x].count = f[x].count
  PROVE  /\ Total(f) \in Int /\ Total(h) \in Int
         /\ Total(h) - (IF s \in DOMAIN h THEN h[s].count ELSE 0)
              = Total(f) - (IF s \in DOMAIN f THEN f[s].count ELSE 0)
<1> DEFINE R == DOMAIN f \ {s}
<1>1. ASSUME NEW k, IsFiniteSet(DOMAIN k), \A x \in DOMAIN k : k[x].count \in Int
      PROVE  \E g : /\ IsSum(g, Counts(k), DOMAIN k) /\ Total(k) = g[DOMAIN k] /\ Total(k) \in Int
                    /\ Total(k) - (IF s \in DOMAIN k THEN k[s].count ELSE 0) = g[DOMAIN k \ {s}]
  <2>1. \A x \in DOMAIN k : Counts(k)[x] \in Int /\ Counts(k)[x] = k[x].count  BY <1>1 DEF Counts
  <2>2. PICK g : IsSum(g, Counts(k), DOMAIN k)  BY <1>1, <2>1, SumExists
  <2>3. Total(k) = g[DOMAIN k] /\ Total(k) \in Int  BY <1>1, <2>2, TotalIsSum
  <2>4. CASE s \in DOMAIN k
    <3>1. /\ g[DOMAIN k] = k[s].count + g[DOMAIN k \ {s}] /\ k[s].count \in Int
          /\ g[DOMAIN k \ {s}] \in Int
      BY <2>1, <2>2, <2>4 DEF IsSum
    <3> QED  BY <2>2, <2>3, <2>4, <3>1
  <2>5. CASE s \notin DOMAIN k
    <3>1. DOMAIN k \ {s} = DOMAIN k  BY <2>5
    <3> QED  BY <2>2, <2>3, <2>5, <3>1
  <2> QED  BY <2>4, <2>5
<1>2. PICK g : /\ IsSum(g, Counts(f), DOMAIN f) /\ Total(f) = g[DOMAIN f] /\ Total(f) \in Int
               /\ Total(f) - (IF s \in DOMAIN f THEN f[s].count ELSE 0) = g[DOMAIN f \ {s}]
  BY <1>1
<1>3. PICK k : /\ IsSum(k, Counts(h), DOMAIN h) /\ Total(h) = k[DOMAIN h] /\ Total(h) \in Int
               /\ Total(h) - (IF s \in DOMAIN h THEN h[s].count ELSE 0) = k[DOMAIN h \ {s}]
  BY <1>1
<1>4. g[R] = k[R]
  <2>1. IsFiniteSet(R)  BY FS_Subset
  <2>2. R \subseteq DOMAIN f /\ R \subseteq DOMAIN h /\ \A x \in R : Counts(f)[x] = Counts(h)[x]
    BY DEF Counts
  <2> HIDE DEF R
  <2> QED  BY <1>2, <1>3, <2>1, <2>2, SumsAgree
<1> QED  BY <1>2, <1>3, <1>4

\* What the tables list, and what the accounts come to.
ChargesInv ==
  /\ Mem!MemoryTypeOK /\ TablesInv
  /\ IsFiniteSet(Mem!Known) /\ IsFiniteSet(Mem!Accounts)
  /\ \E info : info = m_scriptAllocationsInfo /\ Total(info) >= Cardinality(Mem!Known)

LEMMA AllocationIsCharged ==
  ASSUME ChargesInv, NEW s \in Script, NEW b \in Block, NEW size \in Size, Mem!opcode_0AC8(s, b, size)
  PROVE  /\ IsFiniteSet(Mem!Known') /\ IsFiniteSet(Mem!Accounts')
         /\ Total(m_scriptAllocationsInfo') >= Cardinality(Mem!Known')
         /\ m_allocations' \in [Mem!Known' -> Size] /\ Mem!Known' \subseteq Block
         /\ m_scriptAllocationsInfo' \in [Mem!Accounts' -> [count : Nat \ {0}, size : Int]]
         /\ Mem!Accounts' \subseteq Script
<1> DEFINE f == m_scriptAllocationsInfo
           info == Mem!Charged(s, size)
           h == [x \in DOMAIN f \cup {s} |-> IF x = s THEN info ELSE f[x]]
<1>1. /\ b \notin Mem!Known /\ m_scriptAllocationsInfo' = h
      /\ m_allocations' = [x \in DOMAIN m_allocations \cup {b} |-> IF x = b THEN size ELSE m_allocations[x]]
  BY DEF ChargesInv, TablesInv, Mem!TablesAreExact, Mem!Known, Mem!opcode_0AC8,
         Mem!RegisterMemoryAllocation, Mem!With
<1>2. f \in [DOMAIN f -> [count : Nat \ {0}, size : Int]] /\ m_allocations \in [DOMAIN m_allocations -> Size]
      /\ DOMAIN f \subseteq Script /\ DOMAIN m_allocations \subseteq Block /\ size \in Int
  BY SessionAssumption DEF ChargesInv, Mem!MemoryTypeOK, Mem!Known, Mem!Accounts, Mem!MemoryAssumption
<1>3. info \in [count : Nat \ {0}, size : Int] /\ info.count = 1 + (IF s \in DOMAIN f THEN f[s].count ELSE 0)
  BY <1>2 DEF Mem!Charged, Mem!Account, Mem!Accounts, Mem!NoInfo
<1>4. /\ IsFiniteSet(DOMAIN m_allocations \cup {b}) /\ IsFiniteSet(DOMAIN f \cup {s})
      /\ Cardinality(DOMAIN m_allocations \cup {b}) = Cardinality(DOMAIN m_allocations) + 1
      /\ Cardinality(DOMAIN m_allocations) \in Nat
  BY <1>1, FS_AddElement, FS_CardinalityType DEF ChargesInv, Mem!Known, Mem!Accounts
<1> HIDE DEF info
<1>5. /\ DOMAIN h = DOMAIN f \cup {s} /\ h[s] = info
      /\ h \in [DOMAIN h -> [count : Nat \ {0}, size : Int]]
      /\ \A x \in DOMAIN f \ {s} : h[x] = f[x]
  BY <1>2, <1>3
<1>6. /\ Total(f) \in Int /\ Total(h) \in Int
      /\ Total(h) - (IF s \in DOMAIN h THEN h[s].count ELSE 0)
           = Total(f) - (IF s \in DOMAIN f THEN f[s].count ELSE 0)
  <2>1. /\ DOMAIN h \ {s} = DOMAIN f \ {s} /\ \A x \in DOMAIN f : f[x].count \in Int
        /\ \A x \in DOMAIN h : h[x].count \in Int /\ \A y \in DOMAIN f \ {s} : h[y].count = f[y].count
    BY <1>2, <1>5
  <2>2. IsFiniteSet(DOMAIN f) /\ IsFiniteSet(DOMAIN h)  BY <1>4, <1>5 DEF ChargesInv, Mem!Accounts
  <2> HIDE DEF f, h
  <2> QED  BY <2>1, <2>2, TotalChanges
<1>7. Total(h) >= Cardinality(DOMAIN m_allocations \cup {b})
  <2>1. Total(h) = Total(f) + 1  
    <3> HIDE DEF f, h
    <3>1. h[s].count = 1 + (IF s \in DOMAIN f THEN f[s].count ELSE 0) /\ s \in DOMAIN h  BY <1>3, <1>5
    <3>2. s \in DOMAIN f => f[s].count \in Int  BY <1>2
    <3> QED  BY <1>6, <3>1, <3>2
  <2>2. Total(f) >= Cardinality(DOMAIN m_allocations)  BY DEF ChargesInv, Mem!Known
  <2> HIDE DEF f, h
  <2> QED  BY <1>4, <1>6, <2>1, <2>2
<1>8. Total(m_scriptAllocationsInfo') = Total(h)  BY <1>1
<1>9. Mem!Known' = DOMAIN m_allocations \cup {b} /\ Mem!Accounts' = DOMAIN f \cup {s}
  BY <1>1 DEF Mem!Known, Mem!Accounts
<1> HIDE DEF f, h
<1> QED  BY <1>1, <1>2, <1>4, <1>5, <1>7, <1>8, <1>9

LEMMA ReleaseIsCredited ==
  ASSUME ChargesInv, NEW s \in Script, NEW b \in Mem!Known, Mem!UnregisterMemoryAllocation(s, b)
  PROVE  /\ IsFiniteSet(Mem!Known') /\ IsFiniteSet(Mem!Accounts')
         /\ Total(m_scriptAllocationsInfo') >= Cardinality(Mem!Known')
         /\ m_allocations' \in [Mem!Known' -> Size] /\ Mem!Known' \subseteq Block
         /\ m_scriptAllocationsInfo' \in [Mem!Accounts' -> [count : Nat \ {0}, size : Int]]
         /\ Mem!Accounts' \subseteq Script
<1> DEFINE f == m_scriptAllocationsInfo
           h == m_scriptAllocationsInfo'
           info == Mem!Discharged(s, m_allocations[b])
<1>1. /\ f \in [DOMAIN f -> [count : Nat \ {0}, size : Int]] /\ m_allocations \in [DOMAIN m_allocations -> Size]
      /\ DOMAIN f \subseteq Script /\ DOMAIN m_allocations \subseteq Block
      /\ b \in DOMAIN m_allocations /\ m_allocations[b] \in Int
  BY SessionAssumption DEF ChargesInv, Mem!MemoryTypeOK, Mem!Known, Mem!Accounts, Mem!MemoryAssumption
<1>2. /\ m_allocations' = [x \in DOMAIN m_allocations \ {b} |-> m_allocations[x]]
      /\ h = IF s \notin DOMAIN f THEN f
             ELSE IF info.count <= 0 THEN [x \in DOMAIN f \ {s} |-> f[x]]
             ELSE [x \in DOMAIN f \cup {s} |-> IF x = s THEN info ELSE f[x]]
  BY DEF Mem!UnregisterMemoryAllocation, Mem!Without, Mem!With, Mem!IsClosed, Mem!Accounts
<1>3. s \in DOMAIN f => info.count = f[s].count - 1 /\ info.count \in Int /\ info.size \in Int
                        /\ info = [count |-> info.count, size |-> info.size]
  BY <1>1 DEF Mem!Discharged, Mem!Account, Mem!Accounts
<1>4. /\ IsFiniteSet(DOMAIN m_allocations \ {b}) /\ IsFiniteSet(DOMAIN f \ {s}) /\ IsFiniteSet(DOMAIN f)
      /\ Cardinality(DOMAIN m_allocations \ {b}) = Cardinality(DOMAIN m_allocations) - 1
      /\ Cardinality(DOMAIN m_allocations) \in Nat
  BY <1>1, FS_RemoveElement, FS_CardinalityType DEF ChargesInv, Mem!Known, Mem!Accounts
<1> HIDE DEF info
<1>5. /\ h \in [DOMAIN h -> [count : Nat \ {0}, size : Int]] /\ DOMAIN h \subseteq DOMAIN f
      /\ DOMAIN h \ {s} = DOMAIN f \ {s}
      /\ \A x \in DOMAIN f \ {s} : h[x] = f[x]
      /\ s \in DOMAIN h => s \in DOMAIN f /\ h[s].count = f[s].count - 1
      /\ s \in DOMAIN f /\ s \notin DOMAIN h => f[s].count = 1
  <2> HIDE DEF f, h
  <2>1. CASE s \notin DOMAIN f  BY <1>1, <1>2, <2>1
  <2>2. CASE s \in DOMAIN f /\ info.count <= 0
    <3>1. f[s].count = 1  BY <1>1, <1>3, <2>2
    <3> QED  BY <1>1, <1>2, <2>2, <3>1
  <2>3. CASE s \in DOMAIN f /\ ~(info.count <= 0)
    <3>1. info \in [count : Nat \ {0}, size : Int] /\ DOMAIN f \cup {s} = DOMAIN f  BY <1>3, <2>3
    <3> QED  BY <1>1, <1>2, <1>3, <2>3, <3>1
  <2> QED  BY <2>1, <2>2, <2>3
<1>6. IsFiniteSet(DOMAIN h)  BY <1>4, <1>5, FS_Subset
<1>7. /\ Total(f) \in Int /\ Total(h) \in Int
      /\ Total(h) - (IF s \in DOMAIN h THEN h[s].count ELSE 0)
           = Total(f) - (IF s \in DOMAIN f THEN f[s].count ELSE 0)
  <2>1. /\ \A x \in DOMAIN f : f[x].count \in Int
        /\ \A x \in DOMAIN h : h[x].count \in Int /\ \A y \in DOMAIN f \ {s} : h[y].count = f[y].count
    BY <1>1, <1>5
  <2> HIDE DEF f, h
  <2> QED  BY <1>4, <1>5, <1>6, <2>1, TotalChanges
<1>8. Total(h) >= Cardinality(DOMAIN m_allocations \ {b})
  <2>1. Total(f) >= Cardinality(DOMAIN m_allocations)  BY DEF ChargesInv, Mem!Known
  <2> HIDE DEF f, h
  <2>2. s \in DOMAIN f => f[s].count \in Int  BY <1>1
  <2>3. Total(h) >= Total(f) - 1  BY <1>5, <1>7, <2>2
  <2> QED  BY <1>4, <1>7, <2>1, <2>3
<1>9. Mem!Known' = DOMAIN m_allocations \ {b} /\ Mem!Accounts' = DOMAIN h
  BY <1>2 DEF Mem!Known, Mem!Accounts
<1> QED  BY <1>1, <1>2, <1>4, <1>5, <1>6, <1>8, <1>9

LEMMA EmptyTotal == ASSUME NEW f, DOMAIN f = {} PROVE Total(f) = 0
<1>1. PICK g : IsSum(g, Counts(f), {})  BY FS_EmptySet, SumExists
<1>2. Total(f) = g[{}]  BY <1>1, FS_EmptySet, TotalIsSum
<1> QED  BY <1>1, <1>2 DEF IsSum

LEMMA ChargesInvHolds == Spec => []ChargesInv
<1>1. Init => ChargesInv
  <2> SUFFICES ASSUME Init PROVE ChargesInv  OBVIOUS
  <2>1. TablesInv /\ Mem!MemoryInit
    BY DEF Init, TablesInv, Mem!MemoryInit, Mem!TablesAreExact, Mem!Known
  <2>2. Mem!MemoryTypeOK /\ Mem!Known = {} /\ Mem!Accounts = {}
    BY <2>1, SessionAssumption
    DEF Mem!MemoryInit, Mem!MemoryTypeOK, Mem!Known, Mem!Accounts, Mem!MemoryAssumption
  <2>3. Total(m_scriptAllocationsInfo) = 0  BY <2>2, EmptyTotal DEF Mem!Accounts
  <2> QED  BY <2>1, <2>2, <2>3, FS_EmptySet DEF ChargesInv
<1>2. ASSUME ChargesInv, TablesInv', [Next]_vars PROVE ChargesInv'
  <2>1. CASE UNCHANGED memoryVars
    BY <1>2, <2>1 DEF ChargesInv, Mem!MemoryTypeOK, Mem!Known, Mem!Accounts, memoryVars
  <2>2. ASSUME IsFiniteSet(Mem!Known'), IsFiniteSet(Mem!Accounts'),
               Total(m_scriptAllocationsInfo') >= Cardinality(Mem!Known'), Mem!MemoryTypeOK'
        PROVE  ChargesInv'
    BY <1>2, <2>2 DEF ChargesInv
  <2>3. ASSUME UNCHANGED <<m_allocations, m_scriptAllocationsInfo>>
        PROVE  /\ IsFiniteSet(Mem!Known') /\ IsFiniteSet(Mem!Accounts')
               /\ Total(m_scriptAllocationsInfo') >= Cardinality(Mem!Known')
    BY <1>2, <2>3 DEF ChargesInv, Mem!Known, Mem!Accounts
  <2>4. CASE Mem!MemoryNext
    <3>1. ASSUME NEW s \in Script, NEW b \in Block, NEW size \in Size, Mem!opcode_0AC8(s, b, size)
          PROVE  ChargesInv'
      <4>1. /\ IsFiniteSet(Mem!Known') /\ IsFiniteSet(Mem!Accounts')
            /\ Total(m_scriptAllocationsInfo') >= Cardinality(Mem!Known')
            /\ m_allocations' \in [Mem!Known' -> Size] /\ Mem!Known' \subseteq Block
            /\ m_scriptAllocationsInfo' \in [Mem!Accounts' -> [count : Nat \ {0}, size : Int]]
            /\ Mem!Accounts' \subseteq Script
        BY <1>2, <3>1, AllocationIsCharged
      <4>2. Mem!MemoryTypeOK'
        BY <1>2, <3>1, <4>1 DEF Mem!opcode_0AC8, ChargesInv, Mem!MemoryTypeOK, Mem!Known, Mem!Accounts
      <4> QED  BY <2>2, <4>1, <4>2
    <3>2. ASSUME NEW s \in Script, NEW b \in Block, Mem!opcode_0AC9(s, b) \/ Mem!opcode_2403(s, b)
          PROVE  ChargesInv'
      <4>1. b \in Mem!Known /\ Mem!UnregisterMemoryAllocation(s, b)
        BY <3>2 DEF Mem!opcode_0AC9, Mem!opcode_2403
      <4>2. /\ IsFiniteSet(Mem!Known') /\ IsFiniteSet(Mem!Accounts')
            /\ Total(m_scriptAllocationsInfo') >= Cardinality(Mem!Known')
            /\ m_allocations' \in [Mem!Known' -> Size] /\ Mem!Known' \subseteq Block
            /\ m_scriptAllocationsInfo' \in [Mem!Accounts' -> [count : Nat \ {0}, size : Int]]
            /\ Mem!Accounts' \subseteq Script
        BY <1>2, <4>1, ReleaseIsCredited
      <4>3. Mem!MemoryTypeOK'
        BY <1>2, <3>2, <4>2
        DEF Mem!opcode_0AC9, Mem!opcode_2403, ChargesInv, Mem!MemoryTypeOK, Mem!Known, Mem!Accounts
      <4> QED  BY <2>2, <4>2, <4>3
    <3>3. ASSUME NEW b \in Block, Mem!OwnerFrees(b) PROVE ChargesInv'
      <4>1. Mem!MemoryTypeOK'
        BY <1>2, <3>3 DEF Mem!OwnerFrees, ChargesInv, Mem!MemoryTypeOK, Mem!Known, Mem!Accounts
      <4> QED  BY <2>2, <2>3, <3>3, <4>1 DEF Mem!OwnerFrees
    <3>4. ASSUME NEW l \in Library, Mem!opcode_0AA2(l) \/ Mem!opcode_0AA3(l) PROVE ChargesInv'
      <4>1. /\ UNCHANGED <<heap, m_allocations, m_scriptAllocationsInfo>>
            /\ \/ holds' = [holds EXCEPT ![l] = holds[l] + 1] /\ holds[l] < MaxHolds
               \/ holds' = [holds EXCEPT ![l] = holds[l] - 1] /\ m_libraries[l] # 0 /\ l \in DOMAIN m_libraries
        BY <3>4 DEF Mem!opcode_0AA2, Mem!opcode_0AA3
      <4>2. holds \in [Library -> 0..MaxHolds] /\ MaxHolds \in Nat
            /\ (l \in DOMAIN m_libraries => holds[l] = m_libraries[l])
        BY <1>2, SessionAssumption
        DEF ChargesInv, Mem!MemoryTypeOK, Mem!MemoryAssumption, TablesInv, Mem!TablesAreExact
      <4>3. holds' \in [Library -> 0..MaxHolds]
        <5>1. holds[l] \in 0..MaxHolds  BY <4>2
        <5>2. CASE holds' = [holds EXCEPT ![l] = holds[l] + 1] /\ holds[l] < MaxHolds
          <6>1. holds[l] + 1 \in 0..MaxHolds  BY <4>2, <5>1, <5>2
          <6> QED  BY <4>2, <5>2, <6>1
        <5>3. CASE holds' = [holds EXCEPT ![l] = holds[l] - 1] /\ holds[l] # 0
          <6>1. holds[l] - 1 \in 0..MaxHolds  BY <4>2, <5>1, <5>3
          <6> QED  BY <4>2, <5>3, <6>1
        <5> QED  BY <4>1, <4>2, <5>2, <5>3
      <4>4. /\ DOMAIN m_libraries' \subseteq Library /\ m_libraries' = [k \in DOMAIN m_libraries' |-> m_libraries'[k]]
            /\ \A k \in DOMAIN m_libraries' : m_libraries'[k] = holds'[k]
        BY <1>2 DEF TablesInv, Mem!TablesAreExact
      <4>5. m_libraries' \in [DOMAIN m_libraries' -> 0..MaxHolds]  BY <4>3, <4>4
      <4>6. Mem!MemoryTypeOK'
        BY <1>2, <4>1, <4>3, <4>4, <4>5 DEF ChargesInv, Mem!MemoryTypeOK, Mem!Known, Mem!Accounts
      <4> QED  BY <2>2, <2>3, <4>1, <4>6
    <3> QED  BY <2>4, <3>1, <3>2, <3>3, <3>4 DEF Mem!MemoryNext
  <2>5. CASE Mem!OnGameEnd
    <3>1. /\ m_allocations' = [b \in {} |-> 0] /\ m_scriptAllocationsInfo' = [s \in {} |-> Mem!NoInfo]
          /\ m_libraries' = [l \in {} |-> 0]
      BY <2>5 DEF Mem!OnGameEnd
    <3>2. Total(m_scriptAllocationsInfo') = 0 /\ Mem!Known' = {} /\ Mem!Accounts' = {}
      BY <3>1, EmptyTotal DEF Mem!Known, Mem!Accounts
    <3>3. holds' \in [Library -> 0..MaxHolds]
      <4>1. \A l \in Library : holds[l] \in 0..MaxHolds /\ (l \in DOMAIN m_libraries => holds[l] = m_libraries[l])
        BY <1>2 DEF ChargesInv, Mem!MemoryTypeOK, TablesInv, Mem!TablesAreExact
      <4>2. MaxHolds \in Nat  BY SessionAssumption DEF Mem!MemoryAssumption
      <4>3. \A l \in Library : holds'[l] \in 0..MaxHolds  BY <2>5, <4>1, <4>2 DEF Mem!OnGameEnd
      <4> QED  BY <2>5, <4>3 DEF Mem!OnGameEnd
    <3>4. heap' \in [Block -> {"free", "live", "given"}]
      BY <1>2, <2>5 DEF ChargesInv, Mem!MemoryTypeOK, Mem!OnGameEnd
    <3>5. Mem!MemoryTypeOK'  BY <3>1, <3>2, <3>3, <3>4 DEF Mem!MemoryTypeOK
    <3> QED  BY <2>2, <3>2, <3>5, FS_EmptySet
  <2>6. CASE UNCHANGED vars  BY <2>1, <2>6 DEF vars, tableVars
  <2> QED  BY <1>2, <2>1, <2>4, <2>5, <2>6, StepChanges DEF MemoryChange
<1> QED  BY <1>1, <1>2, TablesInvHolds, PTL DEF Spec

LEMMA CardinalityOfMemory == \A S : Mem!Cardinality(S) = Cardinality(S)
BY DEF Mem!Cardinality, Cardinality

\* What scripts hold of the process is listed until it is released, in and out of sessions and for
\* any number of scripts, blocks, libraries and files: each block, library and stream that is still
\* held is in its table, and the accounts together list at least as many blocks as there are.
THEOREM ResourcesAreListedHolds == Spec => []ResourcesAreListed
<1>1. ChargesInv => Mem!BlocksAreCharged
  BY CardinalityOfMemory
  DEF ChargesInv, Mem!BlocksAreCharged, Total, Mem!Accounts, Mem!Known, Mem!MapThenSumSet,
      Mem!MapThenFoldSet, MapThenSumSet, MapThenFoldSet
<1>2. ChargesInv => Mem!TablesAreExact  BY DEF ChargesInv, TablesInv
<1>3. FilesInv => Fil!HandlesAreOwned  BY DEF FilesInv
<1>4. ChargesInv /\ FilesInv => ResourcesAreListed  BY <1>1, <1>2, <1>3 DEF ResourcesAreListed
<1> QED  BY <1>4, ChargesInvHolds, FilesInvHolds, PTL

----------------------------------------------------------------------------
(* Induction over naturals *)

\* A set with 0 and the successor of each member has all naturals.
LEMMA NaturalInduction ==
  ASSUME NEW S, 0 \in S, \A n \in Nat : n \in S => n + 1 \in S
  PROVE  Nat \subseteq S
<1> SUFFICES ASSUME Nat \ S # {} PROVE FALSE  OBVIOUS
<1>1. PICK n \in Nat \ S : \A m \in Nat \ S : n <= m  BY LeastNatural
<1>2. n # 0 /\ n - 1 \in Nat /\ n - 1 \in S  BY <1>1
<1> QED  BY <1>1, <1>2

LEMMA MaxOfNaturals ==
  ASSUME NEW n \in Nat, NEW U \in SUBSET (1..n), U # {}
  PROVE  Max(U) \in U /\ \A i \in U : i <= Max(U)
<1> DEFINE N == {n - i : i \in U}
<1>1. \A i \in U : i \in Nat /\ n - i \in Nat  OBVIOUS
<1>2. PICK m \in N : \A k \in N : m <= k
  <2>1. N \subseteq Nat /\ N # {}  BY <1>1
  <2> HIDE DEF N
  <2> QED  BY <2>1, LeastNatural
<1>3. PICK x \in U : m = n - x  BY <1>2
<1>4. ASSUME NEW y \in U PROVE x >= y
  <2>1. n - x <= n - y  BY <1>2, <1>3
  <2> QED  BY <1>1, <2>1
<1> QED  BY <1>4 DEF Max

----------------------------------------------------------------------------
(* Folds over sequences *)

\* g folds F over each set of indices, the highest one last.
Folds(g, F, base, n) ==
  /\ g = [U \in SUBSET (1..n) |-> g[U]] /\ g[{}] = base
  /\ \A U \in SUBSET (1..n) : U # {} => g[U] = F[<<g[U \ {Max(U)}], Max(U)>>]

LEMMA FoldExists ==
  ASSUME NEW n \in Nat, NEW D, NEW base \in D, NEW F \in [D \X (1..n) -> D]
  PROVE  \E g \in [SUBSET (1..n) -> D] : Folds(g, F, base, n)
<1> DEFINE Good(m) == \E g \in [SUBSET (1..m) -> D] : Folds(g, F, base, m)
           S == {m \in Nat : m <= n => Good(m)}
<1>1. 0 \in S
  <2> DEFINE g == [U \in SUBSET (1..0) |-> base]
  <2>1. \A U \in SUBSET (1..0) : U = {} /\ g[U] = base  OBVIOUS
  <2>2. g \in [SUBSET (1..0) -> D] /\ g = [U \in SUBSET (1..0) |-> g[U]]  OBVIOUS
  <2>3. {} \in SUBSET (1..0)  OBVIOUS
  <2> HIDE DEF g
  <2>4. Folds(g, F, base, 0)  BY <2>1, <2>2, <2>3 DEF Folds
  <2> QED  BY <2>2, <2>4
<1>2. ASSUME NEW m \in Nat, m \in S PROVE m + 1 \in S
  <2> HIDE DEF Good
  <2> SUFFICES ASSUME m + 1 <= n PROVE Good(m + 1)  OBVIOUS
  <2>0. Good(m)  BY <1>2
  <2>1. PICK h \in [SUBSET (1..m) -> D] : Folds(h, F, base, m)  BY <2>0 DEF Good
  <2> DEFINE g == [U \in SUBSET (1..(m+1)) |-> IF m + 1 \in U THEN F[<<h[U \ {m+1}], m+1>>] ELSE h[U]]
  <2>2. ASSUME NEW U \in SUBSET (1..(m+1))
        PROVE  /\ U \ {m+1} \in SUBSET (1..m) /\ (m + 1 \notin U => U \in SUBSET (1..m))
               /\ g[U] = IF m + 1 \in U THEN F[<<h[U \ {m+1}], m+1>>] ELSE h[U]
    OBVIOUS
  <2>3. g = [U \in SUBSET (1..(m+1)) |-> g[U]]  OBVIOUS
  <2> HIDE DEF g
  <2>4. ASSUME NEW U \in SUBSET (1..(m+1)) PROVE g[U] \in D
    <3>1. m + 1 \in 1..n  OBVIOUS
    <3> QED  BY <2>1, <2>2, <3>1
  <2>5. g[{}] = base
    <3>1. {} \in SUBSET (1..(m+1)) /\ m + 1 \notin {}  OBVIOUS
    <3> QED  BY <2>1, <2>2, <3>1 DEF Folds
  <2>6. ASSUME NEW U \in SUBSET (1..(m+1)), U # {} PROVE g[U] = F[<<g[U \ {Max(U)}], Max(U)>>]
    <3>0. m + 1 \in Nat  OBVIOUS
    <3>1. Max(U) \in U /\ \A i \in U : i <= Max(U)  BY <2>6, <3>0, MaxOfNaturals
    <3>2. CASE m + 1 \in U
      <4>1. Max(U) = m + 1
        <5>1. Max(U) \in 1..(m+1) /\ m + 1 <= Max(U)  BY <3>1, <3>2
        <5> QED  BY <5>1
      <4>2. U \ {m+1} \in SUBSET (1..(m+1)) /\ m + 1 \notin U \ {m+1}  OBVIOUS
      <4>3. g[U \ {m+1}] = h[U \ {m+1}]  BY <2>2, <4>2
      <4> QED  BY <2>2, <3>2, <4>1, <4>3
    <3>3. CASE m + 1 \notin U
      <4>1. U \in SUBSET (1..m) /\ g[U] = h[U]  BY <2>2, <3>3
      <4>2. U \ {Max(U)} \in SUBSET (1..(m+1)) /\ m + 1 \notin U \ {Max(U)}  BY <3>3
      <4>3. g[U \ {Max(U)}] = h[U \ {Max(U)}]  BY <2>2, <4>2
      <4>4. h[U] = F[<<h[U \ {Max(U)}], Max(U)>>]  BY <2>1, <2>6, <4>1 DEF Folds
      <4> QED  BY <4>1, <4>3, <4>4
    <3> QED  BY <3>2, <3>3
  <2>7. Folds(g, F, base, m + 1)  BY <2>3, <2>5, <2>6 DEF Folds
  <2>8. g \in [SUBSET (1..(m+1)) -> D]  BY <2>3, <2>4
  <2> QED  BY <2>7, <2>8 DEF Good
<1> HIDE DEF Good
<1>3. Nat \subseteq S  BY <1>1, <1>2, NaturalInduction
<1>4. Good(n)  BY <1>3
<1> QED  BY <1>4 DEF Good

\* v[i] is the value after the first i members of the sequence.
Runs(v, F, base, n) ==
  v[0] = base /\ \A i \in 1..n : v[i] = F[<<v[i - 1], i>>]

\* A function that takes the highest index last goes through the sequence once.
HighestLast(h, F, D, base, n) ==
  /\ n \in Nat /\ base \in D /\ F \in [D \X (1..n) -> D] /\ h[{}] = base
  /\ \A U \in SUBSET (1..n) : U # {} /\ h[U \ {Max(U)}] \in D => h[U] = F[<<h[U \ {Max(U)}], Max(U)>>]

LEMMA FoldRuns ==
  ASSUME NEW h, NEW F, NEW D, NEW base, NEW n, HighestLast(h, F, D, base, n)
  PROVE  \E v \in [0..n -> D] : Runs(v, F, base, n) /\ h[1..n] = v[n]
<1> DEFINE v == [i \in 0..n |-> h[1..i]]
           S == {i \in Nat : i <= n => v[i] \in D}
<1>1. \A i \in 0..n : v[i] = h[1..i]  OBVIOUS
<1> HIDE DEF v
<1> USE DEF HighestLast
<1>2. v[0] = base
  <2>1. 1..0 = {}  OBVIOUS
  <2> QED  BY <1>1, <2>1
<1>3. ASSUME NEW i \in 1..n, v[i - 1] \in D PROVE v[i] = F[<<v[i - 1], i>>] /\ v[i] \in D
  <2>1. 1..i \in SUBSET (1..n) /\ 1..i # {} /\ i - 1 \in 0..n /\ (1..i) \ {i} = 1..(i - 1)  OBVIOUS
  <2>2. Max(1..i) = i
    <3>1. i \in Nat /\ 1..i \in SUBSET (1..i) /\ i \in 1..i  OBVIOUS
    <3>2. Max(1..i) \in 1..i /\ \A j \in 1..i : j <= Max(1..i)  BY <2>1, <3>1, MaxOfNaturals
    <3> QED  BY <3>1, <3>2
  <2>3. h[(1..i) \ {Max(1..i)}] = v[i - 1]  BY <1>1, <2>1, <2>2
  <2>4. h[1..i] = F[<<v[i - 1], i>>]  BY <1>3, <2>1, <2>2, <2>3
  <2> QED  BY <1>1, <1>3, <2>4
<1>4. \A i \in 0..n : v[i] \in D
  <2>1. 0 \in S  BY <1>2
  <2>2. ASSUME NEW i \in Nat, i \in S PROVE i + 1 \in S
    <3>1. CASE i + 1 <= n
      <4>1. i + 1 \in 1..n /\ (i + 1) - 1 = i  BY <3>1
      <4>2. v[i] \in D  BY <2>2, <3>1
      <4>3. v[i + 1] \in D  BY <1>3, <4>1, <4>2
      <4> QED  BY <4>3
    <3>2. CASE ~(i + 1 <= n)  BY <3>2
    <3> QED  BY <3>1, <3>2
  <2>3. Nat \subseteq S  BY <2>1, <2>2, NaturalInduction
  <2> QED  BY <2>3
<1>5. Runs(v, F, base, n)
  <2>1. \A i \in 1..n : i - 1 \in 0..n  OBVIOUS
  <2> QED  BY <1>2, <1>3, <1>4, <2>1 DEF Runs
<1>6. v \in [0..n -> D]
  <2>1. v = [i \in 0..n |-> v[i]]  BY DEF v
  <2> QED  BY <1>4, <2>1
<1> QED  BY <1>1, <1>5, <1>6

----------------------------------------------------------------------------
(* Steps *)

\* What a step does to texts, parameters and calls of functions.
TextsChange ==
  \/ UNCHANGED <<textsVars, scriptsLoaded>>
  \/ Txt!LabelsNext /\ scriptsLoaded /\ scriptsLoaded'
  \/ Txt!MessagesNext /\ UNCHANGED scriptsLoaded
  \/ (\E file \in FxtFile : Txt!LoadFxts(file)) /\ UNCHANGED scriptsLoaded
  \/ Txt!Clear /\ ~scriptsLoaded'
  \/ Txt!OnGameProcessBefore /\ ~scriptsLoaded /\ scriptsLoaded'

ParamsChange == Par!ParamsNext \/ UNCHANGED paramsVars
CallsChange == Cal!CallsNext \/ UNCHANGED callVars

LEMMA CodeChanges ==
  ASSUME Next
  PROVE  TextsChange /\ ParamsChange /\ CallsChange
<1> USE DEF choiceVars, sessionVars, setupVars, tableVars, codeVars, TextsChange, ParamsChange, CallsChange
<1>1. CASE SessionNext
  <2>1. CASE Start  BY <2>1 DEF Start
  <2>2. CASE OnScmInit1 \/ OnScmInit2 \/ OnScmInit3
    BY <2>2 DEF OnScmInit1, OnScmInit2, OnScmInit3, GameBegin, NoBegin
  <2>3. CASE OnGameEnds \/ Stop  BY <2>3 DEF OnGameEnds, Stop, GameEnd, ScriptsEnd
  <2>4. CASE ProcessScript  BY <2>4 DEF ProcessScript
  <2>5. CASE NewGame \/ (\E slot \in SaveSlot : LoadGame(slot)) \/ (\E shutdown \in BOOLEAN : Exit(shutdown))
    BY <2>5 DEF NewGame, LoadGame, Exit, Chooses
  <2> QED  BY <1>1, <2>1, <2>2, <2>3, <2>4, <2>5 DEF SessionNext
<1>2. CASE PartsNext
  <2>1. CASE ModulesStep \/ InstallModule  BY <2>1 DEF ModulesStep, InstallModule
  <2>2. CASE SettingsStep \/ InstallPlugins \/ LoadPlugins \/ FindExports
    BY <2>2 DEF SettingsStep, InstallPlugins, LoadPlugins, FindExports, OnlyPlugins
  <2>3. CASE MemoryStep \/ FilesStep \/ \E p \in Ent!Pool : EntitiesStep(p)
    BY <2>3 DEF MemoryStep, FilesStep, EntitiesStep
  <2>4. CASE LabelsStep  BY <2>4 DEF LabelsStep, OnlyTexts
  <2>5. CASE MessagesStep  BY <2>5 DEF MessagesStep, OnlyTexts
  <2>6. CASE ParamsStep \/ CallsStep \/ KeysStep
    BY <2>6 DEF ParamsStep, CallsStep, KeysStep, OnlyCode
  <2> QED  BY <1>2, <2>1, <2>2, <2>3, <2>4, <2>5, <2>6 DEF PartsNext
<1> QED  BY <1>1, <1>2 DEF Next

----------------------------------------------------------------------------
(* Calls of functions *)

LEMMA CardinalityOfCalls == \A S : Cal!Cardinality(S) = Cardinality(S)
BY DEF Cal!Cardinality, Cardinality

Copied(given, strictly) == {j \in 1..Len(given) : Cal!IsCopied(given[j], strictly)}

\* Each argument that is copied has a buffer of its own.
LEMMA BuffersDiffer ==
  ASSUME NEW given \in Seq(Cal!Given), NEW strictly, NEW j \in Copied(given, strictly), NEW i \in Nat, j < i
  PROVE  /\ Cal!CopiedBefore(given, j, strictly) \in Nat /\ Cal!CopiedBefore(given, i, strictly) \in Nat
         /\ Cal!CopiedBefore(given, j, strictly) < Cal!CopiedBefore(given, i, strictly)
<1> DEFINE A == {k \in 1..(j - 1) : Cal!IsCopied(given[k], strictly)}
           B == {k \in 1..(i - 1) : Cal!IsCopied(given[k], strictly)}
<1>1. j \in Nat /\ Cal!IsCopied(given[j], strictly)  BY DEF Copied
<1>2. IsFiniteSet(1..(i - 1)) /\ j - 1 \in Int /\ i - 1 \in Int  BY <1>1, FS_Interval
<1>3. A \cup {j} \subseteq B /\ j \notin A /\ B \subseteq 1..(i - 1)
  <2>0. j \in 1..Len(given)  BY DEF Copied
  <2>1. j \in 1..(i - 1) /\ 1..(j - 1) \subseteq 1..(i - 1) /\ j \notin 1..(j - 1)
    BY <1>1, <2>0
  <2> QED  BY <1>1, <2>1
<1>4. IsFiniteSet(B)  BY <1>2, <1>3, FS_Subset
<1>5. IsFiniteSet(A) /\ IsFiniteSet(A \cup {j})  BY <1>3, <1>4, FS_Subset
<1>6. Cardinality(A \cup {j}) = Cardinality(A) + 1  BY <1>3, <1>5, FS_AddElement
<1>7. Cardinality(A \cup {j}) <= Cardinality(B)  BY <1>3, <1>4, FS_Subset
<1>8. Cardinality(A) \in Nat /\ Cardinality(B) \in Nat  BY <1>4, <1>5, FS_CardinalityType
<1>9. Cal!CopiedBefore(given, j, strictly) = Cardinality(A) /\ Cal!CopiedBefore(given, i, strictly) = Cardinality(B)
  BY CardinalityOfCalls DEF Cal!CopiedBefore
<1> HIDE DEF A, B
<1> QED  BY <1>6, <1>7, <1>8, <1>9

\* What a function is given arrives, what the arrays hold is typed, and zero until it is stored.
Untouched == \A i \in (1..Max_Args) \ stored : arguments[i] = [to |-> "value", is |-> Zero]
CallsInv == Cal!CallsTypeOK /\ Cal!ArgumentsArrive /\ Untouched

LEMMA CollectKeepsTypes ==
  ASSUME CallsInv, Cal!CallsAssumption, NEW given \in Seq(Cal!Given), NEW n \in Nat, n <= Len(given), NEW strictly,
         Cal!Collect(given, n, strictly), \A i \in 1..n : ~Cal!Refused(given, i, strictly)
  PROVE  arguments' \in [1..Max_Args -> Cal!Pushed] /\ textParams' \in [1..Max_Text_Params -> Words]
<1>1. ASSUME NEW i \in 1..n PROVE Cal!Argument(given, i, strictly) \in Cal!Pushed
  <2>1. given[i] \in Cal!Given /\ given[i].kind # "none"  BY DEF Cal!Refused
  <2>2. CASE given[i].kind = "value"
    BY <2>1, <2>2 DEF Cal!Argument, Cal!Given, Cal!Pushed
  <2>3. CASE given[i].kind # "value" /\ Cal!IsCopied(given[i], strictly)
    <3>1. i \in Copied(given, strictly) /\ i < i + 1 /\ i + 1 \in Nat  BY <2>3 DEF Copied
    <3>2. Cal!CopiedBefore(given, i, strictly) \in Nat  BY <3>1, BuffersDiffer
    <3>3. ~(Cal!CopiedBefore(given, i, strictly) >= Max_Text_Params)  BY <2>3 DEF Cal!Refused
    <3>4. Cal!Buffer(given, i, strictly) \in 1..Max_Text_Params
      BY <3>2, <3>3 DEF Cal!Buffer, Cal!CallsAssumption
    <3> QED  BY <2>3, <3>4 DEF Cal!Argument, Cal!Pushed
  <2>4. CASE given[i].kind # "value" /\ ~Cal!IsCopied(given[i], strictly)
    BY <2>1, <2>4 DEF Cal!Argument, Cal!IsCopied, Cal!Given, Cal!Pushed
  <2> QED  BY <2>2, <2>3, <2>4
<1>2. arguments' \in [1..Max_Args -> Cal!Pushed]
  <2>1. arguments \in [1..Max_Args -> Cal!Pushed]  BY DEF CallsInv, Cal!CallsTypeOK
  <2>2. \A i \in 1..Max_Args : Cal!IsRead(i, n) => i \in 1..n  BY DEF Cal!IsRead, Cal!CallsAssumption
  <2> QED  BY <1>1, <2>1, <2>2 DEF Cal!Collect
<1>3. textParams' \in [1..Max_Text_Params -> Words]
  <2>1. textParams \in [1..Max_Text_Params -> Words]  BY DEF CallsInv, Cal!CallsTypeOK
  <2>2. \A i \in 1..n : Cal!IsCopied(given[i], strictly) => given[i].is \in Words
    BY DEF Cal!IsCopied, Cal!Given
  <2>3. ASSUME NEW b \in 1..Max_Text_Params PROVE textParams'[b] \in Words
    <3> DEFINE W == {i \in 1..n : Cal!IsCopied(given[i], strictly) /\ Cal!Buffer(given, i, strictly) = b}
               last == CHOOSE i \in W : \A j \in W : j <= i
    <3>1. textParams'[b] = IF W = {} THEN textParams[b] ELSE given[last].is  BY DEF Cal!Collect
    <3>2. \A i \in W : \A j \in W : ~(i < j)
      <4> SUFFICES ASSUME NEW i \in W, NEW j \in W, i < j PROVE FALSE  OBVIOUS
      <4>1. i \in Copied(given, strictly) /\ i \in Nat /\ j \in Nat  BY DEF Copied
      <4>2. /\ Cal!CopiedBefore(given, i, strictly) \in Nat /\ Cal!CopiedBefore(given, j, strictly) \in Nat
            /\ Cal!CopiedBefore(given, i, strictly) < Cal!CopiedBefore(given, j, strictly)
        BY <4>1, BuffersDiffer
      <4> QED  BY <4>2 DEF Cal!Buffer
    <3>3. W # {} => last \in W
      <4>1. W \subseteq Nat  OBVIOUS
      <4>2. ASSUME NEW i \in W PROVE \A j \in W : j <= i  BY <3>2, <4>1
      <4> HIDE DEF W
      <4> QED  BY <4>2
    <3> QED  BY <2>1, <2>2, <3>1, <3>3
  <2>4. textParams' = [b \in 1..Max_Text_Params |-> textParams'[b]]  BY DEF Cal!Collect
  <2> QED  BY <2>3, <2>4
<1> QED  BY <1>2, <1>3

LEMMA CollectKeepsZeros ==
  ASSUME CallsInv, NEW given, NEW n, NEW strictly, Cal!Collect(given, n, strictly)
  PROVE  Untouched' /\ stored' \subseteq 1..Max_Args /\ stored \subseteq stored'
<1>1. stored \subseteq 1..Max_Args  BY DEF CallsInv, Cal!CallsTypeOK
<1>2. stored' = stored \cup {i \in 1..Max_Args : Cal!IsRead(i, n)}  BY DEF Cal!Collect
<1>3. \A i \in (1..Max_Args) \ stored' : arguments'[i] = arguments[i]  BY <1>2 DEF Cal!Collect
<1> QED  BY <1>1, <1>2, <1>3 DEF CallsInv, Untouched

LEMMA CollectedArrives ==
  ASSUME Cal!CallsAssumption, NEW given \in Seq(Cal!Given), NEW n \in Nat, n <= Len(given), NEW strictly,
         Cal!Collect(given, n, strictly), \A i \in 1..n : ~Cal!Refused(given, i, strictly),
         NEW i \in 1..n, i <= Max_Args
  PROVE  Cal!Received(arguments[i])' = given[i].is
<1>1. arguments'[i] = Cal!Argument(given, i, strictly)
  BY DEF Cal!Collect, Cal!IsRead, Cal!CallsAssumption
<1>2. given[i] \in Cal!Given /\ given[i].kind # "none"  BY DEF Cal!Refused
<1>3. CASE given[i].kind = "value"  BY <1>1, <1>3 DEF Cal!Argument, Cal!Received
<1>4. CASE given[i].kind # "value" /\ Cal!IsCopied(given[i], strictly)
  <2> DEFINE b == Cal!Buffer(given, i, strictly)
             W == {j \in 1..n : Cal!IsCopied(given[j], strictly) /\ Cal!Buffer(given, j, strictly) = b}
             last == CHOOSE j \in W : \A k \in W : k <= j
  <2>1. i \in Copied(given, strictly) /\ i < i + 1 /\ i + 1 \in Nat  BY <1>4 DEF Copied
  <2>2. Cal!CopiedBefore(given, i, strictly) \in Nat  BY <2>1, BuffersDiffer
  <2>3. ~(Cal!CopiedBefore(given, i, strictly) >= Max_Text_Params)  BY <1>4 DEF Cal!Refused
  <2>4. b \in 1..Max_Text_Params  BY <2>2, <2>3 DEF Cal!Buffer, Cal!CallsAssumption
  <2>5. i \in W  BY <1>4
  <2>6. textParams'[b] = given[last].is  BY <2>4, <2>5 DEF Cal!Collect
  <2>7. ASSUME NEW j \in W PROVE j = i
    <3>1. j \in Copied(given, strictly) /\ j \in Nat  BY DEF Copied
    <3>2. ASSUME NEW x \in Copied(given, strictly), NEW y \in Nat, x < y
          PROVE  Cal!Buffer(given, x, strictly) # Cal!Buffer(given, y, strictly)
      <4>1. /\ Cal!CopiedBefore(given, x, strictly) \in Nat /\ Cal!CopiedBefore(given, y, strictly) \in Nat
            /\ Cal!CopiedBefore(given, x, strictly) < Cal!CopiedBefore(given, y, strictly)
        BY <3>2, BuffersDiffer
      <4> QED  BY <4>1 DEF Cal!Buffer
    <3>3. Cal!Buffer(given, j, strictly) = Cal!Buffer(given, i, strictly)  OBVIOUS
    <3>4. ~(i < j) /\ ~(j < i)  BY <2>1, <3>1, <3>2, <3>3
    <3> QED  BY <3>1, <3>4
  <2>8. W = {i}  BY <2>5, <2>7
  <2>9. last = i
    <3>1. i \in W /\ \A k \in W : k <= i  BY <2>8
    <3>2. \A j \in W : j = i  BY <2>7
    <3> HIDE DEF W
    <3> QED  BY <3>1, <3>2
  <2> HIDE DEF W, b, last
  <2> QED  BY <1>1, <1>4, <2>6, <2>9 DEF Cal!Argument, Cal!Received, b
<1>5. CASE given[i].kind # "value" /\ ~Cal!IsCopied(given[i], strictly)
  BY <1>1, <1>5 DEF Cal!Argument, Cal!Received
<1> QED  BY <1>3, <1>4, <1>5

LEMMA CallsInvHolds == Spec => []CallsInv
<1> USE SessionAssumption
<1>1. Init => CallsInv
  <2> SUFFICES ASSUME Init PROVE CallsInv  OBVIOUS
  <2>1. Cal!CallsInit  BY DEF Init
  <2> QED  BY <2>1 DEF CallsInv, Cal!CallsInit, Cal!CallsTypeOK, Cal!ArgumentsArrive, Cal!NoCall, Cal!Pushed,
              Untouched
<1>2. CallsInv /\ [Next]_vars => CallsInv'
  <2> SUFFICES ASSUME CallsInv, [Next]_vars PROVE CallsInv'  OBVIOUS
  <2>1. UNCHANGED callVars => CallsInv'
    BY DEF callVars, CallsInv, Cal!CallsTypeOK, Cal!ArgumentsArrive, Cal!Received, Untouched
  <2>2. ASSUME call' = Cal!NoCall, arguments' \in [1..Max_Args -> Cal!Pushed],
               textParams' \in [1..Max_Text_Params -> Words], stored' \subseteq 1..Max_Args, Untouched'
        PROVE  CallsInv'
    <3>1. call'.given = <<>> /\ call'.passed = <<>> /\ call'.stack = "same"  BY <2>2 DEF Cal!NoCall
    <3>2. Cal!CallsTypeOK'
      <4>1. call'.given \in Seq(Cal!Given) /\ call'.passed \in Seq(Cal!Pushed)  BY <3>1
      <4> QED  BY <2>2, <3>1, <4>1 DEF Cal!CallsTypeOK
    <3>3. 1..Len(call'.passed) = {}  BY <3>1
    <3>4. Cal!ArgumentsArrive'  BY <3>3 DEF Cal!ArgumentsArrive
    <3> QED  BY <2>2, <3>2, <3>4 DEF CallsInv
  <2>3. ASSUME NEW numArg \in 0..(Max_Args + 1), NEW strictly \in BOOLEAN, NEW numGiven,
               Cal!CallRefused(numGiven, numArg, strictly)
        PROVE  CallsInv'
    BY <2>2, <2>3 DEF Cal!CallRefused, CallsInv, Cal!CallsTypeOK, Untouched
  <2>4. ASSUME NEW numArg \in 0..(Max_Args + 1), NEW strictly \in BOOLEAN,
               NEW given \in Cal!BoundedSeq(Cal!Given, Max_Args)
        PROVE  /\ given \in Seq(Cal!Given) /\ Len(given) <= Max_Args /\ Max_Args \in Nat /\ numArg \in Nat
               /\ Cal!Min2(numArg, Len(given)) \in Nat /\ Cal!Min2(numArg, Len(given)) <= Len(given)
               /\ Cal!Min2(numArg, Len(given)) <= numArg
    <3>1. Max_Args \in Nat /\ numArg \in Nat  BY DEF SessionAssumption, Cal!CallsAssumption
    <3>2. PICK m \in 0..Max_Args : given \in [1..m -> Cal!Given]
      BY <2>4 DEF Cal!BoundedSeq, Cal!SeqOf
    <3>3. m \in Nat /\ given \in Seq(Cal!Given) /\ Len(given) = m  BY <3>1, <3>2
    <3> QED  BY <3>1, <3>3 DEF Cal!Min2
  <2>5. ASSUME NEW numArg \in 0..(Max_Args + 1), NEW strictly \in BOOLEAN,
               NEW given \in Cal!BoundedSeq(Cal!Given, Max_Args), NEW i \in 1..Max_Args,
               Cal!CallStops(given, numArg, strictly, i)
        PROVE  CallsInv'
    <3>1. i - 1 \in Nat /\ i - 1 <= Len(given) /\ given \in Seq(Cal!Given)  BY <2>4, <2>5 DEF Cal!CallStops
    <3>2. Cal!Collect(given, i - 1, strictly) /\ \A j \in 1..(i - 1) : ~Cal!Refused(given, j, strictly)
      BY <2>5 DEF Cal!CallStops
    <3>3. arguments' \in [1..Max_Args -> Cal!Pushed] /\ textParams' \in [1..Max_Text_Params -> Words]
      BY <3>1, <3>2, CollectKeepsTypes DEF SessionAssumption
    <3>4. stored' \subseteq 1..Max_Args /\ Untouched'  BY <3>2, CollectKeepsZeros
    <3> QED  BY <2>2, <2>5, <3>3, <3>4 DEF Cal!CallStops
  <2>6. ASSUME NEW numArg \in 0..(Max_Args + 1), NEW strictly \in BOOLEAN,
               NEW given \in Cal!BoundedSeq(Cal!Given, Max_Args), NEW stack \in {"same", "moved"},
               Cal!CallFunctionGeneric(given, numArg, strictly, stack)
        PROVE  CallsInv'
    <3> DEFINE n == Cal!Min2(numArg, Len(given))
    <3>1. /\ n \in Nat /\ n <= Len(given) /\ n <= numArg /\ given \in Seq(Cal!Given) /\ Len(given) <= Max_Args
          /\ numArg \in Nat /\ Max_Args \in Nat
      BY <2>4
    <3>2. Cal!Collect(given, n, strictly) /\ \A j \in 1..n : ~Cal!Refused(given, j, strictly)
      BY <2>6 DEF Cal!CallFunctionGeneric
    <3>3. /\ call'.given = given /\ call'.stack = stack
          /\ call'.passed = [i \in 1..numArg |-> IF i <= Max_Args THEN arguments'[i] ELSE [to |-> "beyond", is |-> Zero]]
      BY <2>6 DEF Cal!CallFunctionGeneric
    <3>4. n = Cal!Min2(Len(given), numArg)  BY <3>1 DEF Cal!Min2
    <3>10. stored' \subseteq 1..Max_Args /\ Untouched'  BY <3>2, CollectKeepsZeros
    <3> HIDE DEF n
    <3>5. arguments' \in [1..Max_Args -> Cal!Pushed] /\ textParams' \in [1..Max_Text_Params -> Words]
      BY <3>1, <3>2, CollectKeepsTypes DEF SessionAssumption
    <3>6. call'.passed \in Seq(Cal!Pushed) /\ Len(call'.passed) = numArg
      <4>1. [to |-> "beyond", is |-> Zero] \in Cal!Pushed  BY DEF Cal!Pushed
      <4>2. \A i \in 1..numArg : i <= Max_Args => arguments'[i] \in Cal!Pushed  BY <3>1, <3>5
      <4>3. \A i \in 1..numArg : call'.passed[i] \in Cal!Pushed  BY <3>3, <4>1, <4>2
      <4>4. call'.passed = [i \in 1..numArg |-> call'.passed[i]]  BY <3>3
      <4> QED  BY <3>1, <4>3, <4>4
    <3>7. Cal!CallsTypeOK'  BY <3>1, <3>3, <3>5, <3>6, <3>10 DEF Cal!CallsTypeOK
    <3>8. ASSUME NEW i \in 1..n PROVE Cal!Received(call.passed[i])' = given[i].is
      <4>1. i <= Max_Args /\ call'.passed[i] = arguments'[i]  BY <3>1, <3>3
      <4>2. Cal!Received(arguments[i])' = given[i].is
        BY <3>1, <3>2, <4>1, CollectedArrives DEF SessionAssumption
      <4> QED  BY <4>1, <4>2 DEF Cal!Received
    <3>9. Cal!ArgumentsArrive'
      <4>1. ASSUME NEW i \in 1..Len(call'.passed), i <= Len(call'.given)
            PROVE  Cal!Received(call.passed[i])' = call'.given[i].is
        <5>1. i \in Nat /\ 1 <= i /\ i <= numArg /\ i <= Len(given)  BY <3>1, <3>3, <3>6, <4>1
        <5>2. i \in 1..n  BY <3>1, <3>4, <5>1 DEF Cal!Min2
        <5> QED  BY <3>3, <3>8, <5>2
      <4>2. ASSUME NEW i \in 1..Len(call'.passed), i \in (1..Max_Args) \ stored'
            PROVE  call'.passed[i] = [to |-> "value", is |-> Zero]
        BY <3>1, <3>3, <3>6, <3>10, <4>2 DEF Untouched
      <4> QED  BY <4>1, <4>2 DEF Cal!ArgumentsArrive
    <3> QED  BY <3>7, <3>9, <3>10 DEF CallsInv
  <2>7. CASE UNCHANGED vars  BY <2>1, <2>7 DEF vars, codeVars
  <2>8. CASE Cal!CallsNext  BY <2>3, <2>5, <2>6, <2>8 DEF Cal!CallsNext
  <2> QED  BY <2>1, <2>7, <2>8, CodeChanges DEF CallsChange
<1> QED  BY <1>1, <1>2, PTL DEF Spec

----------------------------------------------------------------------------
(* Parameters in the code *)

\* How far the instruction pointer moves over the parameters of a sequence.
Over(base, s) == Par!FoldLeft(LAMBDA n, p : n + 1 + Par!Payload(p), base, s)

LEMMA PayloadIsNatural ==
  ASSUME NEW p \in Par!Param
  PROVE  Par!Payload(p) \in Nat
BY SessionAssumption DEF Par!Payload, Par!Param, Par!ParamsAssumption, Par!WasInt, Par!IsImmFloat,
     Par!IsImmString, Par!IsVarString, Par!IsImmInteger

LEMMA MaxOfParams == \A S : Par!Max(S) = Max(S)
BY DEF Par!Max, Max

\* The pointer is moved over one parameter after the other.
LEMMA OverEach ==
  ASSUME NEW base \in Nat, NEW s \in Seq(Par!Param)
  PROVE  \E v \in [0..Len(s) -> Nat] :
           /\ v[0] = base /\ \A i \in 1..Len(s) : v[i] = v[i - 1] + 1 + Par!Payload(s[i])
           /\ Over(base, s) = v[Len(s)]
<1> DEFINE n == Len(s)
           F == [a \in Nat \X (1..n) |-> a[1] + 1 + Par!Payload(s[a[2]])]
           Body(f) == [U \in SUBSET (DOMAIN s) |-> IF U = {} THEN base
                        ELSE f[U \ {Par!Max(U)}] + 1 + Par!Payload(s[Par!Max(U)])]
           iter == CHOOSE f : f = Body(f)
<1>1. n \in Nat /\ DOMAIN s = 1..n  OBVIOUS
<1>2. Over(base, s) = iter[1..n]
  BY <1>1 DEF Over, Par!FoldLeft, Par!MapThenFoldSet
<1>3. F \in [Nat \X (1..n) -> Nat] /\ \A x \in Nat, i \in 1..n : F[<<x, i>>] = x + 1 + Par!Payload(s[i])
  BY PayloadIsNatural
<1>4. \E g : g = Body(g)
  <2> HIDE DEF F, n
  <2>1. PICK g \in [SUBSET (1..n) -> Nat] : Folds(g, F, base, n)  BY <1>1, <1>3, FoldExists
  <2>2. ASSUME NEW U \in SUBSET (1..n), U # {}
        PROVE  g[U] = g[U \ {Par!Max(U)}] + 1 + Par!Payload(s[Par!Max(U)])
    <3>1. Max(U) \in 1..n  BY <1>1, <2>2, MaxOfNaturals
    <3>2. g[U \ {Max(U)}] \in Nat  BY <2>1
    <3>3. g[U] = F[<<g[U \ {Max(U)}], Max(U)>>]  BY <2>1, <2>2 DEF Folds
    <3> QED  BY <1>3, <3>1, <3>2, <3>3, MaxOfParams
  <2>3. g[{}] = base /\ g = [U \in SUBSET (1..n) |-> g[U]]  BY <2>1 DEF Folds
  <2>4. g = Body(g)  BY <1>1, <2>2, <2>3
  <2> QED  BY <2>4
<1>5. iter = Body(iter)  BY <1>4
<1> HIDE DEF iter
<1>6. iter[{}] = base  BY <1>5
<1>7. ASSUME NEW U \in SUBSET (1..n), U # {}, iter[U \ {Max(U)}] \in Nat
      PROVE  iter[U] = F[<<iter[U \ {Max(U)}], Max(U)>>]
  <2>1. iter[U] = iter[U \ {Par!Max(U)}] + 1 + Par!Payload(s[Par!Max(U)])  BY <1>1, <1>5, <1>7
  <2> HIDE DEF F, n
  <2>2. Max(U) \in 1..n  BY <1>1, <1>7, MaxOfNaturals
  <2> QED  BY <1>3, <1>7, <2>1, <2>2, MaxOfParams
<1> HIDE DEF F, n
<1>8. PICK v \in [0..n -> Nat] : Runs(v, F, base, n) /\ iter[1..n] = v[n]
  <2>1. HighestLast(iter, F, Nat, base, n)  BY <1>1, <1>3, <1>6, <1>7 DEF HighestLast
  <2> QED  BY <2>1, FoldRuns
<1>9. v[0] = base /\ \A i \in 1..n : v[i] = v[i - 1] + 1 + Par!Payload(s[i])
  <2>1. ASSUME NEW i \in 1..n PROVE v[i] = v[i - 1] + 1 + Par!Payload(s[i])
    <3>1. v[i - 1] \in Nat /\ v[i] = F[<<v[i - 1], i>>]  BY <1>1, <1>8 DEF Runs
    <3> QED  BY <1>3, <3>1
  <2> QED  BY <1>8, <2>1 DEF Runs
<1>10. Over(base, s) = v[n]  BY <1>2, <1>8
<1> QED  BY <1>8, <1>9, <1>10 DEF n

\* v[i] is where the parameter behind the first i ones starts.
Starts(v) ==
  /\ v \in [0..Len(code) -> Nat] /\ v[0] = 0
  /\ \A i \in 1..Len(code) : v[i] = v[i - 1] + 1 + Par!Payload(code[i])

LEMMA OverSome ==
  ASSUME code \in Seq(Par!Param), NEW v, Starts(v),
         NEW a \in 0..Len(code), NEW m \in 0..(Len(code) - a)
  PROVE  Over(v[a], SubSeq(code, a + 1, a + m)) = v[a + m]
<1> DEFINE s == SubSeq(code, a + 1, a + m)
<1>0. a \in Nat /\ m \in Nat /\ Len(code) \in Nat /\ a + m <= Len(code)  OBVIOUS
<1>1. s \in Seq(Par!Param) /\ Len(s) = m /\ \A i \in 1..m : s[i] = code[a + i] /\ a + i \in 1..Len(code)
  BY <1>0
<1>2. v[a] \in Nat  BY DEF Starts
<1> HIDE DEF s
<1>3. PICK w \in [0..m -> Nat] : /\ w[0] = v[a] /\ \A i \in 1..m : w[i] = w[i - 1] + 1 + Par!Payload(s[i])
                                 /\ Over(v[a], s) = w[m]
  BY <1>1, <1>2, OverEach
<1> DEFINE S == {i \in Nat : i <= m => w[i] = v[a + i]}
<1>4. 0 \in S  BY <1>0, <1>3
<1>5. ASSUME NEW i \in Nat, i \in S PROVE i + 1 \in S
  <2>1. CASE i + 1 <= m
    <3>1. i + 1 \in 1..m /\ (i + 1) - 1 = i /\ (a + (i + 1)) - 1 = a + i  BY <1>0, <2>1
    <3>2. w[i] = v[a + i]  BY <1>5, <2>1, <3>1, <1>0
    <3>3. w[i + 1] = w[i] + 1 + Par!Payload(s[i + 1])  BY <1>3, <3>1
    <3>4. s[i + 1] = code[a + (i + 1)] /\ a + (i + 1) \in 1..Len(code)  BY <1>1, <3>1
    <3>5. v[a + (i + 1)] = v[a + i] + 1 + Par!Payload(code[a + (i + 1)])  BY <3>1, <3>4 DEF Starts
    <3> QED  BY <3>2, <3>3, <3>4, <3>5
  <2>2. CASE ~(i + 1 <= m)  BY <2>2
  <2> QED  BY <2>1, <2>2
<1>6. Nat \subseteq S  BY <1>4, <1>5, NaturalInduction
<1>7. w[m] = v[a + m]  BY <1>0, <1>6
<1> QED  BY <1>3, <1>7 DEF s

LEMMA StartsOf ==
  ASSUME code \in Seq(Par!Param), NEW v, Starts(v)
  PROVE  /\ \A i \in 1..(Len(code) + 1) : Par!Start(i) = v[i - 1]
         /\ \A i, j \in 0..Len(code) : i < j => v[i] < v[j]
<1>1. Starts(v)  OBVIOUS
<1>2. ASSUME NEW i \in 1..(Len(code) + 1) PROVE Par!Start(i) = v[i - 1]
  <2>1. i - 1 \in 0..(Len(code) - 0) /\ 0 \in 0..Len(code) /\ 0 + 1 = 1 /\ 0 + (i - 1) = i - 1  OBVIOUS
  <2>2. Over(v[0], SubSeq(code, 0 + 1, 0 + (i - 1))) = v[0 + (i - 1)]  BY <1>1, <2>1, OverSome
  <2>3. Over(0, SubSeq(code, 1, i - 1)) = v[i - 1]  BY <1>1, <2>1, <2>2 DEF Starts
  <2> QED  BY <2>3 DEF Over, Par!Start
<1>3. ASSUME NEW i \in 0..Len(code), NEW j \in 0..Len(code), i < j PROVE v[i] < v[j]
  <2> DEFINE S == {k \in Nat : i + 1 + k <= Len(code) => v[i] < v[i + 1 + k]}
  <2>0. i \in Nat /\ j \in Nat /\ Len(code) \in Nat /\ v \in [0..Len(code) -> Nat]  BY <1>1 DEF Starts
  <2>1. ASSUME NEW k \in 1..Len(code) PROVE v[k - 1] < v[k]
    <3>1. Par!Payload(code[k]) \in Nat /\ v[k - 1] \in Nat  BY <2>0, PayloadIsNatural
    <3> QED  BY <1>1, <3>1 DEF Starts
  <2>2. 0 \in S
    <3>1. i + 1 + 0 <= Len(code) => i + 1 \in 1..Len(code) /\ (i + 1) - 1 = i /\ i + 1 + 0 = i + 1  BY <2>0
    <3> QED  BY <2>1, <3>1
  <2>3. ASSUME NEW k \in Nat, k \in S PROVE k + 1 \in S
    <3>1. CASE i + 1 + (k + 1) <= Len(code)
      <4>1. /\ i + 1 + (k + 1) \in 1..Len(code) /\ (i + 1 + (k + 1)) - 1 = i + 1 + k /\ i + 1 + k <= Len(code)
            /\ i + 1 + k \in 0..Len(code)
        BY <2>0, <3>1
      <4>2. v[i] < v[i + 1 + k] /\ v[i + 1 + k] < v[i + 1 + (k + 1)]  BY <2>1, <2>3, <4>1
      <4>3. v[i] \in Nat /\ v[i + 1 + k] \in Nat /\ v[i + 1 + (k + 1)] \in Nat  BY <2>0, <4>1
      <4> QED  BY <4>2, <4>3
    <3>2. CASE ~(i + 1 + (k + 1) <= Len(code))  BY <3>2
    <3> QED  BY <3>1, <3>2
  <2>4. Nat \subseteq S  BY <2>2, <2>3, NaturalInduction
  <2>5. j - i - 1 \in Nat /\ i + 1 + (j - i - 1) = j  BY <1>3, <2>0
  <2>6. j - i - 1 \in S  BY <2>4, <2>5
  <2> QED  BY <2>5, <2>6
<1> QED  BY <1>1, <1>2, <1>3

LEMMA PointIs ==
  ASSUME code \in Seq(Par!Param), NEW v, Starts(v), NEW i \in 0..Len(code), ip = v[i]
  PROVE  /\ Par!Terminator = v[Len(code)] /\ (Par!AtEnd <=> i = Len(code))
         /\ i < Len(code) => /\ Par!At = i + 1 /\ Par!Here = code[i + 1] /\ Par!Here \in Par!Param
                            /\ Par!Behind(Par!Here) = v[i + 1] /\ Par!Left = Len(code) - i
<1>0. i \in Nat /\ Len(code) \in Nat /\ v \in [0..Len(code) -> Nat]  BY DEF Starts
<1>1. /\ \A k \in 1..(Len(code) + 1) : Par!Start(k) = v[k - 1]
      /\ \A k, j \in 0..Len(code) : k < j => v[k] < v[j]
  BY StartsOf
<1>2. Par!Terminator = v[Len(code)]
  <2>1. Len(code) + 1 \in 1..(Len(code) + 1) /\ (Len(code) + 1) - 1 = Len(code)  BY <1>0
  <2> QED  BY <1>1, <2>1 DEF Par!Terminator
<1>3. Par!AtEnd <=> i = Len(code)
  <2>1. i # Len(code) => v[i] < v[Len(code)]  BY <1>0, <1>1
  <2>2. v[i] \in Nat /\ v[Len(code)] \in Nat  BY <1>0
  <2> QED  BY <1>2, <2>1, <2>2 DEF Par!AtEnd
<1>4. ASSUME i < Len(code)
      PROVE  /\ Par!At = i + 1 /\ Par!Here = code[i + 1] /\ Par!Here \in Par!Param
             /\ Par!Behind(Par!Here) = v[i + 1] /\ Par!Left = Len(code) - i
  <2>1. i + 1 \in 1..Len(code) /\ (i + 1) - 1 = i  BY <1>0, <1>4
  <2>2. Par!Start(i + 1) = ip
    <3>1. i + 1 \in 1..(Len(code) + 1)  BY <1>0, <2>1
    <3> QED  BY <1>1, <2>1, <3>1
  <2>3. ASSUME NEW k \in 1..Len(code), Par!Start(k) = ip PROVE k = i + 1
    <3>1. k \in 1..(Len(code) + 1) /\ k - 1 \in 0..Len(code) /\ i \in 0..Len(code)  BY <1>0
    <3>2. v[k - 1] = v[i] /\ v[i] \in Nat  BY <1>0, <1>1, <2>3, <3>1
    <3>3. ~(k - 1 < i) /\ ~(i < k - 1)  BY <1>1, <3>1, <3>2
    <3> QED  BY <1>0, <3>3
  <2>4. Par!At = i + 1  BY <2>1, <2>2, <2>3 DEF Par!At
  <2>5. Par!Here = code[i + 1] /\ Par!Here \in Par!Param  BY <2>1, <2>4 DEF Par!Here
  <2>6. Par!Behind(Par!Here) = v[i + 1]  BY <2>1, <2>5 DEF Par!Behind, Starts
  <2>7. Par!Left = Len(code) - i  BY <1>0, <2>4 DEF Par!Left
  <2> QED  BY <2>4, <2>5, <2>6, <2>7
<1> QED  BY <1>2, <1>3, <1>4

----------------------------------------------------------------------------
(* Texts of parameters *)

LEMMA CopiedTextIsCut ==
  ASSUME Par!Here \in Par!Param, NEW size \in BuffSize, Par!Holds(Par!Here), Par!CopyText(size)
  PROVE  Par!TextIsCut'
<1> USE SessionAssumption DEF Par!ParamsAssumption
<1> DEFINE p == Par!Here
           n == Par!TextOf(p)
           room == Par!RoomOf(p.kind)
<1>1. room \in Nat \ {0} /\ room \in {LabelSize, StringSize} /\ size \in Nat \ {0}  BY DEF Par!RoomOf
<1>2. p.is \in Nat
  BY DEF Par!Param, Par!Holds, Par!IsTextPointer, Par!WasInt, Par!IsImmString, Par!IsVarString, Par!IsImmInteger,
         Par!IsImmFloat
<1>3. n \in Nat /\ (p.kind \in {"TEXTLABEL", "STRING"} => n <= room)
  BY <1>1, <1>2 DEF Par!TextOf, Par!Smaller, Par!WasInt, Par!IsImmInteger
<1>4. text' = [length |-> n, size |-> size, got |-> Par!Smaller(n, size - 1), ended |-> Par!IsEnded(p, size)]
  BY DEF Par!CopyText, Par!Arrives, Par!RoomIn
<1>5. Par!IsEnded(p, size) \/ (n = room /\ room < size - 1)
  BY <1>1, <1>3 DEF Par!IsEnded
<1> DEFINE got == Par!Smaller(n, size - 1)
           ended == Par!IsEnded(p, size)
<1>6. /\ got \in Nat /\ got + 1 <= size /\ (got < n => got + 1 >= size)
      /\ n = room /\ room < size - 1 => got = room
  BY <1>1, <1>3 DEF Par!Smaller
<1> HIDE DEF n, room, got, ended
<1>7. got + (IF ended THEN 1 ELSE 0) <= size  BY <1>1, <1>6
<1>8. ended \/ got \in {LabelSize, StringSize}  BY <1>1, <1>5, <1>6 DEF ended
<1>9. text'.length = n /\ text'.size = size /\ text'.got = got /\ text'.ended = ended
  BY <1>4 DEF got, ended
<1> QED  BY <1>6, <1>7, <1>8, <1>9 DEF Par!TextIsCut

LEMMA WrittenTextIsCut ==
  ASSUME Par!Here \in Par!Param, NEW length \in Length, Par!WriteTo(Par!Here, length)
  PROVE  Par!TextIsCut'
<1> USE SessionAssumption DEF Par!ParamsAssumption
<1> DEFINE p == Par!Here
           room == Par!RoomOf(p.kind)
<1>1. room \in Nat \ {0} /\ room \in {LabelSize, StringSize} /\ length \in Nat  BY DEF Par!RoomOf
<1> HIDE DEF room
<1>2. CASE Par!IsVarString(p.kind)
  <2> DEFINE got == Par!Smaller(length, room)
  <2>1. text' = [length |-> length, size |-> room, got |-> got, ended |-> room > length]
    BY <1>2 DEF Par!WriteTo, Par!Arrives, room
  <2>2. /\ got \in Nat /\ got + (IF room > length THEN 1 ELSE 0) <= room /\ (got < length => got + 1 >= room)
        /\ ~(room > length) => got = room
    BY <1>1 DEF Par!Smaller
  <2> HIDE DEF got
  <2>3. text'.length = length /\ text'.size = room /\ text'.got = got /\ text'.ended = (room > length)
    BY <2>1
  <2> QED  BY <1>1, <2>2, <2>3 DEF Par!TextIsCut
<1>3. CASE ~Par!IsVarString(p.kind)
  <2>1. text' = [length |-> length, size |-> length + 1, got |-> length, ended |-> TRUE]
    BY <1>1, <1>3 DEF Par!WriteTo, Par!Arrives, Par!Smaller
  <2> QED  BY <1>1, <2>1 DEF Par!TextIsCut
<1> QED  BY <1>2, <1>3

\* While an opcode is handled the pointer is at the start of a parameter; v tells where those are.
Points(v) ==
  /\ Starts(v)
  /\ mode \in {"open", "format"} => \E i \in 0..Len(code) : ip = v[i] /\ handledParamCount = i
  /\ mode = "done" /\ ip # 0 => ip = v[Len(code)] + 1 /\ handledParamCount = Len(code)

\* Only an opcode that is done has a result and an end of its text.
OutputInv ==
  /\ mode \in {"open", "format"} => result = "none" /\ nul = {}
  /\ mode = "open" => fmt = <<>> /\ written = 0

ParamsInv ==
  /\ Par!ParamsTypeOK /\ (\E v : Points(v)) /\ OutputInv /\ Par!OutputIsEnded /\ Par!TextIsCut
  /\ mode = "lost" /\ fmt = <<>> => ~strict

\* Of an opcode that has not come to its end: its pointer moves to the next parameter, or it is
\* given up.
LEMMA ReadingKeeps ==
  ASSUME ParamsInv, NEW v, Points(v), mode = "open", UNCHANGED <<code, strict, fmt, written, nul, result>>,
         mode' \in {"open", "suspended", "lost"}, mode' = "lost" => ~strict,
         ip' \in Nat, handledParamCount' \in Nat,
         mode' = "open" => \E j \in 0..Len(code) : ip' = v[j] /\ handledParamCount' = j,
         Par!TextIsCut'
  PROVE  ParamsInv'
<1>1. Par!ParamsTypeOK'  BY DEF ParamsInv, Par!ParamsTypeOK
<1>2. Points(v)'  BY DEF Points, Starts
<1>3. OutputInv' /\ Par!OutputIsEnded'  BY DEF ParamsInv, OutputInv, Par!OutputIsEnded
<1>4. (mode = "lost" /\ fmt = <<>> => ~strict)'  OBVIOUS
<1> QED  BY <1>1, <1>2, <1>3, <1>4 DEF ParamsInv

LEMMA FormatKeeps ==
  ASSUME ParamsInv, NEW v, Points(v), mode = "format", UNCHANGED <<code, strict, text, nul, result>>,
         mode' = "format", fmt' \in Seq(Token), written' \in 0..OutSize,
         \E j \in 0..Len(code) : ip' = v[j] /\ handledParamCount' = j
  PROVE  ParamsInv'
<1>1. Par!ParamsTypeOK'
  <2>1. v \in [0..Len(code) -> Nat] /\ Len(code) \in Nat  BY DEF Points, Starts, ParamsInv, Par!ParamsTypeOK
  <2>2. ip' \in Nat /\ handledParamCount' \in Nat  BY <2>1
  <2> QED  BY <2>2 DEF ParamsInv, Par!ParamsTypeOK
<1>2. Points(v)'  BY DEF Points, Starts
<1>3. OutputInv' /\ Par!OutputIsEnded'  BY DEF ParamsInv, OutputInv, Par!OutputIsEnded
<1>4. Par!TextIsCut'  BY DEF ParamsInv, Par!TextIsCut
<1> QED  BY <1>1, <1>2, <1>3, <1>4 DEF ParamsInv

\* An opcode that has come to its end.
LEMMA EndKeeps ==
  ASSUME ParamsInv, NEW v, Points(v), UNCHANGED <<code, strict, text, fmt, written>>, mode' = "done",
         ip' = v[Len(code)] + 1, handledParamCount' = Len(code), nul' \subseteq 0..OutSize,
         result' \in {"none", "ok", "memory", "missing", "unknown", "incomplete", "null"}, Par!OutputIsEnded'
  PROVE  ParamsInv'
<1>1. Par!ParamsTypeOK'
  <2>1. v \in [0..Len(code) -> Nat] /\ Len(code) \in Nat  BY DEF Points, Starts, ParamsInv, Par!ParamsTypeOK
  <2>2. ip' \in Nat /\ handledParamCount' \in Nat  BY <2>1
  <2> QED  BY <2>2 DEF ParamsInv, Par!ParamsTypeOK
<1>2. Points(v)'  BY DEF Points, Starts
<1>3. OutputInv'  BY DEF OutputInv
<1>4. Par!TextIsCut'  BY DEF ParamsInv, Par!TextIsCut
<1> QED  BY <1>1, <1>2, <1>3, <1>4 DEF ParamsInv

\* What the pointer is at, and where it goes.
LEMMA AtParam ==
  ASSUME ParamsInv, NEW v, Points(v), mode \in {"open", "format"}
  PROVE  \E i \in 0..Len(code) :
           /\ ip = v[i] /\ handledParamCount = i /\ ip \in Nat /\ Len(code) \in Nat
           /\ Par!Terminator = v[Len(code)] /\ (Par!AtEnd <=> i = Len(code))
           /\ Par!SkipUnusedVarArgs => ip' = v[Len(code)] + 1 /\ handledParamCount' = Len(code)
           /\ ~Par!AtEnd =>
                /\ Par!Here \in Par!Param /\ Par!At = i + 1 /\ Par!Left = Len(code) - i
                /\ i + 1 \in 0..Len(code) /\ v[i + 1] \in Nat
                /\ Par!Consume(Par!Here) => ip' = v[i + 1] /\ handledParamCount' = i + 1
<1>1. code \in Seq(Par!Param) /\ Starts(v)  BY DEF ParamsInv, Par!ParamsTypeOK, Points
<1>2. PICK i \in 0..Len(code) : ip = v[i] /\ handledParamCount = i  BY DEF Points
<1>3. /\ Par!Terminator = v[Len(code)] /\ (Par!AtEnd <=> i = Len(code))
      /\ i < Len(code) => /\ Par!At = i + 1 /\ Par!Here = code[i + 1] /\ Par!Here \in Par!Param
                          /\ Par!Behind(Par!Here) = v[i + 1] /\ Par!Left = Len(code) - i
  BY <1>1, <1>2, PointIs
<1>4. v \in [0..Len(code) -> Nat] /\ Len(code) \in Nat /\ i \in Nat  BY <1>1 DEF Starts
<1>5. Par!SkipUnusedVarArgs => ip' = v[Len(code)] + 1 /\ handledParamCount' = Len(code)
  BY <1>2, <1>3, <1>4 DEF Par!SkipUnusedVarArgs
<1>6. ~Par!AtEnd => i < Len(code) /\ i + 1 \in 0..Len(code) /\ v[i + 1] \in Nat  BY <1>2, <1>3, <1>4
<1> QED  BY <1>2, <1>3, <1>4, <1>5, <1>6 DEF Par!Consume

----------------------------------------------------------------------------
(* Steps of the parameters *)

LEMMA ReadKeeps ==
  ASSUME ParamsInv, NEW want \in {"int", "float", "any"},
         Par!ReadParam(want) \/ Par!ReadOutputVariable(want) \/ Par!WriteParam(want)
  PROVE  ParamsInv'
<1>1. PICK v : Points(v)  BY DEF ParamsInv
<1>2. mode = "open" /\ ~Par!AtEnd  BY DEF Par!ReadParam, Par!ReadOutputVariable, Par!WriteParam, Par!Reading
<1>3. UNCHANGED <<code, strict, fmt, written, nul, result>> /\ text' = text
  BY DEF Par!ReadParam, Par!ReadOutputVariable, Par!WriteParam, Par!formatVars
<1>4. PICK i \in 0..Len(code) :
        /\ ip = v[i] /\ handledParamCount = i /\ ip \in Nat /\ Len(code) \in Nat
        /\ i + 1 \in 0..Len(code) /\ v[i + 1] \in Nat
        /\ Par!Consume(Par!Here) => ip' = v[i + 1] /\ handledParamCount' = i + 1
  BY <1>1, <1>2, AtParam
<1>5. Par!TextIsCut'  BY <1>3 DEF ParamsInv, Par!TextIsCut
<1>6. \/ Par!Consume(Par!Here) /\ mode' \in {"open", "suspended"}
      \/ Par!NotHandled
  BY <1>2 DEF Par!ReadParam, Par!ReadOutputVariable, Par!WriteParam, Par!Compat
<1>7. CASE Par!Consume(Par!Here) /\ mode' \in {"open", "suspended"}
  BY <1>1, <1>2, <1>3, <1>4, <1>5, <1>7, ReadingKeeps
<1>8. CASE Par!NotHandled
  <2>1. ip' \in Nat /\ handledParamCount' \in Nat  BY <1>4, <1>8 DEF Par!NotHandled
  <2>2. mode' = IF strict THEN "suspended" ELSE "lost"  BY <1>8 DEF Par!NotHandled
  <2> QED  BY <1>1, <1>2, <1>3, <1>5, <2>1, <2>2, ReadingKeeps
<1> QED  BY <1>6, <1>7, <1>8

LEMMA PointerKeeps ==
  ASSUME ParamsInv, Par!ReadPointer
  PROVE  ParamsInv'
<1>1. PICK v : Points(v)  BY DEF ParamsInv
<1>2. mode = "open" /\ ~Par!AtEnd  BY DEF Par!ReadPointer, Par!Reading
<1>3. UNCHANGED <<code, strict, fmt, written, nul, result>> /\ text' = text
  BY DEF Par!ReadPointer, Par!formatVars
<1>4. PICK i \in 0..Len(code) :
        /\ i + 1 \in 0..Len(code) /\ v[i + 1] \in Nat
        /\ Par!Consume(Par!Here) => ip' = v[i + 1] /\ handledParamCount' = i + 1
  BY <1>1, <1>2, AtParam
<1>5. Par!TextIsCut'  BY <1>3 DEF ParamsInv, Par!TextIsCut
<1>6. Par!Consume(Par!Here) /\ mode' \in {"open", "suspended"}
  BY <1>2 DEF Par!ReadPointer, Par!Compat
<1> QED  BY <1>1, <1>2, <1>3, <1>4, <1>5, <1>6, ReadingKeeps

LEMMA SkipKeeps ==
  ASSUME ParamsInv, NEW count \in 1..MaxParams, Par!CLEO_SkipOpcodeParams(count)
  PROVE  ParamsInv'
<1>1. PICK v : Points(v)  BY DEF ParamsInv
<1>2. mode = "open" /\ ~Par!AtEnd /\ mode' = mode  BY DEF Par!CLEO_SkipOpcodeParams
<1>3. UNCHANGED <<code, strict, fmt, written, nul, result>> /\ text' = text
  BY DEF Par!CLEO_SkipOpcodeParams, Par!formatVars
<1>4. PICK i \in 0..Len(code) :
        /\ ip = v[i] /\ handledParamCount = i /\ Len(code) \in Nat
        /\ Par!At = i + 1 /\ Par!Left = Len(code) - i
  BY <1>1, <1>2, AtParam
<1>5. Par!TextIsCut'  BY <1>3 DEF ParamsInv, Par!TextIsCut
<1>6. count \in 0..(Len(code) - i) /\ i + count \in 0..Len(code) /\ (i + 1) + count - 1 = i + count
  <2>1. count <= Par!Left  BY DEF Par!CLEO_SkipOpcodeParams
  <2>2. count \in Nat  BY SessionAssumption DEF Par!ParamsAssumption
  <2> QED  BY <1>4, <2>1, <2>2
<1>7. code \in Seq(Par!Param) /\ Starts(v)  BY <1>1 DEF ParamsInv, Par!ParamsTypeOK, Points
<1>8. ip' = Over(v[i], SubSeq(code, i + 1, i + count))
  <2>1. ip' = Over(ip, SubSeq(code, Par!At, Par!At + count - 1))
    BY DEF Par!CLEO_SkipOpcodeParams, Par!Skipped, Over
  <2> QED  BY <1>4, <1>6, <2>1
<1>9. ip' = v[i + count] /\ handledParamCount' = i + count
  BY <1>4, <1>6, <1>7, <1>8, OverSome DEF Par!CLEO_SkipOpcodeParams
<1>10. ip' \in Nat /\ handledParamCount' \in Nat  BY <1>6, <1>7, <1>9 DEF Starts
<1> QED  BY <1>1, <1>2, <1>3, <1>5, <1>6, <1>9, <1>10, ReadingKeeps

LEMMA TextKeeps ==
  ASSUME ParamsInv,
         \/ \E size \in BuffSize : Par!ReadStringParam(size) \/ Par!readParamText(size)
         \/ \E length \in Length : \/ Par!WriteStringParam(length)
                                   \/ \E found \in BOOLEAN : Par!writeParamText(length, found)
  PROVE  ParamsInv'
<1> USE DEF Par!ReadStringParam, Par!readParamText, Par!WriteStringParam, Par!writeParamText
<1>1. PICK v : Points(v)  BY DEF ParamsInv
<1>2. mode = "open" /\ ~Par!AtEnd  BY DEF Par!Reading
<1>3. UNCHANGED <<code, strict, fmt, written, nul, result>>  BY DEF Par!formatVars
<1>4. PICK i \in 0..Len(code) :
        /\ ip = v[i] /\ handledParamCount = i /\ ip \in Nat /\ Len(code) \in Nat /\ Par!Here \in Par!Param
        /\ i + 1 \in 0..Len(code) /\ v[i + 1] \in Nat
        /\ Par!Consume(Par!Here) => ip' = v[i + 1] /\ handledParamCount' = i + 1
  BY <1>1, <1>2, AtParam
<1>5. \/ text' = text
      \/ \E size \in BuffSize : Par!Holds(Par!Here) /\ Par!CopyText(size)
      \/ \E length \in Length : Par!WriteTo(Par!Here, length)
  OBVIOUS
<1>6. Par!TextIsCut'
  <2>1. CASE text' = text  BY <2>1 DEF ParamsInv, Par!TextIsCut
  <2> QED  BY <1>4, <1>5, <2>1, CopiedTextIsCut, WrittenTextIsCut
<1>7. \/ Par!Consume(Par!Here) /\ mode' \in {"open", "suspended"}
      \/ UNCHANGED <<ip, handledParamCount>> /\ mode' = "suspended"
  BY <1>2 DEF Par!CopyText
<1>8. CASE Par!Consume(Par!Here) /\ mode' \in {"open", "suspended"}
  BY <1>1, <1>2, <1>3, <1>4, <1>6, <1>8, ReadingKeeps
<1>9. CASE UNCHANGED <<ip, handledParamCount>> /\ mode' = "suspended"
  <2>1. ip' \in Nat /\ handledParamCount' \in Nat  BY <1>4, <1>9
  <2> QED  BY <1>1, <1>2, <1>3, <1>6, <1>9, <2>1, ReadingKeeps
<1> QED  BY <1>7, <1>8, <1>9

LEMMA EndOfOpcodeKeeps ==
  ASSUME ParamsInv, Par!EndOpcode
  PROVE  ParamsInv'
<1>1. PICK v : Points(v)  BY DEF ParamsInv
<1>2. /\ mode = "open" /\ mode' = "done" /\ UNCHANGED <<code, strict, text, fmt, written, nul, result>>
      /\ Par!SkipUnusedVarArgs
  BY DEF Par!EndOpcode, Par!formatVars
<1>3. ip' = v[Len(code)] + 1 /\ handledParamCount' = Len(code)  BY <1>1, <1>2, AtParam
<1>4. nul' = {} /\ result' = "none"  BY <1>2 DEF ParamsInv, OutputInv
<1>5. Par!OutputIsEnded'  BY <1>4 DEF Par!OutputIsEnded
<1> QED  BY <1>1, <1>2, <1>3, <1>4, <1>5, EndKeeps

\* There is no format.
LEMMA FormatNullKeeps ==
  ASSUME ParamsInv, Par!FormatNull
  PROVE  ParamsInv'
<1>1. PICK v : Points(v)  BY DEF ParamsInv
<1>2. /\ mode = "open" /\ mode' = "done" /\ UNCHANGED <<code, strict, text, fmt, written>>
      /\ Par!SkipUnusedVarArgs /\ result' = "null" /\ nul' = {}
  BY DEF Par!FormatNull, Par!Stop
<1>3. ip' = v[Len(code)] + 1 /\ handledParamCount' = Len(code)  BY <1>1, <1>2, AtParam
<1>4. Par!OutputIsEnded'  BY <1>2 DEF Par!OutputIsEnded
<1> QED  BY <1>1, <1>2, <1>3, <1>4, EndKeeps

LEMMA StartKeeps ==
  ASSUME ParamsInv, Par!StartOpcode
  PROVE  ParamsInv'
<1> USE SessionAssumption DEF Par!ParamsAssumption, Par!StartOpcode
<1>1. PICK v : Points(v)  BY DEF ParamsInv
<1>2. Points(v)'
  <2>1. v[0] = 0 /\ 0 \in 0..Len(code)  BY <1>1 DEF Points, Starts, ParamsInv, Par!ParamsTypeOK
  <2> QED  BY <1>1, <2>1 DEF Points, Starts
<1>3. Par!ParamsTypeOK'  BY DEF ParamsInv, Par!ParamsTypeOK
<1>4. OutputInv' /\ Par!OutputIsEnded'  BY DEF OutputInv, Par!OutputIsEnded
<1>5. Par!TextIsCut'  BY DEF Par!TextIsCut, Par!NoText
<1> QED  BY <1>2, <1>3, <1>4, <1>5 DEF ParamsInv

LEMMA FormatStartKeeps ==
  ASSUME ParamsInv, NEW f \in Par!Format, Par!StartFormat(f)
  PROVE  ParamsInv'
<1> USE SessionAssumption DEF Par!ParamsAssumption, Par!StartFormat
<1>1. PICK v : Points(v)  BY DEF ParamsInv
<1>2. Points(v)'  BY <1>1 DEF Points, Starts
<1>3. f \in Seq(Token)
  <2>1. f \in Par!BoundedSeq(Token, MaxTokens)  BY DEF Par!Format
  <2>2. PICK m \in 0..MaxTokens : f \in [1..m -> Token]  BY <2>1 DEF Par!BoundedSeq, Par!SeqOf
  <2> QED  BY <2>2
<1>4. Par!ParamsTypeOK'  BY <1>3 DEF ParamsInv, Par!ParamsTypeOK
<1>5. OutputInv' /\ Par!OutputIsEnded'  BY DEF ParamsInv, OutputInv, Par!OutputIsEnded
<1>6. Par!TextIsCut'  BY DEF ParamsInv, Par!TextIsCut
<1> QED  BY <1>2, <1>4, <1>5, <1>6 DEF ParamsInv

\* A token of a format that is followed by another, or ends it.
LEMMA TokenKeeps ==
  ASSUME ParamsInv,
         \/ Par!FormatCharacter \/ Par!FormatStar \/ Par!FormatPrecision
         \/ \E n \in 0..MaxPrinted : Par!FormatArgument(n)
  PROVE  ParamsInv'
<1> USE SessionAssumption DEF Par!ParamsAssumption, Par!FormatCharacter, Par!FormatStar, Par!FormatPrecision,
        Par!FormatArgument
<1>1. PICK v : Points(v)  BY DEF ParamsInv
<1>2. mode = "format" /\ fmt # <<>> /\ UNCHANGED <<code, strict, text>>  BY DEF Par!Formatting
<1>3. PICK i \in 0..Len(code) :
        /\ ip = v[i] /\ handledParamCount = i
        /\ Par!SkipUnusedVarArgs => ip' = v[Len(code)] + 1 /\ handledParamCount' = Len(code)
        /\ ~Par!AtEnd => /\ i + 1 \in 0..Len(code)
                         /\ Par!Consume(Par!Here) => ip' = v[i + 1] /\ handledParamCount' = i + 1
  BY <1>1, <1>2, AtParam
<1>4. fmt \in Seq(Token) /\ written \in 0..OutSize /\ OutSize \in Nat \ {0}
  BY DEF ParamsInv, Par!ParamsTypeOK
<1>5. Tail(fmt) \in Seq(Token) /\ <<"?">> \in Seq(Token)  BY <1>2, <1>4
<1>6. \/ Par!OutOfMemory
      \/ /\ (Par!Consume(Par!Here) /\ ~Par!AtEnd) \/ UNCHANGED <<ip, handledParamCount>>
         /\ UNCHANGED <<mode, nul, result>> /\ fmt' \in {Tail(fmt), <<"?">>}
         /\ written' \in 0..OutSize
  <2>1. CASE Par!FormatCharacter  BY <1>4, <2>1 DEF Par!Put
  <2>2. CASE Par!FormatStar  BY <1>4, <2>2 DEF Par!Put
  <2>3. CASE Par!FormatPrecision  BY <1>4, <2>3
  <2>4. CASE \E n \in 0..MaxPrinted : Par!FormatArgument(n)  BY <1>4, <2>4 DEF Par!Put
  <2> QED  BY <2>1, <2>2, <2>3, <2>4
<1>7. CASE Par!OutOfMemory
  <2>1. /\ ip' = v[Len(code)] + 1 /\ handledParamCount' = Len(code) /\ mode' = "done" /\ result' = "memory"
        /\ nul' = {OutSize - 1} /\ UNCHANGED <<fmt, written>>
    BY <1>3, <1>7 DEF Par!OutOfMemory, Par!Stop
  <2>2. Par!OutputIsEnded' /\ nul' \subseteq 0..OutSize  BY <1>4, <2>1 DEF Par!OutputIsEnded
  <2> QED  BY <1>1, <1>2, <2>1, <2>2, EndKeeps
<1>8. CASE /\ (Par!Consume(Par!Here) /\ ~Par!AtEnd) \/ UNCHANGED <<ip, handledParamCount>>
           /\ UNCHANGED <<mode, nul, result>> /\ fmt' \in {Tail(fmt), <<"?">>}
           /\ written' \in 0..OutSize
  <2>1. \E j \in 0..Len(code) : ip' = v[j] /\ handledParamCount' = j  BY <1>3, <1>8
  <2> QED  BY <1>1, <1>2, <1>5, <1>8, <2>1, FormatKeeps
<1> QED  BY <1>6, <1>7, <1>8

LEMMA FormatStopKeeps ==
  ASSUME ParamsInv,
         Par!FormatMissing \/ Par!FormatUnknown \/ Par!FormatIncomplete \/ Par!FormatEnd
  PROVE  ParamsInv'
<1> USE SessionAssumption DEF Par!ParamsAssumption, Par!FormatMissing, Par!FormatUnknown, Par!FormatIncomplete,
        Par!FormatEnd
<1>1. PICK v : Points(v)  BY DEF ParamsInv
<1>2. mode = "format" /\ UNCHANGED <<code, strict, text, fmt, written>> /\ mode' = "done"
  BY DEF Par!Formatting, Par!OutOfMemory, Par!Stop
<1>3. PICK i \in 0..Len(code) :
        /\ ip = v[i] /\ handledParamCount = i /\ (Par!AtEnd <=> i = Len(code))
        /\ Par!SkipUnusedVarArgs => ip' = v[Len(code)] + 1 /\ handledParamCount' = Len(code)
  BY <1>1, <1>2, AtParam
<1>4. written \in 0..OutSize /\ OutSize \in Nat \ {0}
  BY <1>2 DEF ParamsInv, Par!ParamsTypeOK
<1>5. ip' = v[Len(code)] + 1 /\ handledParamCount' = Len(code)
  <2>1. CASE Par!FormatMissing  BY <1>3, <2>1
  <2>2. CASE Par!SkipUnusedVarArgs  BY <1>3, <2>2
  <2> QED  BY <2>1, <2>2 DEF Par!OutOfMemory
<1>6. /\ nul' \subseteq 0..OutSize /\ Par!OutputIsEnded'
      /\ result' \in {"ok", "memory", "missing", "unknown", "incomplete"}
  <2>1. CASE Par!FormatMissing \/ Par!FormatUnknown
    <3>1. nul' = {written} /\ written' = written /\ result' \in {"missing", "unknown"}  BY <2>1 DEF Par!Stop
    <3> QED  BY <1>4, <3>1 DEF Par!OutputIsEnded
  <2>2. CASE Par!FormatIncomplete
    <3>1. nul' = {} /\ result' = "incomplete"  BY <2>2 DEF Par!Stop
    <3> QED  BY <3>1 DEF Par!OutputIsEnded
  <2>3. CASE Par!FormatEnd /\ Par!IsFull(written)
    <3>1. nul' = {OutSize - 1} /\ result' = "memory"  BY <2>3 DEF Par!OutOfMemory, Par!Stop
    <3> QED  BY <1>4, <3>1 DEF Par!OutputIsEnded
  <2>4. CASE Par!FormatEnd /\ ~Par!IsFull(written)
    <3>1. /\ nul' = {written} /\ result' = "ok" /\ fmt' = <<>> /\ written' = written /\ ~(written >= OutSize)
      BY <1>2, <2>4 DEF Par!Stop, Par!IsFull
    <3> QED  BY <1>4, <3>1 DEF Par!OutputIsEnded
  <2> QED  BY <2>1, <2>2, <2>3, <2>4
<1> QED  BY <1>1, <1>2, <1>5, <1>6, EndKeeps

LEMMA LostKeeps ==
  ASSUME ParamsInv, Par!FormatLost
  PROVE  ParamsInv'
<1>1. PICK v : Points(v)  BY DEF ParamsInv
<1>2. /\ mode = "format" /\ mode' = "lost" /\ fmt # <<>> /\ UNCHANGED <<code, strict, text, fmt, written, nul, result>>
      /\ ip' = ip + 1 /\ handledParamCount' = handledParamCount + 1
  BY DEF Par!FormatLost, Par!Formatting, Par!formatVars
<1>3. Points(v)'  BY <1>1, <1>2 DEF Points, Starts
<1>4. Par!ParamsTypeOK'  BY <1>2 DEF ParamsInv, Par!ParamsTypeOK
<1>5. OutputInv' /\ Par!OutputIsEnded'  BY <1>2 DEF ParamsInv, OutputInv, Par!OutputIsEnded
<1>6. Par!TextIsCut'  BY <1>2 DEF ParamsInv, Par!TextIsCut
<1> QED  BY <1>2, <1>3, <1>4, <1>5, <1>6 DEF ParamsInv

LEMMA ParamsInvHolds == Spec => []ParamsInv
<1>1. Init => ParamsInv
  <2> SUFFICES ASSUME Init PROVE ParamsInv  OBVIOUS
  <2> USE SessionAssumption DEF Par!ParamsAssumption
  <2>1. Par!ParamsInit  BY DEF Init
  <2>2. code \in Seq(Par!Param)
    <3>1. PICK m \in 0..MaxParams : code \in [1..m -> Par!Param]
      BY <2>1 DEF Par!ParamsInit, Par!BoundedSeq, Par!SeqOf
    <3> QED  BY <3>1
  <2>3. PICK v : Starts(v)  BY <2>2, OverEach DEF Starts
  <2>4. Points(v)  BY <2>1, <2>3 DEF Points, Par!ParamsInit
  <2>5. Par!ParamsTypeOK  BY <2>1, <2>2 DEF Par!ParamsInit, Par!ParamsTypeOK
  <2>6. OutputInv /\ Par!OutputIsEnded  BY <2>1 DEF Par!ParamsInit, OutputInv, Par!OutputIsEnded
  <2>7. Par!TextIsCut  BY <2>1 DEF Par!ParamsInit, Par!NoText, Par!TextIsCut
  <2> QED  BY <2>1, <2>4, <2>5, <2>6, <2>7 DEF ParamsInv, Par!ParamsInit
<1>2. ParamsInv /\ [Next]_vars => ParamsInv'
  <2> SUFFICES ASSUME ParamsInv, [Next]_vars PROVE ParamsInv'  OBVIOUS
  <2>1. CASE UNCHANGED paramsVars
    BY <2>1 DEF paramsVars, ParamsInv, Points, Starts, OutputInv, Par!ParamsTypeOK, Par!OutputIsEnded, Par!TextIsCut
  <2>2. CASE Par!ParamsNext
    <3>1. CASE \/ Par!CLEO_PeekIntOpcodeParam \/ Par!GetVarArgCount
      BY <2>1, <3>1 DEF Par!CLEO_PeekIntOpcodeParam, Par!GetVarArgCount, Par!paramsVars, Par!formatVars, paramsVars
    <3>2. CASE \/ Par!StartOpcode \/ Par!ReadPointer \/ Par!EndOpcode \/ Par!FormatNull \/ Par!FormatLost
      BY <3>2, StartKeeps, PointerKeeps, EndOfOpcodeKeeps, FormatNullKeeps, LostKeeps
    <3>3. CASE \E want \in {"int", "float", "any"} :
                 Par!ReadParam(want) \/ Par!ReadOutputVariable(want) \/ Par!WriteParam(want)
      BY <3>3, ReadKeeps
    <3>4. CASE \E count \in 1..MaxParams : Par!CLEO_SkipOpcodeParams(count)  BY <3>4, SkipKeeps
    <3>5. CASE \/ \E size \in BuffSize : Par!ReadStringParam(size) \/ Par!readParamText(size)
               \/ \E length \in Length : \/ Par!WriteStringParam(length)
                                         \/ \E found \in BOOLEAN : Par!writeParamText(length, found)
      BY <3>5, TextKeeps
    <3>6. CASE \E f \in Par!Format : Par!StartFormat(f)  BY <3>6, FormatStartKeeps
    <3>7. CASE \/ Par!FormatCharacter \/ Par!FormatStar \/ Par!FormatPrecision
               \/ \E n \in 0..MaxPrinted : Par!FormatArgument(n)
      BY <3>7, TokenKeeps
    <3>8. CASE Par!FormatMissing \/ Par!FormatUnknown \/ Par!FormatIncomplete \/ Par!FormatEnd
      BY <3>8, FormatStopKeeps
    <3> QED  BY <2>2, <3>1, <3>2, <3>3, <3>4, <3>5, <3>6, <3>7, <3>8 DEF Par!ParamsNext
  <2>3. CASE UNCHANGED vars  BY <2>1, <2>3 DEF vars, codeVars
  <2> QED  BY <2>1, <2>2, <2>3, CodeChanges DEF ParamsChange
<1> QED  BY <1>1, <1>2, PTL DEF Spec

LEMMA PointerIsFound == ParamsInv => Par!PointerIsAtParam
<1> SUFFICES ASSUME ParamsInv PROVE Par!PointerIsAtParam  OBVIOUS
<1>1. PICK v : Points(v)  BY DEF ParamsInv
<1>2. code \in Seq(Par!Param) /\ Starts(v)  BY <1>1 DEF ParamsInv, Par!ParamsTypeOK, Points
<1>3. \A i \in 1..(Len(code) + 1) : Par!Start(i) = v[i - 1]  BY <1>2, StartsOf
<1>4. ASSUME NEW i \in 0..Len(code)
      PROVE  i + 1 \in 1..(Len(code) + 1) /\ Par!Start(i + 1) = v[i] /\ (i + 1) - 1 = i
  <2>1. Len(code) \in Nat /\ i \in Nat  BY <1>2
  <2>2. i + 1 \in 1..(Len(code) + 1) /\ (i + 1) - 1 = i  BY <2>1
  <2> QED  BY <1>3, <2>2
<1>5. Par!Terminator = v[Len(code)]  BY <1>2, <1>4 DEF Par!Terminator
<1>6. mode \in {"open", "format"} => \E i \in 1..(Len(code) + 1) : ip = Par!Start(i) /\ handledParamCount = i - 1
  <2> SUFFICES ASSUME mode \in {"open", "format"}
               PROVE  \E i \in 1..(Len(code) + 1) : ip = Par!Start(i) /\ handledParamCount = i - 1
    OBVIOUS
  <2>1. PICK i \in 0..Len(code) : ip = v[i] /\ handledParamCount = i  BY <1>1 DEF Points
  <2> WITNESS i + 1 \in 1..(Len(code) + 1)
  <2> QED  BY <1>4, <2>1
<1> QED  BY <1>1, <1>5, <1>6 DEF ParamsInv, Points, Par!PointerIsAtParam

\* Parameters are read to their end and arrive where they are sent, for opcodes of any number of
\* parameters, texts of any length and buffers of any size: the instruction pointer is at the start
\* of a parameter, or behind the terminator when the opcode is done (CScriptEngine, CLEO_Utils.h);
\* a formatted text a handler gets is whole and ended inside its buffer, and what a format that
\* fails leaves there is as OutputIsEnded says, one byte behind the buffer included; a text is cut
\* to what its buffer holds; and a function gets the arguments it was given (0AA5 to 0AA8), those
\* declared and not given excepted, which are zero only until their place was used.
THEOREM ParametersArriveHolds == Spec => []ParametersArrive
<1>1. ParamsInv /\ CallsInv => ParametersArrive
  BY PointerIsFound DEF ParamsInv, CallsInv, ParametersArrive
<1> QED  BY <1>1, ParamsInvHolds, CallsInvHolds, PTL

----------------------------------------------------------------------------
(* Texts by label *)

Names == Label \cup 0..MaxLines
Tables == UNION {[S -> Txt!FxtEntry] : S \in SUBSET Names}

LEMMA TablesAreFunctions == \A f : f \in Tables <=> DOMAIN f \subseteq Names /\ f \in [DOMAIN f -> Txt!FxtEntry]
BY DEF Tables

\* What labels made for lines show in both is the same.
SameGeneric(f, g) ==
  \A n \in 0..MaxLines : /\ n \in DOMAIN f <=> n \in DOMAIN g
                         /\ n \in DOMAIN f => g[n] = f[n]

LEMMA AddKeepsGeneric ==
  ASSUME NEW f \in Tables, NEW key \in Txt!LabelKey, NEW t \in FxtText, NEW dynamic \in BOOLEAN
  PROVE  Txt!AddFxt(f, key, t, dynamic) \in Tables /\ SameGeneric(f, Txt!AddFxt(f, key, t, dynamic))
<1> DEFINE l == key.label
           g == Txt!AddFxt(f, key, t, dynamic)
<1>1. l \in Label /\ l \in Names /\ \A n \in 0..MaxLines : n # l
  BY SessionAssumption DEF Txt!LabelKey, Txt!TextsAssumption, Names
<1>2. DOMAIN f \subseteq Names /\ f \in [DOMAIN f -> Txt!FxtEntry]  BY TablesAreFunctions
<1>3. CASE ~Txt!Found(f, key)
  <2>1. g = [k \in DOMAIN f \cup {l} |-> IF k = l THEN [text |-> t, is_static |-> ~dynamic] ELSE f[k]]
    BY <1>3 DEF Txt!AddFxt
  <2>2. [text |-> t, is_static |-> ~dynamic] \in Txt!FxtEntry  BY DEF Txt!FxtEntry
  <2>3. g \in [DOMAIN f \cup {l} -> Txt!FxtEntry] /\ DOMAIN f \cup {l} \subseteq Names  BY <1>1, <1>2, <2>1, <2>2
  <2>4. \A n \in 0..MaxLines : (n \in DOMAIN f <=> n \in DOMAIN f \cup {l}) /\ (n \in DOMAIN f => g[n] = f[n])
    BY <1>1, <2>1
  <2> HIDE DEF g
  <2> QED  BY <2>3, <2>4, TablesAreFunctions DEF SameGeneric, g
<1>4. CASE Txt!Found(f, key)
  <2>1. l \in DOMAIN f  BY <1>4 DEF Txt!Found
  <2>2. CASE g = f  BY <2>2 DEF SameGeneric
  <2>3. CASE g = [f EXCEPT ![l].text = t]
    <3>1. f[l] \in Txt!FxtEntry  BY <1>2, <2>1
    <3>2. [f[l] EXCEPT !.text = t] \in Txt!FxtEntry  BY <3>1 DEF Txt!FxtEntry
    <3>3. g = [f EXCEPT ![l] = [f[l] EXCEPT !.text = t]]  BY <2>3
    <3>4. g \in [DOMAIN f -> Txt!FxtEntry] /\ \A n \in DOMAIN f : n # l => g[n] = f[n]  BY <1>2, <2>1, <3>2, <3>3
    <3> HIDE DEF g
    <3> QED  BY <1>1, <1>2, <3>4, TablesAreFunctions DEF SameGeneric, g
  <2> QED  BY <1>4, <2>2, <2>3 DEF Txt!AddFxt
<1> QED  BY <1>3, <1>4

LEMMA RemoveKeepsGeneric ==
  ASSUME NEW f \in Tables, NEW key \in Txt!LabelKey
  PROVE  Txt!RemoveFxt(f, key) \in Tables /\ SameGeneric(f, Txt!RemoveFxt(f, key))
<1> DEFINE l == key.label
           g == [k \in DOMAIN f \ {l} |-> f[k]]
<1>1. l \in Label /\ \A n \in 0..MaxLines : n # l
  BY SessionAssumption DEF Txt!LabelKey, Txt!TextsAssumption
<1>2. DOMAIN f \subseteq Names /\ f \in [DOMAIN f -> Txt!FxtEntry]  BY TablesAreFunctions
<1>3. g \in [DOMAIN f \ {l} -> Txt!FxtEntry] /\ DOMAIN f \ {l} \subseteq Names  BY <1>2
<1>4. \A n \in 0..MaxLines : (n \in DOMAIN f <=> n \in DOMAIN f \ {l}) /\ (n \in DOMAIN f => g[n] = f[n])
  BY <1>1
<1>5. Txt!RemoveFxt(f, key) = g  BY DEF Txt!RemoveFxt
<1> HIDE DEF g
<1>6. DOMAIN g = DOMAIN f \ {l}  BY <1>3
<1> QED  BY <1>3, <1>4, <1>5, <1>6, TablesAreFunctions DEF SameGeneric

LEMMA GenericIsTransitive ==
  ASSUME NEW f, NEW g, NEW h, SameGeneric(f, g), SameGeneric(g, h)
  PROVE  SameGeneric(f, h)
BY DEF SameGeneric

LEMMA MaxOfTexts == \A S : Txt!Max(S) = Max(S)
BY DEF Txt!Max, Max

LEMMA FileKeepsGeneric ==
  ASSUME NEW fx \in Tables, NEW file \in FxtFile, NEW dynamic \in BOOLEAN, NEW remove \in BOOLEAN
  PROVE  Txt!ParseFxtFile(fx, file, dynamic, remove) \in Tables
         /\ SameGeneric(fx, Txt!ParseFxtFile(fx, file, dynamic, remove))
<1> DEFINE n == Len(file)
           D == {g \in Tables : SameGeneric(fx, g)}
           With1(f, e) == IF remove THEN Txt!RemoveFxt(f, e.key) ELSE Txt!AddFxt(f, e.key, e.text, dynamic)
           F == [a \in D \X (1..n) |-> With1(a[1], file[a[2]])]
           Body(f) == [U \in SUBSET (DOMAIN file) |-> IF U = {} THEN fx
                        ELSE With1(f[U \ {Txt!Max(U)}], file[Txt!Max(U)])]
           iter == CHOOSE f : f = Body(f)
<1>1. n \in Nat /\ DOMAIN file = 1..n /\ \A i \in 1..n : file[i].key \in Txt!LabelKey /\ file[i].text \in FxtText
  <2> DEFINE E == [key : Txt!LabelKey, text : FxtText]
  <2>1. file \in Seq(E)  BY SessionAssumption DEF Txt!TextsAssumption, Txt!LabelKey
  <2>2. \A e \in E : e.key \in Txt!LabelKey /\ e.text \in FxtText  OBVIOUS
  <2> HIDE DEF E
  <2>3. n \in Nat /\ DOMAIN file = 1..n /\ \A i \in 1..n : file[i] \in E  BY <2>1
  <2> QED  BY <2>2, <2>3
<1>2. Txt!ParseFxtFile(fx, file, dynamic, remove) = iter[1..n]
  BY <1>1 DEF Txt!ParseFxtFile, Txt!FoldLeft, Txt!MapThenFoldSet
<1>3. ASSUME NEW f \in D, NEW i \in 1..n PROVE With1(f, file[i]) \in D
  <2>1. /\ Txt!RemoveFxt(f, file[i].key) \in Tables /\ SameGeneric(f, Txt!RemoveFxt(f, file[i].key))
    BY <1>1, RemoveKeepsGeneric
  <2>2. /\ Txt!AddFxt(f, file[i].key, file[i].text, dynamic) \in Tables
        /\ SameGeneric(f, Txt!AddFxt(f, file[i].key, file[i].text, dynamic))
    BY <1>1, AddKeepsGeneric
  <2>3. With1(f, file[i]) \in Tables /\ SameGeneric(f, With1(f, file[i]))  BY <2>1, <2>2
  <2> HIDE DEF With1
  <2> QED  BY <2>3, GenericIsTransitive
<1> HIDE DEF With1
<1>4. F \in [D \X (1..n) -> D] /\ \A f \in D, i \in 1..n : F[<<f, i>>] = With1(f, file[i])
  BY <1>3
<1>5. fx \in D  BY DEF SameGeneric
<1>6. \E g : g = Body(g)
  <2> HIDE DEF F, n, D
  <2>1. PICK g \in [SUBSET (1..n) -> D] : Folds(g, F, fx, n)  BY <1>1, <1>4, <1>5, FoldExists
  <2>2. ASSUME NEW U \in SUBSET (1..n), U # {}
        PROVE  g[U] = With1(g[U \ {Txt!Max(U)}], file[Txt!Max(U)])
    <3>1. Max(U) \in 1..n  BY <1>1, <2>2, MaxOfNaturals
    <3>2. g[U \ {Max(U)}] \in D  BY <2>1
    <3>3. g[U] = F[<<g[U \ {Max(U)}], Max(U)>>]  BY <2>1, <2>2 DEF Folds
    <3> QED  BY <1>4, <3>1, <3>2, <3>3, MaxOfTexts
  <2>3. g[{}] = fx /\ g = [U \in SUBSET (1..n) |-> g[U]]  BY <2>1 DEF Folds
  <2>4. g = Body(g)  BY <1>1, <2>2, <2>3
  <2> QED  BY <2>4
<1>7. iter = Body(iter)  BY <1>6
<1> HIDE DEF iter
<1>8. iter[{}] = fx  BY <1>7
<1>9. ASSUME NEW U \in SUBSET (1..n), U # {}, iter[U \ {Max(U)}] \in D
      PROVE  iter[U] = F[<<iter[U \ {Max(U)}], Max(U)>>]
  <2>1. iter[U] = With1(iter[U \ {Txt!Max(U)}], file[Txt!Max(U)])  BY <1>1, <1>7, <1>9
  <2> HIDE DEF F, n, D
  <2>2. Max(U) \in 1..n  BY <1>1, <1>9, MaxOfNaturals
  <2> QED  BY <1>4, <1>9, <2>1, <2>2, MaxOfTexts
<1> HIDE DEF F, n, D
<1>10. HighestLast(iter, F, D, fx, n)  BY <1>1, <1>4, <1>5, <1>8, <1>9 DEF HighestLast
<1>11. PICK v \in [0..n -> D] : Runs(v, F, fx, n) /\ iter[1..n] = v[n]  BY <1>10, FoldRuns
<1>12. iter[1..n] \in D  BY <1>1, <1>11
<1> QED  BY <1>2, <1>12 DEF D

\* The lines of the frame have the labels from 0 on, and those show their texts.
LabelsInv ==
  /\ fxts \in Tables /\ \A n \in DOMAIN fxts \cap (0..MaxLines) : ~fxts[n].is_static
  /\ genericLabelCounter \in 0..MaxLines
  /\ introTextLines \in Seq([gxt : 0..MaxLines, text : FxtText]) /\ Len(introTextLines) <= MaxLines
  /\ scriptsLoaded => genericLabelCounter = Len(introTextLines)
  /\ \A i \in 1..Len(introTextLines) :
       /\ introTextLines[i].gxt = i - 1 /\ i - 1 \in DOMAIN fxts
       /\ fxts[i - 1].text = introTextLines[i].text

LEMMA BecomeKeepsLabels ==
  ASSUME LabelsInv, NEW g \in Tables, SameGeneric(fxts, g), Txt!Become(g), scriptsLoaded' => scriptsLoaded
  PROVE  LabelsInv'
<1>1. fxts' = g /\ UNCHANGED <<genericLabelCounter, introTextLines>>  BY DEF Txt!Become
<1>2. \A n \in DOMAIN g \cap (0..MaxLines) : n \in DOMAIN fxts /\ g[n] = fxts[n]  BY DEF SameGeneric
<1>3. \A i \in 1..Len(introTextLines) : i - 1 \in 0..MaxLines
  <2>1. Len(introTextLines) \in Nat /\ MaxLines \in Nat /\ Len(introTextLines) <= MaxLines
    BY SessionAssumption DEF LabelsInv, Txt!TextsAssumption
  <2> QED  BY <2>1
<1>4. \A i \in 1..Len(introTextLines) : i - 1 \in DOMAIN g /\ g[i - 1] = fxts[i - 1]
  BY <1>3 DEF LabelsInv, SameGeneric
<1> QED  BY <1>1, <1>2, <1>4 DEF LabelsInv

LEMMA LineKeepsLabels ==
  ASSUME LabelsInv, scriptsLoaded, NEW t \in FxtText, Txt!opcode_2605(t), Len(introTextLines) < MaxLines
  PROVE  LabelsInv'
<1> DEFINE c == genericLabelCounter
           lines == introTextLines
<1>1. /\ c = Len(lines) /\ c \in Nat /\ MaxLines \in Nat /\ c < MaxLines /\ c \in 0..MaxLines
      /\ lines \in Seq([gxt : 0..MaxLines, text : FxtText])
  BY SessionAssumption DEF LabelsInv, Txt!TextsAssumption
<1>2. /\ fxts' = Txt!AddFxt(fxts, Txt!Generic(c), t, TRUE)
      /\ lines' = Append(lines, [gxt |-> c, text |-> t]) /\ c' = c + 1
  <2>1. ~(Len(lines) >= MaxLines)  BY <1>1
  <2> QED  BY <2>1 DEF Txt!opcode_2605, Txt!NextLabel
<1>3. DOMAIN fxts \subseteq Names /\ fxts \in [DOMAIN fxts -> Txt!FxtEntry]  BY TablesAreFunctions DEF LabelsInv
<1>4. /\ fxts' \in Tables /\ \A n \in DOMAIN fxts' \cap (0..MaxLines) : ~fxts'[n].is_static
      /\ c \in DOMAIN fxts' /\ fxts'[c].text = t
      /\ \A n \in DOMAIN fxts : n # c => n \in DOMAIN fxts' /\ fxts'[n] = fxts[n]
  <2>1. (Txt!Found(fxts, Txt!Generic(c)) <=> c \in DOMAIN fxts) /\ Txt!Generic(c).label = c
    BY DEF Txt!Found, Txt!Generic
  <2>2. c \in Names  BY <1>1 DEF Names
  <2>3. CASE c \notin DOMAIN fxts
    <3> DEFINE new == [text |-> t, is_static |-> FALSE]
    <3>1. new \in Txt!FxtEntry /\ new.text = t /\ new.is_static = FALSE  BY DEF Txt!FxtEntry
    <3>2. fxts' = [k \in DOMAIN fxts \cup {c} |-> IF k = c THEN new ELSE fxts[k]]
      BY <1>2, <2>1, <2>3 DEF Txt!AddFxt
    <3> HIDE DEF new
    <3>3. /\ DOMAIN fxts' = DOMAIN fxts \cup {c} /\ fxts' \in [DOMAIN fxts' -> Txt!FxtEntry]
          /\ fxts'[c] = new /\ \A n \in DOMAIN fxts : n # c => fxts'[n] = fxts[n]
      BY <1>3, <2>3, <3>1, <3>2
    <3>4. fxts' \in Tables  BY <1>3, <2>2, <3>3, TablesAreFunctions
    <3> QED  BY <3>1, <3>3, <3>4 DEF LabelsInv
  <2>4. CASE c \in DOMAIN fxts
    <3>1. ~fxts[c].is_static /\ fxts[c] \in Txt!FxtEntry  BY <1>1, <1>3, <2>4 DEF LabelsInv
    <3>2. fxts' = [fxts EXCEPT ![c].text = t]
      BY <1>2, <2>1, <2>4, <3>1 DEF Txt!AddFxt
    <3> DEFINE new == [fxts[c] EXCEPT !.text = t]
    <3>3. new \in Txt!FxtEntry /\ new.text = t /\ new.is_static = fxts[c].is_static  BY <3>1 DEF Txt!FxtEntry
    <3>4. fxts' = [fxts EXCEPT ![c] = new]  BY <3>2
    <3> HIDE DEF new
    <3>5. /\ DOMAIN fxts' = DOMAIN fxts /\ fxts' \in [DOMAIN fxts -> Txt!FxtEntry]
          /\ fxts'[c] = new /\ \A n \in DOMAIN fxts : n # c => fxts'[n] = fxts[n]
      BY <1>3, <2>4, <3>3, <3>4
    <3>6. fxts' \in Tables  BY <1>3, <3>5, TablesAreFunctions
    <3> QED  BY <2>4, <3>1, <3>3, <3>5, <3>6 DEF LabelsInv
  <2> QED  BY <2>3, <2>4
<1>5. lines' \in Seq([gxt : 0..MaxLines, text : FxtText]) /\ Len(lines') = c + 1
  BY <1>1, <1>2
<1>6. ASSUME NEW i \in 1..Len(lines')
      PROVE  lines'[i].gxt = i - 1 /\ i - 1 \in DOMAIN fxts' /\ fxts'[i - 1].text = lines'[i].text
  <2>1. CASE i = c + 1
    <3>1. lines'[i] = [gxt |-> c, text |-> t] /\ i - 1 = c  BY <1>1, <1>2, <2>1
    <3> QED  BY <1>4, <3>1
  <2>2. CASE i # c + 1
    <3>1. i \in 1..Len(lines) /\ i - 1 # c /\ lines'[i] = lines[i]  BY <1>1, <1>2, <1>5, <2>2
    <3>2. lines[i].gxt = i - 1 /\ i - 1 \in DOMAIN fxts /\ fxts[i - 1].text = lines[i].text
      BY <3>1 DEF LabelsInv
    <3> QED  BY <1>4, <3>1, <3>2
  <2> QED  BY <2>1, <2>2
<1>7. c' \in 0..MaxLines /\ Len(lines') <= MaxLines /\ c' = Len(lines')  BY <1>1, <1>2, <1>5
<1> QED  BY <1>4, <1>5, <1>6, <1>7 DEF LabelsInv

LEMMA LabelsInvHolds == Spec => []LabelsInv
<1>1. Init => LabelsInv
  <2> SUFFICES ASSUME Init PROVE LabelsInv  OBVIOUS
  <2>1. fxts = Txt!NoFxts /\ genericLabelCounter = 0 /\ introTextLines = <<>>  BY DEF Init, Txt!TextsInit
  <2>2. Txt!NoFxts \in Tables /\ DOMAIN Txt!NoFxts = {}  BY TablesAreFunctions DEF Txt!NoFxts
  <2> QED  BY <2>1, <2>2, SessionAssumption DEF LabelsInv, Txt!TextsAssumption
<1>2. LabelsInv /\ [Next]_vars => LabelsInv'
  <2> SUFFICES ASSUME LabelsInv, [Next]_vars PROVE LabelsInv'  OBVIOUS
  <2>0. fxts \in Tables  BY DEF LabelsInv
  <2>1. UNCHANGED <<fxts, genericLabelCounter, introTextLines>> /\ (scriptsLoaded' => scriptsLoaded) => LabelsInv'
    BY DEF LabelsInv
  <2>2. CASE Txt!LabelsNext /\ scriptsLoaded
    <3>1. CASE \E key \in Txt!LabelKey :
                 (\E t \in FxtText : Txt!opcode_0ADF(key, t) \/ Txt!opcode_2609(key, t)) \/ Txt!opcode_0AE0(key)
      BY <2>0, <2>2, <3>1, AddKeepsGeneric, RemoveKeepsGeneric, BecomeKeepsLabels
      DEF Txt!opcode_0ADF, Txt!opcode_2609, Txt!opcode_0AE0
    <3>2. CASE \E lb \in Label : Txt!opcode_0ADE(lb) \/ Txt!HOOK_CTextGet(lb)
      BY <2>1, <2>2, <3>2 DEF Txt!opcode_0ADE, Txt!HOOK_CTextGet, Txt!textsVars, Txt!labelVars
    <3>3. CASE \E file \in FxtFile : Txt!opcode_2606(file) \/ Txt!opcode_2607(file)
      BY <2>0, <2>2, <3>3, FileKeepsGeneric, BecomeKeepsLabels DEF Txt!opcode_2606, Txt!opcode_2607
    <3>4. CASE \E t \in FxtText : Txt!opcode_2605(t)
      <4>1. PICK t \in FxtText : Txt!opcode_2605(t)  BY <3>4
      <4>2. CASE Len(introTextLines) >= MaxLines
        BY <2>1, <2>2, <4>1, <4>2 DEF Txt!opcode_2605, Txt!textsVars, Txt!labelVars
      <4>3. CASE ~(Len(introTextLines) >= MaxLines)
        <5>1. Len(introTextLines) < MaxLines
          BY <4>3, SessionAssumption DEF LabelsInv, Txt!TextsAssumption
        <5> QED  BY <2>2, <4>1, <5>1, LineKeepsLabels
      <4> QED  BY <4>2, <4>3
    <3>5. CASE Txt!OnGameProcessBefore
      BY <3>5, SessionAssumption DEF LabelsInv, Txt!OnGameProcessBefore, Txt!TextsAssumption
    <3> QED  BY <2>2, <3>1, <3>2, <3>3, <3>4, <3>5 DEF Txt!LabelsNext
  <2>3. CASE Txt!MessagesNext /\ UNCHANGED scriptsLoaded
    <3>1. Txt!MessagesNext => UNCHANGED <<fxts, genericLabelCounter, introTextLines>>
      <4>1. ASSUME NEW t, NEW legacy, Txt!PrintHelp(t, legacy)
            PROVE  UNCHANGED <<fxts, genericLabelCounter, introTextLines>>
        BY <4>1 DEF Txt!PrintHelp, Txt!labelVars
      <4>2. ASSUME NEW t, NEW now, NEW legacy, Txt!Display(t, now, legacy)
            PROVE  UNCHANGED <<fxts, genericLabelCounter, introTextLines>>
        BY <4>2 DEF Txt!Display, Txt!AddToMessageQueue, Txt!NotDisplayed, Txt!labelVars
      <4>3. Txt!MessageEnds \/ Txt!NoBriefForNext \/ (\E shown \in BOOLEAN : Txt!Subtitles(shown))
              => UNCHANGED <<fxts, genericLabelCounter, introTextLines>>
        BY DEF Txt!MessageEnds, Txt!NoBriefForNext, Txt!Subtitles, Txt!labelVars
      <4> QED
        BY <4>1, <4>2, <4>3 DEF Txt!MessagesNext, Txt!opcode_0ACA, Txt!opcode_0ACE, Txt!opcode_0ACC, Txt!opcode_0ACD,
           Txt!opcode_0AD0, Txt!opcode_0AD1
    <3> QED  BY <2>1, <2>3, <3>1
  <2>4. CASE (\E file \in FxtFile : Txt!LoadFxts(file)) /\ UNCHANGED scriptsLoaded
    BY <2>0, <2>4, FileKeepsGeneric, BecomeKeepsLabels DEF Txt!LoadFxts
  <2>5. CASE Txt!Clear /\ ~scriptsLoaded'
    <3>1. Txt!NoFxts \in Tables /\ DOMAIN Txt!NoFxts = {}  BY TablesAreFunctions DEF Txt!NoFxts
    <3> QED  BY <2>5, <3>1, SessionAssumption DEF LabelsInv, Txt!Clear, Txt!TextsAssumption
  <2>6. CASE Txt!OnGameProcessBefore
    BY <2>6, SessionAssumption DEF LabelsInv, Txt!OnGameProcessBefore, Txt!TextsAssumption
  <2>7. CASE UNCHANGED <<textsVars, scriptsLoaded>>  BY <2>1, <2>7 DEF textsVars
  <2>8. CASE UNCHANGED vars  BY <2>1, <2>8 DEF vars, textsVars, sessionVars
  <2> QED  BY <2>2, <2>3, <2>4, <2>5, <2>6, <2>7, <2>8, CodeChanges DEF TextsChange
<1> QED  BY <1>1, <1>2, PTL DEF Spec

LEMMA LinesShowTheirTexts == LabelsInv => Txt!LinesKeepText
<1> SUFFICES ASSUME LabelsInv, NEW i \in 1..Len(introTextLines)
             PROVE  Txt!LocateFxt(introTextLines[i].gxt) = {introTextLines[i].text}
  BY DEF Txt!LinesKeepText
<1> QED  BY DEF LabelsInv, Txt!LocateFxt

----------------------------------------------------------------------------
(* Messages *)

\* A place in a ring so many places ahead of another.
Ahead(from, n, to, size) == from + n = to \/ from + n = to + size

LEMMA NextInRing ==
  ASSUME NEW size \in Nat \ {0}, NEW x \in 0..(size - 1)
  PROVE  /\ (x + 1) % size \in 0..(size - 1)
         /\ (x + 1) % size = IF x = size - 1 THEN 0 ELSE x + 1
<1>1. CASE x = size - 1
  <2>1. x + 1 = size  BY <1>1
  <2>2. size % size = 0  OBVIOUS
  <2> QED  BY <1>1, <2>1, <2>2
<1>2. CASE x # size - 1
  <2>1. x + 1 \in 0..(size - 1)  BY <1>2
  <2>2. (x + 1) % size = x + 1  BY <2>1
  <2> QED  BY <1>2, <2>1, <2>2
<1> QED  BY <1>1, <1>2

\* The next place of a ring is not one that was written less than a round before.
Behind(x, n, to, size) ==
  /\ size \in Nat \ {0} /\ x \in 0..(size - 1) /\ to \in 0..(size - 1) /\ n \in Nat /\ n + 1 < size
  /\ Ahead(x, n, to, size)

LEMMA WrittenRing ==
  ASSUME NEW x, NEW n, NEW to, NEW size, Behind(x, n, to, size)
  PROVE  Ahead(x, n + 1, (to + 1) % size, size) /\ (to + 1) % size # x
<1> DEFINE next == (to + 1) % size
<1>1. next \in 0..(size - 1) /\ next = IF to = size - 1 THEN 0 ELSE to + 1  BY NextInRing DEF Behind
<1> HIDE DEF next
<1>2. Ahead(x, n + 1, next, size) /\ next # x  BY <1>1 DEF Ahead, Behind
<1> QED  BY <1>2 DEF next

\* A message that is a brief shows its text until all places for briefs were used again.
BriefShows(m, ring, to) ==
  m.brief /\ m.prepared < BriefSize =>
    ring[m.slot.idx] = m.text /\ Ahead(m.slot.idx, m.prepared, to, BriefSize)

\* So does another, at place i of a queue of that length: not more places of the ring were used
\* since than messages passed it and are behind it.
MessageShows(m, i, length, ring, to) ==
  ~m.brief /\ m.passed < i =>
    /\ ring[m.slot.idx] = m.text
    /\ \E n \in 0..(m.passed + length - i) : Ahead(m.slot.idx, n, to, MessageQueueSize)

\* A message that only aged
SameMessage(m, a) == a.slot = m.slot /\ a.brief = m.brief /\ a.text = m.text

EntryOK(m) == m \in Txt!Entry /\ (m.brief <=> m.slot.ring = "briefs")

LEMMA EntryIs ==
  ASSUME NEW m, EntryOK(m)
  PROVE  /\ m.passed \in 0..MessageQueueSize /\ m.prepared \in 0..BriefSize /\ m.brief \in BOOLEAN /\ m.text \in Message
         /\ m.passed \in Nat /\ m.prepared \in Nat /\ m.slot \in Txt!Slot
         /\ m.brief => m.slot.idx \in 0..(BriefSize - 1)
         /\ ~m.brief => m.slot.idx \in 0..(MessageQueueSize - 1)
<1>1. m \in Txt!Entry /\ (m.brief <=> m.slot.ring = "briefs")  BY DEF EntryOK
<1>2. MessageQueueSize \in Nat \ {0} /\ BriefSize \in Nat \ {0}  BY SessionAssumption DEF Txt!TextsAssumption
<1>3. /\ m.passed \in 0..MessageQueueSize /\ m.prepared \in 0..BriefSize /\ m.brief \in BOOLEAN /\ m.text \in Message
      /\ m.slot \in Txt!Slot
  BY <1>1 DEF Txt!Entry
<1>4. /\ m.slot.ring = "briefs" => m.slot.idx \in 0..(BriefSize - 1)
      /\ m.slot.ring # "briefs" => m.slot.idx \in 0..(MessageQueueSize - 1)
  BY <1>3 DEF Txt!Slot
<1> QED  BY <1>1, <1>2, <1>3, <1>4

LEMMA BriefAges ==
  ASSUME NEW m, EntryOK(m), NEW a, SameMessage(m, a), a.prepared = Txt!UpTo(BriefSize, m.prepared + 1),
         NEW ring \in [0..(BriefSize - 1) -> Message], NEW to \in 0..(BriefSize - 1), BriefShows(m, ring, to), NEW t,
         NEW next, next = (to + 1) % BriefSize
  PROVE  BriefShows(a, [ring EXCEPT ![next] = t], next)
<1> SUFFICES ASSUME a.brief, a.prepared < BriefSize
             PROVE  /\ [ring EXCEPT ![next] = t][a.slot.idx] = a.text
                    /\ Ahead(a.slot.idx, a.prepared, next, BriefSize)
  BY DEF BriefShows
<1>1. BriefSize \in Nat \ {0}  BY SessionAssumption DEF Txt!TextsAssumption
<1>2. m.brief /\ m.slot.idx \in 0..(BriefSize - 1) /\ m.prepared \in Nat  BY EntryIs DEF SameMessage
<1>3. a.prepared = m.prepared + 1 /\ m.prepared + 1 < BriefSize  BY <1>1, <1>2 DEF Txt!UpTo
<1>4. ring[m.slot.idx] = m.text /\ Ahead(m.slot.idx, m.prepared, to, BriefSize)  BY <1>1, <1>2, <1>3 DEF BriefShows
<1>5. /\ Ahead(m.slot.idx, m.prepared + 1, next, BriefSize)
      /\ [ring EXCEPT ![next] = t][m.slot.idx] = ring[m.slot.idx]
  <2>1. Behind(m.slot.idx, m.prepared, to, BriefSize)  BY <1>1, <1>2, <1>3, <1>4 DEF Behind
  <2>2. Ahead(m.slot.idx, m.prepared + 1, next, BriefSize) /\ next # m.slot.idx  BY <2>1, WrittenRing
  <2> QED  BY <1>2, <2>2
<1> QED  BY <1>3, <1>4, <1>5 DEF SameMessage

LEMMA MessageAges ==
  ASSUME NEW m, EntryOK(m), NEW a, SameMessage(m, a), NEW i \in Nat, NEW length \in Nat, NEW j \in Nat, NEW k \in Nat,
         NEW ring \in [0..(MessageQueueSize - 1) -> Message], NEW to \in 0..(MessageQueueSize - 1),
         MessageShows(m, i, length, ring, to), NEW t, NEW next, next = (to + 1) % MessageQueueSize,
         a.passed < j => /\ m.passed < i /\ a.passed + k - j = m.passed + length - i + 1
                         /\ a.passed + k - j < MessageQueueSize
  PROVE  MessageShows(a, j, k, [ring EXCEPT ![next] = t], next)
<1> SUFFICES ASSUME ~a.brief, a.passed < j
             PROVE  /\ [ring EXCEPT ![next] = t][a.slot.idx] = a.text
                    /\ \E n \in 0..(a.passed + k - j) : Ahead(a.slot.idx, n, next, MessageQueueSize)
  BY DEF MessageShows
<1>1. MessageQueueSize \in Nat \ {0}  BY SessionAssumption DEF Txt!TextsAssumption
<1>2. ~m.brief /\ m.slot.idx \in 0..(MessageQueueSize - 1) /\ m.passed \in Nat  BY EntryIs DEF SameMessage
<1>3. PICK n \in 0..(m.passed + length - i) : Ahead(m.slot.idx, n, to, MessageQueueSize)
  BY <1>2 DEF MessageShows
<1>4. ring[m.slot.idx] = m.text  BY <1>2 DEF MessageShows
<1>5. n \in Nat /\ n + 1 < MessageQueueSize /\ n + 1 \in 0..(a.passed + k - j)  BY <1>1, <1>2
<1>6. /\ Ahead(m.slot.idx, n + 1, next, MessageQueueSize)
      /\ [ring EXCEPT ![next] = t][m.slot.idx] = ring[m.slot.idx]
  <2>1. Behind(m.slot.idx, n, to, MessageQueueSize)  BY <1>1, <1>2, <1>3, <1>5 DEF Behind
  <2>2. Ahead(m.slot.idx, n + 1, next, MessageQueueSize) /\ next # m.slot.idx  BY <2>1, WrittenRing
  <2> QED  BY <1>2, <2>2
<1> QED  BY <1>4, <1>5, <1>6 DEF SameMessage

LEMMA MessageStays ==
  ASSUME NEW m, NEW a, SameMessage(m, a), NEW i, NEW length, NEW j, NEW k, NEW ring, NEW to,
         MessageShows(m, i, length, ring, to),
         a.passed < j => m.passed < i /\ a.passed + k - j = m.passed + length - i
  PROVE  MessageShows(a, j, k, ring, to)
BY DEF MessageShows, SameMessage

LEMMA AgedIs ==
  ASSUME BriefMessages \in Seq(Txt!Entry), \A i \in 1..Len(BriefMessages) : EntryOK(BriefMessages[i]),
         NEW now \in BOOLEAN, NEW prepares \in BOOLEAN
  PROVE  /\ Txt!Aged(now, prepares) \in Seq(Txt!Entry) /\ Len(Txt!Aged(now, prepares)) = Len(BriefMessages)
         /\ \A i \in 1..Len(BriefMessages) :
              LET m == BriefMessages[i]
                  a == Txt!Aged(now, prepares)[i]
              IN  /\ SameMessage(m, a) /\ EntryOK(a)
                  /\ a.passed = Txt!UpTo(MessageQueueSize, IF now THEN m.passed + 1 ELSE m.passed)
                  /\ a.prepared = Txt!UpTo(BriefSize, IF prepares THEN m.prepared + 1 ELSE m.prepared)
<1> DEFINE A == Txt!Aged(now, prepares)
           E(m) == [m EXCEPT !.passed = Txt!UpTo(MessageQueueSize, IF now THEN @ + 1 ELSE @),
                             !.prepared = Txt!UpTo(BriefSize, IF prepares THEN @ + 1 ELSE @)]
<1>1. A = [i \in 1..Len(BriefMessages) |-> E(BriefMessages[i])]  BY DEF Txt!Aged
<1>2. ASSUME NEW m, EntryOK(m)
      PROVE  /\ SameMessage(m, E(m)) /\ EntryOK(E(m))
             /\ E(m).passed = Txt!UpTo(MessageQueueSize, IF now THEN m.passed + 1 ELSE m.passed)
             /\ E(m).prepared = Txt!UpTo(BriefSize, IF prepares THEN m.prepared + 1 ELSE m.prepared)
  <2>1. MessageQueueSize \in Nat \ {0} /\ BriefSize \in Nat \ {0}  BY SessionAssumption DEF Txt!TextsAssumption
  <2>2. m \in Txt!Entry /\ m.passed \in 0..MessageQueueSize /\ m.prepared \in 0..BriefSize
    BY <1>2, EntryIs DEF EntryOK
  <2> DEFINE p == Txt!UpTo(MessageQueueSize, IF now THEN m.passed + 1 ELSE m.passed)
             q == Txt!UpTo(BriefSize, IF prepares THEN m.prepared + 1 ELSE m.prepared)
  <2>3. p \in 0..MessageQueueSize /\ q \in 0..BriefSize  BY <2>1, <2>2 DEF Txt!UpTo
  <2>4. E(m) = [m EXCEPT !.passed = p, !.prepared = q]  BY <2>2 DEF Txt!Entry
  <2> HIDE DEF p, q, E
  <2>5. E(m) \in Txt!Entry /\ E(m).passed = p /\ E(m).prepared = q /\ SameMessage(m, E(m))
    BY <2>2, <2>3, <2>4 DEF Txt!Entry, SameMessage
  <2> QED  BY <1>2, <2>5 DEF EntryOK, SameMessage, p, q
<1> HIDE DEF A, E
<1>3. /\ Len(BriefMessages) \in Nat
      /\ \A i \in 1..Len(BriefMessages) : A[i] = E(BriefMessages[i]) /\ E(BriefMessages[i]) \in Txt!Entry
  BY <1>1, <1>2 DEF EntryOK
<1>4. A \in Seq(Txt!Entry) /\ Len(A) = Len(BriefMessages)  BY <1>1, <1>3
<1> QED  BY <1>2, <1>3, <1>4 DEF A

----------------------------------------------------------------------------
(* Briefs of the menu *)

\* Each brief listed shows its text.
BriefList(p, ring) ==
  /\ p \in Seq(Txt!Brief) /\ Len(p) <= BriefSize
  /\ \A i \in 1..Len(p) : p[i].slot.ring = "briefs" /\ ring[p[i].slot.idx] = p[i].text

LEMMA EvictedIs ==
  ASSUME PreviousBriefs \in Seq(Txt!Brief), NEW slot
  PROVE  /\ Txt!Evicted(slot) \in Seq(Txt!Brief) /\ Len(Txt!Evicted(slot)) <= Len(PreviousBriefs)
         /\ \A k \in 1..Len(Txt!Evicted(slot)) : \E j \in 1..Len(PreviousBriefs) :
              Txt!Evicted(slot)[k] = PreviousBriefs[j] /\ PreviousBriefs[j].slot # slot
<1> DEFINE file == PreviousBriefs
           n == Len(PreviousBriefs)
           D == Seq(Txt!Brief)
           Kept(q, b) == IF b.slot = slot THEN q ELSE Append(q, b)
           F == [a \in D \X (1..n) |-> Kept(a[1], file[a[2]])]
           Body(f) == [U \in SUBSET (DOMAIN file) |-> IF U = {} THEN <<>>
                        ELSE Kept(f[U \ {Txt!Max(U)}], file[Txt!Max(U)])]
           iter == CHOOSE f : f = Body(f)
<1>1. n \in Nat /\ DOMAIN file = 1..n /\ \A i \in 1..n : file[i] \in Txt!Brief  OBVIOUS
<1>2. Txt!Evicted(slot) = iter[1..n]  BY <1>1 DEF Txt!Evicted, Txt!FoldLeft, Txt!MapThenFoldSet
<1>3. \A q \in D, i \in 1..n : Kept(q, file[i]) \in D  BY <1>1
<1>4. \A q, b : Kept(q, b) = IF b.slot = slot THEN q ELSE Append(q, b)  OBVIOUS
<1> HIDE DEF Kept
<1>5. F \in [D \X (1..n) -> D] /\ \A q \in D, i \in 1..n : F[<<q, i>>] = Kept(q, file[i])
  BY <1>3
<1>6. <<>> \in D  OBVIOUS
<1>7. \E g : g = Body(g)
  <2> HIDE DEF F, n, D, file
  <2>1. PICK g \in [SUBSET (1..n) -> D] : Folds(g, F, <<>>, n)  BY <1>1, <1>5, <1>6, FoldExists
  <2>2. ASSUME NEW U \in SUBSET (1..n), U # {}
        PROVE  g[U] = Kept(g[U \ {Txt!Max(U)}], file[Txt!Max(U)])
    <3>1. Max(U) \in 1..n  BY <1>1, <2>2, MaxOfNaturals
    <3>2. g[U \ {Max(U)}] \in D  BY <2>1
    <3>3. g[U] = F[<<g[U \ {Max(U)}], Max(U)>>]  BY <2>1, <2>2 DEF Folds
    <3> QED  BY <1>5, <3>1, <3>2, <3>3, MaxOfTexts
  <2>3. g[{}] = <<>> /\ g = [U \in SUBSET (1..n) |-> g[U]]  BY <2>1 DEF Folds
  <2>4. g = Body(g)  BY <1>1, <2>2, <2>3
  <2> QED  BY <2>4
<1>8. iter = Body(iter)  BY <1>7
<1> HIDE DEF iter
<1>9. iter[{}] = <<>>  BY <1>8
<1>10. ASSUME NEW U \in SUBSET (1..n), U # {}, iter[U \ {Max(U)}] \in D
       PROVE  iter[U] = F[<<iter[U \ {Max(U)}], Max(U)>>]
  <2>1. iter[U] = Kept(iter[U \ {Txt!Max(U)}], file[Txt!Max(U)])  BY <1>1, <1>8, <1>10
  <2> HIDE DEF F, n, D, file
  <2>2. Max(U) \in 1..n  BY <1>1, <1>10, MaxOfNaturals
  <2> QED  BY <1>5, <1>10, <2>1, <2>2, MaxOfTexts
<1> HIDE DEF F, n, D, file
<1>11. HighestLast(iter, F, D, <<>>, n)  BY <1>1, <1>5, <1>6, <1>9, <1>10 DEF HighestLast
<1>12. PICK v \in [0..n -> D] : Runs(v, F, <<>>, n) /\ iter[1..n] = v[n]  BY <1>11, FoldRuns
<1> DEFINE Holds(i) == /\ v[i] \in Seq(Txt!Brief) /\ Len(v[i]) <= i
                       /\ \A k \in 1..Len(v[i]) : \E j \in 1..n : v[i][k] = file[j] /\ file[j].slot # slot
           S == {i \in Nat : i <= n => Holds(i)}
<1>13. 0 \in S
  <2>1. v[0] = <<>>  BY <1>12 DEF Runs
  <2>2. <<>> \in Seq(Txt!Brief) /\ Len(<<>>) = 0  OBVIOUS
  <2>3. Holds(0)
    <3>1. v[0] \in Seq(Txt!Brief) /\ Len(v[0]) = 0  BY <2>1, <2>2
    <3> QED  BY <3>1
  <2> HIDE DEF Holds
  <2> QED  BY <2>3
<1>14. ASSUME NEW i \in Nat, i \in S PROVE i + 1 \in S
  <2> SUFFICES ASSUME i + 1 <= n PROVE Holds(i + 1)  OBVIOUS
  <2>1. i + 1 \in 1..n /\ (i + 1) - 1 = i /\ i \in 0..n  BY <1>1
  <2>2. Holds(i)  BY <1>14, <2>1
  <2>3. v[i + 1] = F[<<v[i], i + 1>>]  BY <1>12, <2>1 DEF Runs
  <2>4. v[i + 1] = IF file[i + 1].slot = slot THEN v[i] ELSE Append(v[i], file[i + 1])
    BY <1>4, <1>5, <1>12, <2>1, <2>3
  <2>5. CASE file[i + 1].slot = slot  BY <2>2, <2>4, <2>5
  <2>6. CASE file[i + 1].slot # slot
    <3>1. v[i + 1] = Append(v[i], file[i + 1]) /\ file[i + 1] \in Txt!Brief  BY <1>1, <2>1, <2>4, <2>6
    <3>2. /\ v[i + 1] \in Seq(Txt!Brief) /\ Len(v[i + 1]) = Len(v[i]) + 1 /\ v[i + 1][Len(v[i]) + 1] = file[i + 1]
          /\ \A k \in 1..Len(v[i]) : v[i + 1][k] = v[i][k]
      BY <2>2, <3>1
    <3>3. ASSUME NEW k \in 1..Len(v[i + 1])
          PROVE  \E j \in 1..n : v[i + 1][k] = file[j] /\ file[j].slot # slot
      <4>1. CASE k = Len(v[i]) + 1  BY <2>1, <2>6, <3>2, <4>1
      <4>2. CASE k # Len(v[i]) + 1
        <5>1. k \in 1..Len(v[i])  BY <2>2, <3>2, <4>2
        <5> QED  BY <2>2, <3>2, <5>1
      <4> QED  BY <4>1, <4>2
    <3> QED  BY <2>2, <3>2, <3>3
  <2> QED  BY <2>5, <2>6
<1> HIDE DEF Holds
<1>15. Nat \subseteq S  BY <1>13, <1>14, NaturalInduction
<1>16. Holds(n)  BY <1>1, <1>15
<1> QED  BY <1>2, <1>12, <1>16 DEF Holds, n, file

LEMMA EvictKeeps ==
  ASSUME BriefList(PreviousBriefs, briefs), briefs \in [0..(BriefSize - 1) -> Message],
         briefIdx \in 0..(BriefSize - 1), NEW t \in Message
  PROVE  BriefList(Txt!Evicted(Txt!BriefSlot), [briefs EXCEPT ![Txt!NextBrief] = t])
<1> DEFINE p == Txt!Evicted(Txt!BriefSlot)
           ring == [briefs EXCEPT ![Txt!NextBrief] = t]
<1>1. BriefSize \in Nat \ {0}  BY SessionAssumption DEF Txt!TextsAssumption
<1>2. PreviousBriefs \in Seq(Txt!Brief)  BY DEF BriefList
<1>3. /\ p \in Seq(Txt!Brief) /\ Len(p) <= Len(PreviousBriefs)
      /\ \A k \in 1..Len(p) : \E j \in 1..Len(PreviousBriefs) :
           p[k] = PreviousBriefs[j] /\ PreviousBriefs[j].slot # Txt!BriefSlot
  BY <1>2, EvictedIs
<1> HIDE DEF p
<1>4. ASSUME NEW k \in 1..Len(p) PROVE p[k].slot.ring = "briefs" /\ ring[p[k].slot.idx] = p[k].text
  <2>1. PICK j \in 1..Len(PreviousBriefs) : p[k] = PreviousBriefs[j] /\ PreviousBriefs[j].slot # Txt!BriefSlot
    BY <1>3
  <2> DEFINE s == PreviousBriefs[j].slot
  <2>2. s \in Txt!Slot /\ s.ring = "briefs" /\ briefs[s.idx] = PreviousBriefs[j].text
    <3>1. PreviousBriefs[j] \in Txt!Brief  BY <1>2
    <3> QED  BY <3>1 DEF BriefList, Txt!Brief
  <2>3. s.idx \in 0..(BriefSize - 1) /\ s = [ring |-> "briefs", idx |-> s.idx]
    BY <2>2 DEF Txt!Slot
  <2>4. s.idx # Txt!NextBrief  BY <2>1, <2>3 DEF Txt!BriefSlot
  <2> QED  BY <2>1, <2>2, <2>3, <2>4
<1>5. Len(p) <= BriefSize
  <2>1. Len(p) \in Nat /\ Len(PreviousBriefs) \in Nat /\ Len(PreviousBriefs) <= BriefSize
    BY <1>2, <1>3 DEF BriefList
  <2> QED  BY <1>1, <1>3, <2>1
<1> QED  BY <1>3, <1>4, <1>5 DEF BriefList, p

LEMMA ShownKeeps ==
  ASSUME NEW p, NEW ring, BriefList(p, ring), NEW slot \in Txt!Slot, slot.ring = "briefs", NEW t \in Message,
         ring[slot.idx] = t
  PROVE  BriefList(Txt!Shown(p, slot, t), ring)
<1> DEFINE x == [slot |-> slot, text |-> t]
           rest == IF Len(p) = BriefSize THEN Txt!Front(p) ELSE p
<1>1. BriefSize \in Nat \ {0}  BY SessionAssumption DEF Txt!TextsAssumption
<1>2. p \in Seq(Txt!Brief) /\ Len(p) \in Nat /\ Len(p) <= BriefSize  BY DEF BriefList
<1>3. CASE \E i \in 1..Len(p) : p[i].slot = slot  BY <1>3 DEF Txt!Shown
<1>4. CASE ~\E i \in 1..Len(p) : p[i].slot = slot
  <2>1. Txt!Shown(p, slot, t) = <<x>> \o rest  BY <1>4 DEF Txt!Shown
  <2>2. /\ rest \in Seq(Txt!Brief) /\ Len(rest) \in Nat /\ Len(rest) + 1 <= BriefSize /\ Len(rest) <= Len(p)
        /\ \A i \in 1..Len(rest) : rest[i] = p[i]
    <3>1. CASE Len(p) = BriefSize
      <4>1. rest = SubSeq(p, 1, Len(p) - 1)  BY <3>1 DEF Txt!Front
      <4>2. Len(rest) = Len(p) - 1 /\ rest \in Seq(Txt!Brief) /\ \A i \in 1..(Len(p) - 1) : rest[i] = p[i]
        BY <1>1, <1>2, <3>1, <4>1
      <4> HIDE DEF rest
      <4> QED  BY <1>1, <1>2, <3>1, <4>2
    <3>2. CASE Len(p) # BriefSize  BY <1>1, <1>2, <3>2
    <3> QED  BY <3>1, <3>2
  <2>3. x \in Txt!Brief /\ x.slot = slot /\ x.text = t  BY DEF Txt!Brief
  <2> HIDE DEF x, rest
  <2> DEFINE q == <<x>> \o rest
  <2>4. /\ q \in Seq(Txt!Brief) /\ Len(q) = Len(rest) + 1 /\ q[1] = x
        /\ \A i \in 1..Len(q) : i # 1 => i - 1 \in 1..Len(rest) /\ q[i] = rest[i - 1]
    BY <2>2, <2>3
  <2> HIDE DEF q
  <2>5. ASSUME NEW i \in 1..Len(q) PROVE q[i].slot.ring = "briefs" /\ ring[q[i].slot.idx] = q[i].text
    <3>1. CASE i = 1  BY <2>3, <2>4, <3>1
    <3>2. CASE i # 1
      <4>0. i - 1 \in 1..Len(rest) /\ q[i] = rest[i - 1]  BY <2>4, <3>2
      <4>1. i - 1 \in 1..Len(p) /\ q[i] = p[i - 1]  BY <1>2, <2>2, <4>0
      <4> QED  BY <4>1 DEF BriefList
    <3> QED  BY <3>1, <3>2
  <2> QED  BY <2>1, <2>2, <2>4, <2>5 DEF BriefList, q
<1> QED  BY <1>3, <1>4

RingsOK ==
  /\ messageQueue \in [0..(MessageQueueSize - 1) -> Message] /\ briefs \in [0..(BriefSize - 1) -> Message]
  /\ queueIdx \in 0..(MessageQueueSize - 1) /\ briefIdx \in 0..(BriefSize - 1)
  /\ bAddNextMessageToPreviousBriefs \in BOOLEAN /\ m_bPrefsShowSubtitles \in BOOLEAN

\* Each message that waits shows its text, or is too old for that.
Queue(q, ring, to, briefRing, briefTo) ==
  /\ q \in Seq(Txt!Entry) /\ Len(q) <= MessageQueueSize
  /\ \A i \in 1..Len(q) : /\ EntryOK(q[i]) /\ BriefShows(q[i], briefRing, briefTo)
                          /\ MessageShows(q[i], i, Len(q), ring, to)

MessagesInv ==
  RingsOK /\ BriefList(PreviousBriefs, briefs) /\ Queue(BriefMessages, messageQueue, queueIdx, briefs, briefIdx)

LEMMA BriefSlotIs ==
  ASSUME MessagesInv
  PROVE  /\ BriefSize \in Nat \ {0} /\ MessageQueueSize \in Nat \ {0}
         /\ Txt!NextBrief \in 0..(BriefSize - 1) /\ Txt!BriefSlot \in Txt!Slot
         /\ Txt!BriefSlot.ring = "briefs" /\ Txt!BriefSlot.idx = Txt!NextBrief
         /\ (queueIdx + 1) % MessageQueueSize \in 0..(MessageQueueSize - 1)
<1>1. BriefSize \in Nat \ {0} /\ MessageQueueSize \in Nat \ {0}  BY SessionAssumption DEF Txt!TextsAssumption
<1>2. briefIdx \in 0..(BriefSize - 1) /\ queueIdx \in 0..(MessageQueueSize - 1)  BY DEF MessagesInv, RingsOK
<1>3. /\ (briefIdx + 1) % BriefSize \in 0..(BriefSize - 1)
      /\ (queueIdx + 1) % MessageQueueSize \in 0..(MessageQueueSize - 1)
  BY <1>1, <1>2, NextInRing
<1> QED  BY <1>1, <1>3 DEF Txt!NextBrief, Txt!BriefSlot, Txt!Slot

\* Messages age when a brief is prepared, and when another message is added: at once, in place of
\* the first, or behind all.
LEMMA AgedQueue ==
  ASSUME MessagesInv, NEW now \in BOOLEAN, NEW prepares \in BOOLEAN, NEW t \in Message,
         NEW added \in BOOLEAN, now => added, added /\ ~now => Len(BriefMessages) < MessageQueueSize
  PROVE  LET q == Txt!Aged(now, prepares)
             length == IF added /\ ~now THEN Len(q) + 1 ELSE Len(q)
             next == (queueIdx + 1) % MessageQueueSize
             ring == IF added THEN [messageQueue EXCEPT ![next] = t] ELSE messageQueue
             to == IF added THEN next ELSE queueIdx
             briefRing == IF prepares THEN [briefs EXCEPT ![Txt!NextBrief] = t] ELSE briefs
             briefTo == IF prepares THEN Txt!NextBrief ELSE briefIdx
         IN  /\ q \in Seq(Txt!Entry) /\ Len(q) = Len(BriefMessages)
             /\ \A i \in 1..Len(q) : /\ EntryOK(q[i]) /\ BriefShows(q[i], briefRing, briefTo)
                                     /\ i > 1 \/ ~now => MessageShows(q[i], i, length, ring, to)
<1> DEFINE q == Txt!Aged(now, prepares)
           length == IF added /\ ~now THEN Len(q) + 1 ELSE Len(q)
           next == (queueIdx + 1) % MessageQueueSize
           ring == IF added THEN [messageQueue EXCEPT ![next] = t] ELSE messageQueue
           to == IF added THEN next ELSE queueIdx
           briefRing == IF prepares THEN [briefs EXCEPT ![Txt!NextBrief] = t] ELSE briefs
           briefTo == IF prepares THEN Txt!NextBrief ELSE briefIdx
<1>1. MessageQueueSize \in Nat \ {0} /\ BriefSize \in Nat \ {0}  BY SessionAssumption DEF Txt!TextsAssumption
<1>2. /\ BriefMessages \in Seq(Txt!Entry) /\ Len(BriefMessages) <= MessageQueueSize /\ Len(BriefMessages) \in Nat
      /\ \A i \in 1..Len(BriefMessages) : EntryOK(BriefMessages[i])
  BY DEF MessagesInv, Queue
<1>3. /\ q \in Seq(Txt!Entry) /\ Len(q) = Len(BriefMessages)
      /\ \A i \in 1..Len(BriefMessages) :
           /\ SameMessage(BriefMessages[i], q[i]) /\ EntryOK(q[i])
           /\ q[i].passed = Txt!UpTo(MessageQueueSize, IF now THEN BriefMessages[i].passed + 1 ELSE BriefMessages[i].passed)
           /\ q[i].prepared = Txt!UpTo(BriefSize, IF prepares THEN BriefMessages[i].prepared + 1 ELSE BriefMessages[i].prepared)
  BY <1>2, AgedIs
<1> HIDE DEF q
<1>4. ASSUME NEW i \in 1..Len(q)
      PROVE  BriefShows(q[i], briefRing, briefTo) /\ (i > 1 \/ ~now => MessageShows(q[i], i, length, ring, to))
  <2> DEFINE m == BriefMessages[i]
             a == q[i]
  <2>1. /\ SameMessage(m, a) /\ EntryOK(m) /\ EntryOK(a)
        /\ a.passed = Txt!UpTo(MessageQueueSize, IF now THEN m.passed + 1 ELSE m.passed)
        /\ a.prepared = Txt!UpTo(BriefSize, IF prepares THEN m.prepared + 1 ELSE m.prepared)
        /\ BriefShows(m, briefs, briefIdx) /\ MessageShows(m, i, Len(BriefMessages), messageQueue, queueIdx)
        /\ i \in Nat /\ i <= Len(BriefMessages)
    BY <1>2, <1>3 DEF MessagesInv, Queue
  <2>2. m.passed \in 0..MessageQueueSize /\ m.prepared \in 0..BriefSize  BY <2>1, EntryIs
  <2>3. /\ messageQueue \in [0..(MessageQueueSize - 1) -> Message] /\ briefs \in [0..(BriefSize - 1) -> Message]
        /\ queueIdx \in 0..(MessageQueueSize - 1) /\ briefIdx \in 0..(BriefSize - 1)
    BY DEF MessagesInv, RingsOK
  <2> HIDE DEF m, a
  <2>4. BriefShows(a, briefRing, briefTo)
    <3>1. CASE prepares
      <4>1. a.prepared = Txt!UpTo(BriefSize, m.prepared + 1)  BY <2>1, <3>1
      <4>2. Txt!NextBrief = (briefIdx + 1) % BriefSize  BY DEF Txt!NextBrief
      <4>3. BriefShows(a, [briefs EXCEPT ![Txt!NextBrief] = t], Txt!NextBrief)
        BY <2>1, <2>3, <4>1, <4>2, BriefAges
      <4> QED  BY <3>1, <4>3
    <3>2. CASE ~prepares
      <4>1. a.prepared = m.prepared  BY <1>1, <2>1, <2>2, <3>2 DEF Txt!UpTo
      <4> QED  BY <2>1, <3>2, <4>1 DEF BriefShows, SameMessage
    <3> QED  BY <3>1, <3>2
  <2>5. ASSUME i > 1 \/ ~now PROVE MessageShows(a, i, length, ring, to)
    <3>1. CASE added
      <4>1. length = (IF now THEN Len(BriefMessages) ELSE Len(BriefMessages) + 1) /\ length \in Nat
        BY <1>2, <1>3, <3>1
      <4>2. length <= MessageQueueSize  BY <1>1, <1>2, <3>1, <4>1
      <4>3. a.passed < i => /\ m.passed < i /\ a.passed + length - i = m.passed + Len(BriefMessages) - i + 1
                            /\ a.passed + length - i < MessageQueueSize
        <5>1. CASE now
          <6>1. a.passed = Txt!UpTo(MessageQueueSize, m.passed + 1)  BY <2>1, <5>1
          <6>2. a.passed < i => a.passed = m.passed + 1 /\ m.passed + 1 < i
            BY <1>1, <1>2, <2>1, <2>2, <6>1 DEF Txt!UpTo
          <6> QED  BY <1>1, <1>2, <2>1, <2>2, <4>1, <4>2, <5>1, <6>2
        <5>2. CASE ~now
          <6>1. a.passed = m.passed  BY <1>1, <2>1, <2>2, <5>2 DEF Txt!UpTo
          <6>2. length = Len(BriefMessages) + 1  BY <4>1, <5>2
          <6> HIDE DEF length
          <6>3. a.passed < i => a.passed + length - i < length  BY <1>1, <1>2, <2>1, <2>2, <4>1, <6>1
          <6>4. /\ MessageQueueSize \in Nat /\ Len(BriefMessages) \in Nat /\ i \in Nat /\ m.passed \in Nat
                /\ length \in Nat /\ length <= MessageQueueSize
            BY <1>1, <1>2, <2>1, <2>2, <4>1, <4>2
          <6>5. a.passed + length - i = m.passed + Len(BriefMessages) - i + 1  BY <6>1, <6>2, <6>4
          <6>6. a.passed < i => m.passed < i  BY <6>1
          <6>7. a.passed < i => a.passed + length - i < MessageQueueSize  BY <6>1, <6>3, <6>4
          <6> QED  BY <6>5, <6>6, <6>7
        <5> QED  BY <5>1, <5>2
      <4> HIDE DEF length
      <4>4. MessageShows(a, i, length, [messageQueue EXCEPT ![next] = t], next)
        BY <1>2, <2>1, <2>3, <4>1, <4>3, MessageAges
      <4> QED  BY <3>1, <4>4
    <3>2. CASE ~added
      <4>1. a.passed = m.passed /\ length = Len(BriefMessages)
        BY <1>1, <1>3, <2>1, <2>2, <3>2 DEF Txt!UpTo
      <4> HIDE DEF length
      <4>2. MessageShows(a, i, length, messageQueue, queueIdx)  BY <2>1, <4>1, MessageStays
      <4> QED  BY <3>2, <4>2
    <3> QED  BY <3>1, <3>2
  <2> QED  BY <2>4, <2>5 DEF a
<1>5. \A i \in 1..Len(q) : EntryOK(q[i])  BY <1>3
<1> QED  BY <1>3, <1>4, <1>5 DEF q

\* A message that is added shows its text, wherever it is put in the queue.
LEMMA EntryShows ==
  ASSUME MessagesInv, NEW t \in Message, NEW brief \in BOOLEAN, NEW k \in Nat, NEW i \in 1..k
  PROVE  LET next == (queueIdx + 1) % MessageQueueSize
             slot == IF brief THEN Txt!BriefSlot ELSE [ring |-> "messageQueue", idx |-> next]
             entry == [slot |-> slot, brief |-> brief, text |-> t, passed |-> 0, prepared |-> 0]
             briefRing == IF brief THEN [briefs EXCEPT ![Txt!NextBrief] = t] ELSE briefs
             briefTo == IF brief THEN Txt!NextBrief ELSE briefIdx
         IN  /\ EntryOK(entry) /\ BriefShows(entry, briefRing, briefTo)
             /\ MessageShows(entry, i, k, [messageQueue EXCEPT ![next] = t], next)
<1> DEFINE next == (queueIdx + 1) % MessageQueueSize
           slot == IF brief THEN Txt!BriefSlot ELSE [ring |-> "messageQueue", idx |-> next]
           entry == [slot |-> slot, brief |-> brief, text |-> t, passed |-> 0, prepared |-> 0]
           briefRing == IF brief THEN [briefs EXCEPT ![Txt!NextBrief] = t] ELSE briefs
           briefTo == IF brief THEN Txt!NextBrief ELSE briefIdx
           ring == [messageQueue EXCEPT ![next] = t]
<1>1. /\ BriefSize \in Nat \ {0} /\ MessageQueueSize \in Nat \ {0}
      /\ Txt!NextBrief \in 0..(BriefSize - 1) /\ Txt!BriefSlot \in Txt!Slot
      /\ Txt!BriefSlot.ring = "briefs" /\ Txt!BriefSlot.idx = Txt!NextBrief
      /\ next \in 0..(MessageQueueSize - 1)
  BY BriefSlotIs
<1>2. /\ messageQueue \in [0..(MessageQueueSize - 1) -> Message] /\ briefs \in [0..(BriefSize - 1) -> Message]
  BY DEF MessagesInv, RingsOK
<1> HIDE DEF next
<1>3. slot \in Txt!Slot /\ (brief <=> slot.ring = "briefs") /\ slot.idx = (IF brief THEN Txt!NextBrief ELSE next)
  BY <1>1 DEF Txt!Slot
<1> HIDE DEF slot
<1>4. /\ entry.slot = slot /\ entry.brief = brief /\ entry.text = t /\ entry.passed = 0 /\ entry.prepared = 0
      /\ entry \in Txt!Entry
  BY <1>1, <1>3 DEF Txt!Entry
<1> HIDE DEF entry
<1>5. EntryOK(entry)  BY <1>3, <1>4 DEF EntryOK
<1>6. BriefShows(entry, briefRing, briefTo)
  <2> SUFFICES ASSUME brief PROVE briefRing[Txt!NextBrief] = t /\ Ahead(Txt!NextBrief, 0, briefTo, BriefSize)
    BY <1>3, <1>4 DEF BriefShows
  <2> QED  BY <1>1, <1>2 DEF Ahead
<1>7. MessageShows(entry, i, k, ring, next)
  <2> SUFFICES ASSUME ~brief
               PROVE  ring[next] = t /\ \E n \in 0..(0 + k - i) : Ahead(next, n, next, MessageQueueSize)
    BY <1>3, <1>4 DEF MessageShows
  <2>1. 0 \in 0..(0 + k - i) /\ Ahead(next, 0, next, MessageQueueSize)  BY <1>1 DEF Ahead
  <2> QED  BY <1>1, <1>2, <2>1
<1> QED  BY <1>5, <1>6, <1>7 DEF next, slot, entry

LEMMA AddKeepsMessages ==
  ASSUME MessagesInv, NEW t \in Message, NEW now \in BOOLEAN, NEW legacy \in BOOLEAN,
         Txt!AddToMessageQueue(t, now, legacy)
  PROVE  MessagesInv'
<1> DEFINE add == ~legacy /\ Txt!CanThisTextBeAddedToBrief(t)
           next == (queueIdx + 1) % MessageQueueSize
           slot == IF add THEN Txt!BriefSlot ELSE [ring |-> "messageQueue", idx |-> next]
           entry == [slot |-> slot, brief |-> add, text |-> t, passed |-> 0, prepared |-> 0]
           w == Txt!Aged(now, add)
           previous == IF add THEN Txt!Evicted(slot) ELSE PreviousBriefs
           length == IF ~now THEN Len(w) + 1 ELSE Len(w)
           q == IF now /\ w # <<>> THEN <<entry>> \o Tail(w) ELSE Append(w, entry)
<1>0. /\ now \/ Len(BriefMessages) < MessageQueueSize
      /\ queueIdx' = next /\ messageQueue' = [messageQueue EXCEPT ![next] = t]
      /\ briefs' = (IF add THEN [briefs EXCEPT ![Txt!NextBrief] = t] ELSE briefs)
      /\ briefIdx' = (IF add THEN Txt!NextBrief ELSE briefIdx)
      /\ BriefMessages' = q
      /\ PreviousBriefs' = (IF add /\ (now \/ w = <<>>) THEN Txt!Shown(previous, slot, t) ELSE previous)
      /\ bAddNextMessageToPreviousBriefs' = (~legacy \/ bAddNextMessageToPreviousBriefs)
      /\ m_bPrefsShowSubtitles' = m_bPrefsShowSubtitles
  BY DEF Txt!AddToMessageQueue, Txt!IsDisplayed, Txt!PrepareThisTextForBrief
<1>1. add \in BOOLEAN  BY DEF Txt!CanThisTextBeAddedToBrief
<1> HIDE DEF add
<1>2. /\ BriefSize \in Nat \ {0} /\ MessageQueueSize \in Nat \ {0}
      /\ Txt!NextBrief \in 0..(BriefSize - 1) /\ Txt!BriefSlot \in Txt!Slot
      /\ Txt!BriefSlot.ring = "briefs" /\ Txt!BriefSlot.idx = Txt!NextBrief
      /\ next \in 0..(MessageQueueSize - 1)
  BY BriefSlotIs
<1>3. RingsOK /\ BriefList(PreviousBriefs, briefs)  BY DEF MessagesInv
<1>4. RingsOK'  BY <1>0, <1>1, <1>2, <1>3 DEF RingsOK
<1>5. BriefList(PreviousBriefs', briefs')
  <2>1. CASE add
    <3>1. BriefList(previous, briefs')
      <4>1. BriefList(Txt!Evicted(Txt!BriefSlot), [briefs EXCEPT ![Txt!NextBrief] = t])
        BY <1>3, EvictKeeps DEF RingsOK
      <4> QED  BY <1>0, <2>1, <4>1
    <3>2. briefs'[Txt!BriefSlot.idx] = t  BY <1>0, <1>2, <1>3, <2>1 DEF RingsOK
    <3> HIDE DEF previous
    <3>3. BriefList(Txt!Shown(previous, Txt!BriefSlot, t), briefs')  BY <1>2, <3>1, <3>2, ShownKeeps
    <3> QED  BY <1>0, <2>1, <3>1, <3>3
  <2>2. CASE ~add  BY <1>0, <1>3, <2>2
  <2> QED  BY <2>1, <2>2
<1>6. /\ w \in Seq(Txt!Entry) /\ Len(w) = Len(BriefMessages) /\ Len(w) \in Nat
      /\ \A i \in 1..Len(w) : /\ EntryOK(w[i]) /\ BriefShows(w[i], briefs', briefIdx')
                              /\ i > 1 \/ ~now => MessageShows(w[i], i, length, messageQueue', queueIdx')
  <2>1. now \/ Len(BriefMessages) < MessageQueueSize  BY <1>0
  <2> DEFINE briefRing == IF add THEN [briefs EXCEPT ![Txt!NextBrief] = t] ELSE briefs
             briefTo == IF add THEN Txt!NextBrief ELSE briefIdx
  <2>2. /\ w \in Seq(Txt!Entry) /\ Len(w) = Len(BriefMessages)
        /\ \A i \in 1..Len(w) : /\ EntryOK(w[i]) /\ BriefShows(w[i], briefRing, briefTo)
                                /\ i > 1 \/ ~now => MessageShows(w[i], i, length, [messageQueue EXCEPT ![next] = t], next)
    BY <1>1, <2>1, AgedQueue
  <2>3. Len(BriefMessages) \in Nat  BY DEF MessagesInv, Queue
  <2> QED  BY <1>0, <2>2, <2>3
<1>7. ASSUME NEW k \in Nat, NEW i \in 1..k
      PROVE  /\ EntryOK(entry) /\ BriefShows(entry, briefs', briefIdx')
             /\ MessageShows(entry, i, k, messageQueue', queueIdx')
  BY <1>0, <1>1, EntryShows
<1>8. entry \in Txt!Entry
  <2>1. 1 \in Nat /\ 1 \in 1..1  OBVIOUS
  <2> QED  BY <1>7, <2>1 DEF EntryOK
<1> HIDE DEF w, entry, next
<1>9. /\ q \in Seq(Txt!Entry) /\ Len(q) \in Nat /\ Len(q) <= MessageQueueSize
      /\ \A i \in 1..Len(q) : q[i] = entry
                              \/ (i \in 1..Len(w) /\ q[i] = w[i] /\ (i > 1 \/ ~now) /\ Len(q) = length)
  <2>0. Len(BriefMessages) <= MessageQueueSize  BY DEF MessagesInv, Queue
  <2>1. CASE now /\ w # <<>>
    <3>1. /\ q = <<entry>> \o Tail(w) /\ Tail(w) \in Seq(Txt!Entry) /\ Len(Tail(w)) = Len(w) - 1 /\ Len(w) >= 1
          /\ \A i \in 1..(Len(w) - 1) : Tail(w)[i] = w[i + 1]
      BY <1>6, <2>1
    <3>2. /\ q \in Seq(Txt!Entry) /\ Len(q) = Len(w) /\ q[1] = entry
          /\ \A i \in 1..Len(w) : i # 1 => q[i] = w[i]
      BY <1>6, <1>8, <3>1
    <3>3. length = Len(w)  BY <2>1
    <3> HIDE DEF q, length
    <3> QED  BY <1>2, <1>6, <2>0, <3>2, <3>3
  <2>2. CASE ~(now /\ w # <<>>)
    <3>1. q = Append(w, entry)  BY <2>2
    <3>2. /\ q \in Seq(Txt!Entry) /\ Len(q) = Len(w) + 1 /\ q[Len(w) + 1] = entry
          /\ \A i \in 1..Len(w) : q[i] = w[i]
      BY <1>6, <1>8, <3>1
    <3>3. now => Len(w) = 0  BY <2>2
    <3>4. ~now => length = Len(w) + 1 /\ Len(w) < MessageQueueSize  BY <1>0, <1>6
    <3> HIDE DEF q, length
    <3>5. Len(q) <= MessageQueueSize  BY <1>2, <1>6, <3>2, <3>3, <3>4
    <3> QED  BY <1>6, <3>2, <3>3, <3>4, <3>5
  <2> QED  BY <2>1, <2>2
<1> HIDE DEF q, length
<1>10. Queue(q, messageQueue', queueIdx', briefs', briefIdx')
  <2> SUFFICES ASSUME NEW i \in 1..Len(q)
               PROVE  /\ EntryOK(q[i]) /\ BriefShows(q[i], briefs', briefIdx')
                      /\ MessageShows(q[i], i, Len(q), messageQueue', queueIdx')
    BY <1>9 DEF Queue
  <2>1. CASE q[i] = entry  BY <1>7, <1>9, <2>1
  <2>2. CASE i \in 1..Len(w) /\ q[i] = w[i] /\ (i > 1 \/ ~now) /\ Len(q) = length  BY <1>6, <2>2
  <2> QED  BY <1>9, <2>1, <2>2
<1> QED  BY <1>0, <1>4, <1>5, <1>10 DEF MessagesInv

LEMMA HelpKeepsMessages ==
  ASSUME MessagesInv, NEW t \in Message, NEW legacy, Txt!PrintHelp(t, legacy)
  PROVE  MessagesInv'
<1> DEFINE w == Txt!Aged(FALSE, TRUE)
           ring == [briefs EXCEPT ![Txt!NextBrief] = t]
<1>1. /\ UNCHANGED <<messageQueue, queueIdx, m_bPrefsShowSubtitles>> /\ bAddNextMessageToPreviousBriefs' = TRUE
      /\ \/ UNCHANGED <<briefs, briefIdx, PreviousBriefs, BriefMessages>>
         \/ /\ briefIdx' = Txt!NextBrief /\ briefs' = ring /\ BriefMessages' = w
            /\ PreviousBriefs' = Txt!Shown(Txt!Evicted(Txt!BriefSlot), Txt!BriefSlot, t)
  BY DEF Txt!PrintHelp, Txt!PrepareThisTextForBrief
<1>2. CASE UNCHANGED <<briefs, briefIdx, PreviousBriefs, BriefMessages>>
  BY <1>1, <1>2 DEF MessagesInv, RingsOK
<1>3. CASE /\ briefIdx' = Txt!NextBrief /\ briefs' = ring /\ BriefMessages' = w
           /\ PreviousBriefs' = Txt!Shown(Txt!Evicted(Txt!BriefSlot), Txt!BriefSlot, t)
  <2>1. /\ BriefSize \in Nat \ {0} /\ MessageQueueSize \in Nat \ {0}
        /\ Txt!NextBrief \in 0..(BriefSize - 1) /\ Txt!BriefSlot \in Txt!Slot
        /\ Txt!BriefSlot.ring = "briefs" /\ Txt!BriefSlot.idx = Txt!NextBrief
    BY BriefSlotIs
  <2>2. RingsOK /\ BriefList(PreviousBriefs, briefs)  BY DEF MessagesInv
  <2>3. RingsOK'  BY <1>1, <1>3, <2>1, <2>2 DEF RingsOK
  <2>4. BriefList(Txt!Evicted(Txt!BriefSlot), ring)  BY <2>2, EvictKeeps DEF RingsOK
  <2>5. ring[Txt!BriefSlot.idx] = t  BY <2>1, <2>2 DEF RingsOK
  <2>6. BriefList(PreviousBriefs', briefs')
    <3> HIDE DEF ring
    <3> QED  BY <1>3, <2>1, <2>4, <2>5, ShownKeeps
  <2>7. /\ w \in Seq(Txt!Entry) /\ Len(w) = Len(BriefMessages)
        /\ \A i \in 1..Len(w) : /\ EntryOK(w[i]) /\ BriefShows(w[i], ring, Txt!NextBrief)
                                /\ MessageShows(w[i], i, Len(w), messageQueue, queueIdx)
    BY AgedQueue
  <2>8. Len(BriefMessages) <= MessageQueueSize  BY DEF MessagesInv, Queue
  <2> HIDE DEF w, ring
  <2>9. Queue(BriefMessages', messageQueue', queueIdx', briefs', briefIdx')  BY <1>1, <1>3, <2>7, <2>8 DEF Queue
  <2> QED  BY <2>3, <2>6, <2>9 DEF MessagesInv
<1> QED  BY <1>1, <1>2, <1>3

LEMMA EndKeepsMessages ==
  ASSUME MessagesInv, Txt!MessageEnds
  PROVE  MessagesInv'
<1> DEFINE q == BriefMessages
           w == Tail(BriefMessages)
           next == BriefMessages[2]
<1>1. /\ q # <<>> /\ q' = w
      /\ PreviousBriefs' = (IF Len(q) > 1 /\ next.brief
                            THEN Txt!Shown(PreviousBriefs, next.slot, Txt!Content(next.slot)) ELSE PreviousBriefs)
      /\ UNCHANGED <<messageQueue, queueIdx, briefs, briefIdx, bAddNextMessageToPreviousBriefs, m_bPrefsShowSubtitles>>
  BY DEF Txt!MessageEnds, Txt!ringVars
<1>2. RingsOK /\ BriefList(PreviousBriefs, briefs) /\ q \in Seq(Txt!Entry) /\ Len(q) <= MessageQueueSize
      /\ \A i \in 1..Len(q) : /\ EntryOK(q[i]) /\ BriefShows(q[i], briefs, briefIdx)
                              /\ MessageShows(q[i], i, Len(q), messageQueue, queueIdx)
  BY DEF MessagesInv, Queue
<1>3. MessageQueueSize \in Nat \ {0} /\ BriefSize \in Nat \ {0}  BY SessionAssumption DEF Txt!TextsAssumption
<1>4. RingsOK'  BY <1>1, <1>2 DEF RingsOK
<1>5. BriefList(PreviousBriefs', briefs)
  <2>1. CASE Len(q) > 1 /\ next.brief
    <3>1. EntryOK(next)
      <4>1. 2 \in 1..Len(q)  BY <1>2, <2>1
      <4> QED  BY <1>2, <4>1
    <3> HIDE DEF next
    <3>2. next.slot \in Txt!Slot /\ next.slot.ring = "briefs" /\ next.slot.idx \in 0..(BriefSize - 1)
      BY <2>1, <3>1, EntryIs DEF EntryOK
    <3>3. Txt!Content(next.slot) = briefs[next.slot.idx] /\ briefs[next.slot.idx] \in Message
      BY <1>2, <3>2 DEF Txt!Content, RingsOK
    <3>4. BriefList(Txt!Shown(PreviousBriefs, next.slot, briefs[next.slot.idx]), briefs)
      BY <1>2, <3>2, <3>3, ShownKeeps
    <3> QED  BY <1>1, <2>1, <3>3, <3>4
  <2>2. CASE ~(Len(q) > 1 /\ next.brief)  BY <1>1, <1>2, <2>2
  <2> QED  BY <2>1, <2>2
<1>6. /\ w \in Seq(Txt!Entry) /\ Len(w) = Len(q) - 1 /\ Len(w) \in Nat /\ Len(q) \in Nat
      /\ \A i \in 1..Len(w) : i + 1 \in 1..Len(q) /\ w[i] = q[i + 1]
  BY <1>1, <1>2
<1> HIDE DEF w
<1>7. ASSUME NEW i \in 1..Len(w)
      PROVE  /\ EntryOK(w[i]) /\ BriefShows(w[i], briefs, briefIdx)
             /\ MessageShows(w[i], i, Len(w), messageQueue, queueIdx)
  <2> DEFINE m == q[i + 1]
  <2>1. /\ w[i] = m /\ EntryOK(m) /\ BriefShows(m, briefs, briefIdx)
        /\ MessageShows(m, i + 1, Len(q), messageQueue, queueIdx)
    BY <1>2, <1>6
  <2> HIDE DEF m
  <2>2. m.passed \in Nat /\ i \in Nat  BY <2>1, EntryIs
  <2>3. m.passed < i => m.passed < i + 1 /\ m.passed + Len(w) - i = m.passed + Len(q) - (i + 1)
    BY <1>6, <2>2
  <2>4. SameMessage(m, m)  BY DEF SameMessage
  <2>5. MessageShows(m, i, Len(w), messageQueue, queueIdx)  BY <2>1, <2>3, <2>4, MessageStays
  <2> QED  BY <2>1, <2>5
<1>8. Len(w) <= MessageQueueSize  BY <1>2, <1>3, <1>6
<1>9. Queue(w, messageQueue, queueIdx, briefs, briefIdx)  BY <1>6, <1>7, <1>8 DEF Queue
<1> QED  BY <1>1, <1>4, <1>5, <1>9 DEF MessagesInv

LEMMA MessagesInvHolds == Spec => []MessagesInv
<1>1. Init => MessagesInv
  <2> SUFFICES ASSUME Init PROVE MessagesInv  OBVIOUS
  <2>1. MessageQueueSize \in Nat \ {0} /\ BriefSize \in Nat \ {0}  BY SessionAssumption DEF Txt!TextsAssumption
  <2>2. /\ \E t \in Message : messageQueue = [i \in 0..(MessageQueueSize - 1) |-> t]
                              /\ briefs = [i \in 0..(BriefSize - 1) |-> t]
        /\ queueIdx = 0 /\ briefIdx = 0 /\ BriefMessages = <<>> /\ PreviousBriefs = <<>>
        /\ bAddNextMessageToPreviousBriefs = TRUE /\ m_bPrefsShowSubtitles = TRUE
    BY DEF Init, Txt!TextsInit
  <2>3. RingsOK  BY <2>1, <2>2 DEF RingsOK
  <2>4. BriefList(PreviousBriefs, briefs)  BY <2>1, <2>2 DEF BriefList
  <2>5. Queue(BriefMessages, messageQueue, queueIdx, briefs, briefIdx)  BY <2>1, <2>2 DEF Queue
  <2> QED  BY <2>3, <2>4, <2>5 DEF MessagesInv
<1>2. MessagesInv /\ [Next]_vars => MessagesInv'
  <2> SUFFICES ASSUME MessagesInv, [Next]_vars PROVE MessagesInv'  OBVIOUS
  <2>1. UNCHANGED Txt!messageVars => MessagesInv'
    <3> SUFFICES ASSUME UNCHANGED <<messageQueue, queueIdx, briefs, briefIdx, BriefMessages, PreviousBriefs,
                                    bAddNextMessageToPreviousBriefs, m_bPrefsShowSubtitles>>
                 PROVE  MessagesInv'
      BY DEF Txt!messageVars, Txt!ringVars, Txt!gameVars
    <3>1. RingsOK'  BY DEF MessagesInv, RingsOK
    <3> QED  BY <3>1 DEF MessagesInv
  <2>2. CASE Txt!LabelsNext
    <3>1. ASSUME NEW g, Txt!Become(g) PROVE UNCHANGED Txt!messageVars  BY <3>1 DEF Txt!Become, Txt!messageVars
    <3>2. ASSUME NEW t, Txt!opcode_2605(t) PROVE UNCHANGED Txt!messageVars
      BY <3>2 DEF Txt!opcode_2605, Txt!textsVars
    <3>3. ASSUME NEW lb, Txt!opcode_0ADE(lb) \/ Txt!HOOK_CTextGet(lb) PROVE UNCHANGED Txt!messageVars
      BY <3>3 DEF Txt!opcode_0ADE, Txt!HOOK_CTextGet, Txt!textsVars
    <3>4. Txt!OnGameProcessBefore => UNCHANGED Txt!messageVars  BY DEF Txt!OnGameProcessBefore
    <3> QED
      BY <2>1, <2>2, <3>1, <3>2, <3>3, <3>4 DEF Txt!LabelsNext, Txt!opcode_0ADF, Txt!opcode_2609, Txt!opcode_0AE0,
         Txt!opcode_2606, Txt!opcode_2607
  <2>3. CASE Txt!MessagesNext
    <3>1. ASSUME NEW t \in Message, NEW legacy \in BOOLEAN, Txt!opcode_0ACA(t, legacy) \/ Txt!opcode_0ACE(t, legacy)
          PROVE  MessagesInv'
      BY <3>1, HelpKeepsMessages DEF Txt!opcode_0ACA, Txt!opcode_0ACE
    <3>2. ASSUME NEW t \in Message, NEW now \in BOOLEAN, NEW legacy \in BOOLEAN, Txt!Display(t, now, legacy)
          PROVE  MessagesInv'
      <4>1. CASE Txt!AddToMessageQueue(t, now, legacy)  BY <4>1, AddKeepsMessages
      <4>2. CASE Txt!NotDisplayed(t, now, legacy)
        <5>1. RingsOK'  BY <4>2 DEF MessagesInv, RingsOK, Txt!NotDisplayed, Txt!ringVars
        <5> QED  BY <4>2, <5>1 DEF MessagesInv, Txt!NotDisplayed, Txt!ringVars
      <4> QED  BY <3>2, <4>1, <4>2 DEF Txt!Display
    <3>3. CASE Txt!MessageEnds  BY <3>3, EndKeepsMessages
    <3>4. CASE Txt!NoBriefForNext \/ \E shown \in BOOLEAN : Txt!Subtitles(shown)
      <4>1. RingsOK'  BY <3>4 DEF MessagesInv, RingsOK, Txt!NoBriefForNext, Txt!Subtitles, Txt!ringVars
      <4> QED  BY <3>4, <4>1 DEF MessagesInv, Txt!NoBriefForNext, Txt!Subtitles, Txt!ringVars
    <3>5. CASE \E t \in Message, legacy \in BOOLEAN :
                 \/ Txt!opcode_0ACC(t, legacy) \/ Txt!opcode_0ACD(t, legacy)
                 \/ Txt!opcode_0AD0(t, legacy) \/ Txt!opcode_0AD1(t, legacy)
      BY <3>5, <3>2 DEF Txt!opcode_0ACC, Txt!opcode_0ACD, Txt!opcode_0AD0, Txt!opcode_0AD1
    <3> QED  BY <2>3, <3>1, <3>3, <3>4, <3>5 DEF Txt!MessagesNext
  <2>4. CASE (\E file \in FxtFile : Txt!LoadFxts(file)) \/ Txt!Clear \/ Txt!OnGameProcessBefore
    BY <2>1, <2>4 DEF Txt!LoadFxts, Txt!Become, Txt!Clear, Txt!OnGameProcessBefore
  <2>5. CASE UNCHANGED textsVars  BY <2>1, <2>5 DEF textsVars, Txt!messageVars, Txt!ringVars, Txt!gameVars
  <2>6. CASE UNCHANGED vars  BY <2>5, <2>6 DEF vars
  <2> QED  BY <2>2, <2>3, <2>4, <2>5, <2>6, CodeChanges DEF TextsChange
<1> QED  BY <1>1, <1>2, PTL DEF Spec

LEMMA MessagesShowTheirTexts == MessagesInv => Txt!MessagesKeepText
<1> SUFFICES ASSUME MessagesInv PROVE Txt!MessagesKeepText  OBVIOUS
<1>1. ASSUME NEW i \in 1..Len(PreviousBriefs)
      PROVE  Txt!Content(PreviousBriefs[i].slot) = PreviousBriefs[i].text
  BY <1>1 DEF MessagesInv, BriefList, Txt!Content
<1>2. ASSUME NEW i \in 1..Len(BriefMessages), BriefMessages[i].passed < i, BriefMessages[i].prepared < BriefSize
      PROVE  Txt!Content(BriefMessages[i].slot) = BriefMessages[i].text
  <2> DEFINE m == BriefMessages[i]
  <2>1. /\ EntryOK(m) /\ BriefShows(m, briefs, briefIdx)
        /\ MessageShows(m, i, Len(BriefMessages), messageQueue, queueIdx)
    BY DEF MessagesInv, Queue
  <2> QED  BY <1>2, <2>1, EntryIs DEF EntryOK, BriefShows, MessageShows, Txt!Content
<1> QED  BY <1>1, <1>2 DEF Txt!MessagesKeepText

\* Pointers into what CLEO keeps stay good: those of scripts into modules stay those of the module
\* as it was loaded, whatever is loaded again (CModuleSystem), a brief of the game's menu never
\* turns into another text although its place in the ring is written again, a waiting message
\* shows its text unless enough others were put before it, and a line drawn with a label made
\* for it shows its own text until the frame is over (Text plugin).
THEOREM PointersStayGoodHolds == Spec => []PointersStayGood
<1>1. LabelsInv /\ MessagesInv /\ Mod!RefsStayValid => PointersStayGood
  BY LinesShowTheirTexts, MessagesShowTheirTexts DEF PointersStayGood
<1> QED  BY <1>1, LabelsInvHolds, MessagesInvHolds, RefsStayValid, PTL

----------------------------------------------------------------------------
(* Types *)

LEMMA TypesHold == Spec => []Types
<1>1. Init => Types  BY DEF Init, Types
<1>2. Types /\ [Next]_vars => Types'
  <2> SUFFICES ASSUME Types, [Next]_vars PROVE Types'  OBVIOUS
  <2> DEFINE own == <<m_isStarted, m_bGameInProgress, saveSlot, scriptsLoaded, m_bWantToLoad, m_nSelectedSaveGame>>
  <2>1. CASE UNCHANGED sessionVars  BY <2>1 DEF Types, sessionVars, choiceVars
  <2>2. CASE Start  BY <2>2 DEF Types, Start, choiceVars
  <2>3. CASE OnScmInit1 \/ OnScmInit2 \/ OnScmInit3
    BY <2>3 DEF Types, OnScmInit1, OnScmInit2, OnScmInit3, GameBegin, NoBegin
  <2>4. CASE OnGameEnds \/ Stop  BY <2>4 DEF Types, OnGameEnds, Stop, GameEnd, ScriptsEnd
  <2>5. CASE ProcessScript  BY <2>5 DEF Types, ProcessScript, choiceVars
  <2>6. CASE NewGame \/ (\E slot \in SaveSlot : LoadGame(slot)) \/ (\E shutdown \in BOOLEAN : Exit(shutdown))
    BY <2>6 DEF Types, NewGame, LoadGame, Exit, Chooses
  <2>7. PartsNext => UNCHANGED sessionVars
    BY DEF PartsNext, SettingsStep, InstallPlugins, LoadPlugins, FindExports, OnlyPlugins, InstallModule, ModulesStep,
       MemoryStep, FilesStep, LabelsStep, MessagesStep, ParamsStep, CallsStep, KeysStep, EntitiesStep, OnlyTexts,
       OnlyCode
  <2>8. UNCHANGED vars => UNCHANGED sessionVars  BY DEF vars
  <2> QED  BY <2>1, <2>2, <2>3, <2>4, <2>5, <2>6, <2>7, <2>8 DEF Next, SessionNext
<1> QED  BY <1>1, <1>2, PTL DEF Spec

LEMMA SettingsTypesHold == Spec => []Cfg!SettingsTypeOK
<1> DEFINE Inv == differs \subseteq Setting
<1>1. Init => Inv  BY DEF Init, Cfg!SettingsInit
<1>2. Inv /\ [Next]_vars => Inv'
  <2> SUFFICES ASSUME Inv, [Next]_vars PROVE Inv'  OBVIOUS
  <2>1. Cfg!SettingsNext => Inv'
    BY DEF Cfg!SettingsNext, Cfg!ReadString, Cfg!WriteString, Cfg!WriteCutOff, Cfg!WriteFails, Cfg!Reports,
           Cfg!WriteSame, Cfg!Edit
  <2>2. (\E load \in Cfg!FilesAfterFresh : Cfg!Reset(load)) => Inv'  BY DEF Cfg!Reset
  <2>3. UNCHANGED settingsVars \/ UNCHANGED vars => Inv'  BY DEF settingsVars, vars, setupVars
  <2> QED  BY <2>1, <2>2, <2>3, StepChanges DEF SettingsChange
<1>3. Inv /\ SettingsInv => Cfg!SettingsTypeOK  BY DEF SettingsInv, Cfg!SettingsTypeOK
<1> QED  BY <1>1, <1>2, <1>3, SettingsInvHolds, PTL DEF Spec

LEMMA CardinalityOfPlugins == \A S : Plg!Cardinality(S) = Cardinality(S)
BY DEF Plg!Cardinality, Cardinality

\* The files are not more than may be installed, and what is kept of them is of their kinds.
FilesOfPlugins ==
  /\ IsFiniteSet(files) /\ Cardinality(files) <= MaxPlugins /\ skippedPaths \subseteq files /\ foreign \subseteq Opcode
  /\ customOpcodeProc \in [Opcode -> Plg!File \cup {Core}]
  /\ exportsCache \in [Opcode -> Plg!File \cup {Core, Null, Other}]

LEMMA ExportIsTyped ==
  ASSUME ListInv, NEW op \in Opcode
  PROVE  Plg!ExportOf(op) \in Plg!File \cup {Core, Null, Other}
<1> DEFINE own == {i \in 1..Len(plugins) : op \in opcodesOf[plugins[i]]}
<1>1. plugins \in Seq(files) /\ files \subseteq Plg!File  BY DEF ListInv
<1>2. Plg!ExportOf(op) = IF own # {} THEN plugins[Plg!Min(own)] ELSE IF op \in foreign THEN Other ELSE Null
  BY DEF Plg!ExportOf
<1>3. CASE own # {}
  <2>1. own \subseteq Nat /\ own \subseteq 1..Len(plugins)  OBVIOUS
  <2> HIDE DEF own
  <2>2. PICK n \in own : \A m \in own : n <= m  BY <1>3, <2>1, LeastNatural
  <2>3. Plg!Min(own) \in own  BY <2>2 DEF Plg!Min
  <2>4. \A i \in 1..Len(plugins) : plugins[i] \in Plg!File  BY <1>1
  <2>5. plugins[Plg!Min(own)] \in Plg!File  BY <2>1, <2>3, <2>4
  <2> QED  BY <1>2, <1>3, <2>5
<1>4. CASE own = {}  BY <1>2, <1>4
<1> QED  BY <1>3, <1>4

LEMMA FilesOfPluginsHold == Spec => []FilesOfPlugins
<1>1. Init => FilesOfPlugins
  <2> SUFFICES ASSUME Init PROVE FilesOfPlugins  OBVIOUS
  <2>1. /\ files = {} /\ skippedPaths = {} /\ foreign = {}
        /\ customOpcodeProc = [op \in Opcode |-> Core] /\ exportsCache = [op \in Opcode |-> Core]
    BY DEF Init, Plg!PluginsInit
  <2>2. IsFiniteSet({}) /\ Cardinality({}) = 0 /\ MaxPlugins \in Nat
    BY FS_EmptySet, SessionAssumption DEF Plg!PluginsAssumption
  <2> QED  BY <2>1, <2>2 DEF FilesOfPlugins
<1> USE DEF Plg!fileVars, Plg!listVars
<1>2. FilesOfPlugins /\ PluginsInv /\ [Next]_vars => FilesOfPlugins'
  <2> SUFFICES ASSUME FilesOfPlugins, PluginsInv, [Next]_vars PROVE FilesOfPlugins'  OBVIOUS
  <2>0. ListInv  BY DEF PluginsInv
  <2>1. CASE UNCHANGED <<files, skippedPaths, foreign, customOpcodeProc, exportsCache>>
    BY <2>1 DEF FilesOfPlugins
  <2>2. ASSUME NEW f \in Plg!File, NEW ops \in SUBSET Opcode, NEW listed \in BOOLEAN,
               Plg!InstallPlugin(f, ops, listed)
        PROVE  FilesOfPlugins'
    <3>1. /\ f \notin files /\ Cardinality(files) < MaxPlugins /\ files' = files \cup {f}
          /\ UNCHANGED <<skippedPaths, foreign, customOpcodeProc, exportsCache>>
      BY <2>2, CardinalityOfPlugins DEF Plg!InstallPlugin
    <3>2. IsFiniteSet(files) /\ Cardinality(files) \in Nat  BY FS_CardinalityType DEF FilesOfPlugins
    <3>3. IsFiniteSet(files') /\ Cardinality(files') = Cardinality(files) + 1  BY <3>1, <3>2, FS_AddElement
    <3>4. Cardinality(files') <= MaxPlugins
      BY <3>1, <3>2, <3>3, SessionAssumption DEF Plg!PluginsAssumption
    <3> QED  BY <3>1, <3>3, <3>4 DEF FilesOfPlugins
  <2>3. ASSUME NEW f \in Plg!File, Plg!ListFile(f) PROVE FilesOfPlugins'
    <3>1. f \in files  BY <2>3 DEF Plg!ListFile, Plg!Candidate, Plg!Found
    <3> QED  BY <2>3, <3>1 DEF FilesOfPlugins, Plg!ListFile
  <2>4. ASSUME NEW ok \in BOOLEAN, Plg!LoadPlugin(ok) PROVE FilesOfPlugins'
    <3>1. paths # <<>> /\ paths \in Seq(files) /\ files \subseteq Plg!File  BY <2>0, <2>4 DEF Plg!LoadPlugin, ListInv
    <3>2. Plg!Last(paths) \in Plg!File
      <4>1. Len(paths) \in 1..Len(paths)  BY <3>1
      <4> QED  BY <3>1, <4>1 DEF Plg!Last
    <3>3. /\ UNCHANGED <<files, skippedPaths, foreign, exportsCache>>
          /\ customOpcodeProc' = customOpcodeProc \/ customOpcodeProc' = Plg!Registered(Plg!Last(paths))
      BY <2>4 DEF Plg!LoadPlugin
    <3>4. Plg!Registered(Plg!Last(paths)) \in [Opcode -> Plg!File \cup {Core}]
      BY <3>2 DEF Plg!Registered, FilesOfPlugins
    <3> QED  BY <3>3, <3>4 DEF FilesOfPlugins
  <2>5. CASE Plg!ListStart \/ Plg!ScanEnd \/ Plg!LoadEnd
    BY <2>5 DEF FilesOfPlugins, Plg!ListStart, Plg!ScanEnd, Plg!LoadEnd
  <2>6. CASE Plg!UnloadPlugins  BY <2>6 DEF FilesOfPlugins, Plg!UnloadPlugins
  <2>7. CASE \E ops \in SUBSET Opcode : Plg!LoadForeign(ops)  BY <2>7 DEF FilesOfPlugins, Plg!LoadForeign
  <2>8. ASSUME NEW op \in Opcode, Plg!FindPluginExport(op) PROVE FilesOfPlugins'
    BY <2>0, <2>8, ExportIsTyped DEF FilesOfPlugins, Plg!FindPluginExport
  <2>9. CASE UNCHANGED pluginsVars \/ UNCHANGED vars  BY <2>1, <2>9 DEF pluginsVars, vars, setupVars
  <2> QED
    BY <2>2, <2>3, <2>4, <2>5, <2>6, <2>7, <2>8, <2>9, StepChanges
    DEF PluginsChange, Plg!InstallNext, Plg!LoadNext, Plg!ExportsNext
<1> QED  BY <1>1, <1>2, PluginsInvHolds, PTL DEF Spec

LEMMA PluginsTypesHold == Spec => []Plg!PluginsTypeOK
<1>1. FilesOfPlugins /\ PluginsInv => Plg!PluginsTypeOK
  BY CardinalityOfPlugins DEF FilesOfPlugins, PluginsInv, ListInv, Plg!PluginsTypeOK, Plg!ToSet
<1> QED  BY <1>1, FilesOfPluginsHold, PluginsInvHolds, PTL

LEMMA ModulesTypesHold == Spec => []Mod!ModulesTypeOK
<1> USE DEF Mod!Known
<1>1. Init => Mod!ModulesTypeOK
  BY SessionAssumption DEF Init, Mod!ModulesInit, Mod!ModulesTypeOK, Mod!ModulesAssumption
<1>2. Mod!ModulesTypeOK /\ [Next]_vars => Mod!ModulesTypeOK'
  <2> SUFFICES ASSUME Mod!ModulesTypeOK, [Next]_vars PROVE Mod!ModulesTypeOK'  OBVIOUS
  <2>0. /\ MaxLoads \in Nat /\ loads \in 0..MaxLoads /\ headers \in [ModuleFile -> SUBSET Export]
        /\ modules \in [DOMAIN modules -> Mod!CModule] /\ DOMAIN modules \subseteq ModuleFile
    BY SessionAssumption DEF Mod!ModulesTypeOK, Mod!ModulesAssumption
  <2>1. CASE UNCHANGED modulesVars  BY <2>1 DEF modulesVars, Mod!ModulesTypeOK
  <2>2. ASSUME NEW F, F \subseteq ModuleFile, Mod!LoadFile(F)
        PROVE  /\ loads' \in 0..MaxLoads /\ DOMAIN modules' \subseteq ModuleFile
               /\ modules' \in [DOMAIN modules' -> Mod!CModule]
    <3>1. loads' \in 0..MaxLoads  BY <2>0, <2>2 DEF Mod!LoadFile
    <3>2. ASSUME NEW f \in F PROVE Mod!LoadFromFile(f, loads + 1) \in Mod!CModule
      <4>1. f \in ModuleFile /\ Mod!ExportsIn(f) \in SUBSET Export  BY <2>0, <2>2 DEF Mod!ExportsIn
      <4>2. Mod!Readable(f) => loads + 1 \in 0..MaxLoads  BY <2>0, <2>2 DEF Mod!LoadFile
      <4>3. (IF Mod!Readable(f) THEN loads + 1 ELSE 0) \in 0..MaxLoads  BY <2>0, <4>2
      <4> QED  BY <4>1, <4>3 DEF Mod!LoadFromFile, Mod!CModule
    <3>3. modules' = [f \in DOMAIN modules \cup F |->
                        IF f \in F THEN Mod!LoadFromFile(f, loads + 1) ELSE modules[f]]
      BY <2>2 DEF Mod!LoadFile, Mod!Loaded
    <3>4. modules' \in [DOMAIN modules \cup F -> Mod!CModule]  BY <2>0, <3>2, <3>3
    <3> QED  BY <2>0, <2>2, <3>1, <3>4
  <2>3. CASE Mod!ModuleFilesNext
    BY <2>3 DEF Mod!ModuleFilesNext, Mod!Install, Mod!ModulesTypeOK
  <2>4. CASE Mod!ModulesNext
    <3>1. PICK f \in ModuleFile, e \in Export : Mod!GetExport(f, e)  BY <2>4 DEF Mod!ModulesNext
    <3>2. /\ UNCHANGED <<disk, headers>> /\ refs' = refs \cup Mod!RefOf(modules', f, e)
          /\ UNCHANGED <<modules, loads>> \/ Mod!LoadFile({f})
      BY <3>1 DEF Mod!GetExport
    <3>3. /\ loads' \in 0..MaxLoads /\ DOMAIN modules' \subseteq ModuleFile
          /\ modules' \in [DOMAIN modules' -> Mod!CModule]
      <4>1. {f} \subseteq ModuleFile  OBVIOUS
      <4> QED  BY <2>0, <2>2, <3>2, <4>1
    <3>4. Mod!RefOf(modules', f, e) \subseteq [file : ModuleFile, data : 1..MaxLoads]
      <4> SUFFICES ASSUME f \in DOMAIN modules', modules'[f].data # 0
                   PROVE  [file |-> f, data |-> modules'[f].data] \in [file : ModuleFile, data : 1..MaxLoads]
        BY DEF Mod!RefOf
      <4>1. modules'[f] \in Mod!CModule  BY <3>3
      <4>2. modules'[f].data \in 0..MaxLoads  BY <4>1 DEF Mod!CModule
      <4> QED  BY <2>0, <4>2
    <3> QED  BY <3>2, <3>3, <3>4 DEF Mod!ModulesTypeOK
  <2>5. CASE Mod!LoadCleoModules
    <3>1. {f \in CleoModule : disk[f] # "missing"} \subseteq ModuleFile
      BY SessionAssumption DEF Mod!ModulesAssumption
    <3> QED  BY <2>2, <2>5, <3>1 DEF Mod!LoadCleoModules, Mod!ModulesTypeOK
  <2>6. CASE Mod!Clear  BY <2>6 DEF Mod!Clear, Mod!ModulesTypeOK
  <2>7. CASE UNCHANGED vars  BY <2>1, <2>7 DEF vars, tableVars
  <2> QED  BY <2>1, <2>3, <2>4, <2>5, <2>6, <2>7, StepChanges DEF ModulesChange
<1> QED  BY <1>1, <1>2, PTL DEF Spec

LEMMA FilesTypesHold == Spec => []Fil!FilesTypeOK
<1> DEFINE Inv == searches \subseteq Search /\ m_hFileSearches \subseteq searches
<1>1. Init => Inv  BY DEF Init, Fil!FilesInit
<1>2. Inv /\ [Next]_vars => Inv'
  <2> SUFFICES ASSUME Inv, [Next]_vars PROVE Inv'  OBVIOUS
  <2>1. CASE UNCHANGED <<searches, m_hFileSearches>>  BY <2>1
  <2>2. ASSUME NEW x \in Search,
               Fil!Script_FS_FindFirstFile(x) \/ Fil!Script_FS_FindNextFile(x) \/ Fil!Script_FS_FindClose(x)
        PROVE  Inv'
    BY <2>2 DEF Fil!Script_FS_FindFirstFile, Fil!Script_FS_FindNextFile, Fil!Script_FS_FindClose, Fil!filesVars
  <2>3. ASSUME NEW X \in SUBSET Search, Fil!Script_FS_DeleteDirectory(X) PROVE Inv'
    BY <2>3 DEF Fil!Script_FS_DeleteDirectory, Fil!DeleteDir
  <2>4. ASSUME NEW f, NEW legacy, NEW m, Fil!opcode_0A9A(f, legacy, m) PROVE Inv'  BY <2>1, <2>4 DEF Fil!opcode_0A9A
  <2>5. ASSUME NEW h, Fil!opcode_0A9B(h) \/ Fil!opcode_0AD6(h) PROVE Inv'
    BY <2>1, <2>5 DEF Fil!opcode_0A9B, Fil!opcode_0AD6, Fil!filesVars
  <2>6. ASSUME NEW h, NEW g, Fil!Become(h, g) PROVE Inv'  BY <2>1, <2>6 DEF Fil!Become
  <2>7. ASSUME NEW h, NEW o, NEW failed,
               \/ Fil!opcode_0A9C(h, failed) \/ Fil!opcode_0AD5(h, failed) \/ Fil!opcode_2300(h)
               \/ Fil!opcode_0A9D(h, o) \/ Fil!opcode_2301(h, o) \/ Fil!opcode_0AD7(h, o) \/ Fil!opcode_0ADA(h, o, failed)
        PROVE  Inv'
    BY <2>6, <2>7 DEF Fil!opcode_0A9C, Fil!opcode_0AD5, Fil!opcode_2300, Fil!opcode_0A9D, Fil!opcode_2301,
       Fil!opcode_0AD7, Fil!opcode_0ADA
  <2>8. ASSUME NEW h, NEW o, NEW failed,
               \/ Fil!opcode_0A9E(h, o, failed) \/ Fil!opcode_2302(h, o, failed)
               \/ Fil!opcode_0AD8(h, o, failed) \/ Fil!opcode_0AD9(h, o, failed)
        PROVE  Inv'
    BY <2>6, <2>8 DEF Fil!opcode_0A9E, Fil!opcode_2302, Fil!opcode_0AD8, Fil!opcode_0AD9, Fil!WriteText
  <2>9. CASE Fil!FilesNext
    <3> HIDE DEF Inv
    <3> QED  BY <2>2, <2>3, <2>4, <2>5, <2>7, <2>8, <2>9 DEF Fil!FilesNext
  <2>10. CASE Fil!OnFinalizeScriptObjects  BY <2>10 DEF Fil!OnFinalizeScriptObjects
  <2>11. CASE UNCHANGED filesVars \/ UNCHANGED vars  BY <2>1, <2>11 DEF filesVars, vars, tableVars
  <2> QED  BY <2>9, <2>10, <2>11, StepChanges DEF FilesChange
<1>3. Inv /\ FilesInv => Fil!FilesTypeOK  BY DEF FilesInv, Settled, OpenStream, Fil!FilesTypeOK
<1> QED  BY <1>1, <1>2, <1>3, FilesInvHolds, PTL DEF Spec

LEMMA EntitiesTypesHold == Spec => []Ent!EntitiesTypeOK
<1> DEFINE Inv == /\ pool = [p \in Ent!Pool |-> pool[p]]
                  /\ \A p \in Ent!Pool : /\ pool[p] \in [Ent!Place -> Ent!EntityOf(p)]
                                         /\ DOMAIN searchState[p] \subseteq Searcher
<1>1. Init => Inv
  BY DEF Init, Ent!EntitiesInit, Ent!NoSearch, Ent!Nothing, Ent!EntityOf, Ent!Entity
<1>2. Inv /\ EntitiesInv /\ [Next]_vars => Inv'
  <2> SUFFICES ASSUME Inv, EntitiesInv, [Next]_vars PROVE Inv'  OBVIOUS
  <2>1. ASSUME NEW p \in Ent!Pool, NEW s \in Searcher, NEW findNext, NEW fits, Ent!SearchPool(p, s, findNext, fits)
        PROVE  Inv'
    <3>1. pool' = pool /\ \E i : searchState' = Ent!Put(searchState, p, s, i)  BY <2>1 DEF Ent!SearchPool
    <3>2. PICK i : searchState' = Ent!Put(searchState, p, s, i)  BY <3>1
    <3>3. searchState = [q \in Ent!Pool |-> searchState[q]]  BY DEF EntitiesInv
    <3>4. \A q \in Ent!Pool : DOMAIN searchState'[q] \subseteq Searcher  BY <3>2, <3>3 DEF Ent!Put
    <3> QED  BY <3>1, <3>4
  <2>2. ASSUME NEW p \in Ent!Pool, NEW i \in Ent!Place, NEW what \in Ent!EntityOf(p), Ent!Change(p, i, what)
        PROVE  Inv'
    <3>1. searchState' = searchState /\ pool' = [pool EXCEPT ![p] = [pool[p] EXCEPT ![i] = what]]
      BY <2>2 DEF Ent!Change
    <3>2. [pool[p] EXCEPT ![i] = what] \in [Ent!Place -> Ent!EntityOf(p)]  OBVIOUS
    <3> QED  BY <3>1, <3>2
  <2>3. ASSUME NEW p \in Ent!Pool, Ent!EntitiesNext(p) PROVE Inv'
    <3> HIDE DEF Inv
    <3> QED
      BY <2>1, <2>2, <2>3 DEF Ent!EntitiesNext, Ent!opcode_0AE1, Ent!opcode_0AE2, Ent!opcode_0AE3
  <2>4. CASE Ent!OnScriptsFinalize  BY <2>4 DEF Ent!OnScriptsFinalize, Ent!NoSearch, Ent!Nothing
  <2>5. CASE UNCHANGED entitiesVars \/ UNCHANGED vars  BY <2>5 DEF entitiesVars, vars, tableVars
  <2> QED  BY <2>3, <2>4, <2>5, StepChanges DEF EntitiesChange
<1>3. Inv /\ EntitiesInv => Ent!EntitiesTypeOK  BY DEF EntitiesInv, WalkInv, Ent!EntitiesTypeOK, Ent!Place
<1> QED  BY <1>1, <1>2, <1>3, EntitiesInvHolds, PTL DEF Spec

LEMMA KeysTypesHold == Spec => []Inp!KeysTypeOK
<1> USE DEF Inp!checkVars, Inp!systemVars
<1>1. Init => Inp!KeysTypeOK
  <2> SUFFICES ASSUME Init PROVE Inp!KeysTypeOK  OBVIOUS
  <2>1. Inp!KeysInit /\ CheatLength \in Nat  BY SessionAssumption DEF Init, Inp!KeysAssumption
  <2>2. down \in [Key -> 0..2]  BY <2>1 DEF Inp!KeysInit
  <2>3. /\ keyStatesCurr = {} /\ keyStatesPrev = {} /\ keyboard = {} /\ events = <<>> /\ foreground = TRUE
        /\ menu = FALSE /\ m_CheatString = <<>>
    BY <2>1 DEF Inp!KeysInit
  <2>4. \A S : <<>> \in Seq(S) /\ Len(<<>>) = 0  OBVIOUS
  <2>5. events \in Seq([key : Key, down : BOOLEAN]) /\ m_CheatString \in Seq(Key) /\ Len(m_CheatString) <= CheatLength
    BY <2>1, <2>3, <2>4
  <2> QED  BY <2>2, <2>3, <2>5 DEF Inp!KeysTypeOK
<1>2. Inp!KeysTypeOK /\ KeysInv' /\ [Next]_vars => Inp!KeysTypeOK'
  <2> SUFFICES ASSUME Inp!KeysTypeOK, KeysInv', [Next]_vars PROVE Inp!KeysTypeOK'  OBVIOUS
  <2>0. down' \in [Key -> 0..2] /\ CheatLength \in Nat  BY SessionAssumption DEF KeysInv, Inp!KeysAssumption
  <2>1. CASE UNCHANGED <<keyStatesCurr, keyStatesPrev, keyboard, events, foreground, menu, m_CheatString>>
    BY <2>0, <2>1 DEF Inp!KeysTypeOK
  <2>2. CASE Inp!CheckKeyboard
    BY <2>0, <2>2 DEF Inp!CheckKeyboard, Inp!Previous, Inp!KeysTypeOK
  <2>3. ASSUME NEW asked, NEW K, NEW found, Inp!Answer(asked, K, found) PROVE Inp!KeysTypeOK'
    BY <2>1, <2>3 DEF Inp!Answer
  <2>4. ASSUME NEW k \in Key, NEW isDown \in BOOLEAN, Inp!SendKeyEvent(k, isDown) PROVE Inp!KeysTypeOK'
    BY <2>0, <2>4 DEF Inp!SendKeyEvent, Inp!KeysTypeOK
  <2>5. CASE \E cheat \in Cheat : Inp!opcode_0ADC(cheat)
    BY <2>0, <2>5 DEF Inp!opcode_0ADC, Inp!KeysTypeOK
  <2>6. CASE Inp!TakeEvent
    <3> DEFINE e == Head(events)
               typed == <<e.key>> \o m_CheatString
               n == IF Len(m_CheatString) < CheatLength THEN Len(m_CheatString) + 1 ELSE CheatLength
    <3>1. events # <<>> /\ events \in Seq([key : Key, down : BOOLEAN]) /\ m_CheatString \in Seq(Key)
          /\ Len(m_CheatString) <= CheatLength
      BY <2>6 DEF Inp!TakeEvent, Inp!KeysTypeOK
    <3>2. e \in [key : Key, down : BOOLEAN] /\ Tail(events) \in Seq([key : Key, down : BOOLEAN])
      <4> DEFINE E == [key : Key, down : BOOLEAN]
      <4> HIDE DEF E
      <4>1. \A s \in Seq(E) : s # <<>> => Head(s) \in E /\ Tail(s) \in Seq(E)  OBVIOUS
      <4> QED  BY <3>1, <4>1 DEF E
    <3>3. e.key \in Key  BY <3>2
    <3>4. /\ events' = Tail(events) /\ keyboard' \subseteq keyboard \cup {e.key}
          /\ m_CheatString' = m_CheatString \/ m_CheatString' = SubSeq(typed, 1, n)
          /\ UNCHANGED <<keyStatesCurr, keyStatesPrev, foreground, menu>>
      BY <2>6 DEF Inp!TakeEvent
    <3> HIDE DEF e
    <3>5. typed \in Seq(Key) /\ Len(typed) = Len(m_CheatString) + 1  BY <3>1, <3>3
    <3> HIDE DEF typed
    <3>6. n \in 0..Len(typed) /\ n <= CheatLength  BY <2>0, <3>1, <3>5
    <3> HIDE DEF n
    <3>7. SubSeq(typed, 1, n) \in Seq(Key) /\ Len(SubSeq(typed, 1, n)) = n  BY <3>5, <3>6
    <3> QED  BY <2>0, <3>2, <3>3, <3>4, <3>6, <3>7 DEF Inp!KeysTypeOK
  <2>7. CASE \E w \in BOOLEAN : Inp!Window(w) \/ Inp!Menu(w)
    BY <2>0, <2>7 DEF Inp!Window, Inp!Menu, Inp!KeysTypeOK
  <2>8. CASE Inp!KeysNext
    BY <2>2, <2>3, <2>4, <2>5, <2>6, <2>7, <2>8
    DEF Inp!KeysNext, Inp!OnGameProcessBefore, Inp!OnDrawingFinished, Inp!opcode_0AB0, Inp!opcode_2080,
        Inp!opcode_2081, Inp!opcode_2082, Inp!opcode_2083, Inp!opcode_2084, Inp!UserEvent
  <2>9. CASE UNCHANGED keysVars \/ UNCHANGED vars  BY <2>1, <2>9 DEF keysVars, vars, codeVars
  <2> QED  BY <2>8, <2>9, StepChanges DEF KeysChange
<1> QED  BY <1>1, <1>2, KeysInvHolds, PTL DEF Spec

LEMMA TextsTypesHold == Spec => []Txt!TextsTypeOK
<1>1. LabelsInv /\ MessagesInv => Txt!TextsTypeOK
  BY TablesAreFunctions DEF LabelsInv, MessagesInv, RingsOK, BriefList, Queue, Names, Txt!TextsTypeOK
<1> QED  BY <1>1, LabelsInvHolds, MessagesInvHolds, PTL

\* Every variable of every part keeps its type, for constants of any size: what is installed,
\* listed and loaded stays what was installed, handles and searches are those of open files and
\* directories, each label, message and brief has its place, and the texts of cheats and the
\* queues of messages do not grow beyond their bounds.
THEOREM ComponentsTypeOKHolds == Spec => []ComponentsTypeOK
<1>1. ChargesInv => Mem!MemoryTypeOK  BY DEF ChargesInv
<1>2. ParamsInv => Par!ParamsTypeOK  BY DEF ParamsInv
<1>3. CallsInv => Cal!CallsTypeOK  BY DEF CallsInv
<1> QED
  BY <1>1, <1>2, <1>3, TypesHold, SettingsTypesHold, PluginsTypesHold, ModulesTypesHold, FilesTypesHold,
     EntitiesTypesHold, KeysTypesHold, TextsTypesHold, ChargesInvHolds, ParamsInvHolds, CallsInvHolds, PTL
     DEF ComponentsTypeOK
=============================================================================
