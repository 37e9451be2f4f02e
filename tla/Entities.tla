------------------------------ MODULE Entities ------------------------------
(***************************************************************************)
(* GameEntities: searches of scripts through the pools of the game, one    *)
(* entity a call.  Between two calls the game creates and removes          *)
(* entities, and other scripts search too.                                 *)
(*                                                                         *)
(* Abstractions.  Of an entity only what the filters ask is kept; one out  *)
(* of the radius of the search is like one that fades out.                 *)
(***************************************************************************)
EXTENDS Integers, FiniteSets, FiniteSetsExt

CONSTANTS
  Searcher,  \* structures of scripts that search
  PoolSize

EntitiesAssumption == PoolSize \in Nat

VARIABLES
  pool,        \* what is at each place of each pool
  searchState, \* of each pool: where the next search of a script starts
  walks        \* auxiliary: what each script still has to find in its walk, and whether it is over

entitiesVars == <<pool, searchState, walks>>

----------------------------------------------------------------------------
Pool == {"char", "car", "object"}
Place == 1..PoolSize
Entity == {"none", "gone", "player", "dead", "usual"}
EntityOf(p) == IF p = "char" THEN Entity ELSE Entity \ {"player"}

Nothing == [s \in {} |-> 0]
NoSearch == [p \in Pool |-> Nothing]

SearchIdx(p, s, findNext) == IF findNext /\ s \in DOMAIN searchState[p] THEN searchState[p][s] ELSE 0

\* A walk has to find what fits all along.
WalkOf(p, s, findNext, fits) ==
  IF SearchIdx(p, s, findNext) = 0 \/ s \notin DOMAIN walks[p]
  THEN [missing |-> fits, over |-> FALSE]
  ELSE [walks[p][s] EXCEPT !.missing = @ \cap fits]

Put(f, p, s, v) == [f EXCEPT ![p] = [x \in DOMAIN @ \cup {s} |-> IF x = s THEN v ELSE @[x]]]

\* Variant: the next search starts one place behind the one that follows.
SkipsOne(i) == IF i < PoolSize THEN i + 1 ELSE i

NextStart(i) == i

\* From there to the end of the pool: the first that fits, or none and the search starts anew.
SearchPool(p, s, findNext, fits) ==
  LET candidates == {i \in fits : i > SearchIdx(p, s, findNext)}
      walk == WalkOf(p, s, findNext, fits)
  IN  /\ IF candidates # {}
         THEN /\ searchState' = Put(searchState, p, s, NextStart(Min(candidates)))
              /\ walks' = Put(walks, p, s, [walk EXCEPT !.missing = @ \ {Min(candidates)}])
         ELSE /\ searchState' = Put(searchState, p, s, 0)
              /\ walks' = Put(walks, p, s, [walk EXCEPT !.over = TRUE])
      /\ UNCHANGED pool

\* get_random_char_in_sphere_no_save_recursive
opcode_0AE1(s, findNext, filter) ==
  LET skip == {"none", "gone"} \cup (IF filter = 1 THEN {"dead"} ELSE {})
                               \cup (IF filter # -1 THEN {"player"} ELSE {})
  IN  SearchPool("char", s, findNext, {i \in Place : pool["char"][i] \notin skip})

\* get_random_car_in_sphere_no_save_recursive
opcode_0AE2(s, findNext, skipWrecked) ==
  LET skip == {"none", "gone"} \cup (IF skipWrecked THEN {"dead"} ELSE {})
  IN  SearchPool("car", s, findNext, {i \in Place : pool["car"][i] \notin skip})

\* get_random_object_in_sphere_no_save_recursive
opcode_0AE3(s, findNext) ==
  SearchPool("object", s, findNext, {i \in Place : pool["object"][i] \notin {"none", "gone"}})

\* What changes need not be found in a walk that is not over.
Excuse(walk, i) == IF walk.over THEN walk ELSE [walk EXCEPT !.missing = @ \ {i}]

\* The game creates, moves, kills or removes what is at a place.
Change(p, i, what) ==
  /\ pool' = [pool EXCEPT ![p][i] = what]
  /\ walks' = [walks EXCEPT ![p] = [s \in DOMAIN @ |-> Excuse(@[s], i)]]
  /\ UNCHANGED searchState

OnScriptsFinalize ==
  /\ searchState' = NoSearch /\ walks' = NoSearch
  /\ UNCHANGED pool

----------------------------------------------------------------------------
EntitiesInit ==
  /\ pool = [p \in Pool |-> [i \in Place |-> "none"]]
  /\ searchState = NoSearch /\ walks = NoSearch

\* Steps in one pool
EntitiesNext(p) ==
  \/ \E s \in Searcher, findNext \in BOOLEAN :
       \/ p = "char" /\ \E filter \in -1..1 : opcode_0AE1(s, findNext, filter)
       \/ p = "car" /\ \E skipWrecked \in BOOLEAN : opcode_0AE2(s, findNext, skipWrecked)
       \/ p = "object" /\ opcode_0AE3(s, findNext)
  \/ \E i \in Place, what \in EntityOf(p) : Change(p, i, what)

----------------------------------------------------------------------------
\* Types of the searches.
EntitiesTypeOK ==
  \A p \in Pool :
    /\ \A i \in Place : pool[p][i] \in EntityOf(p)
    /\ DOMAIN searchState[p] \subseteq Searcher /\ DOMAIN walks[p] \subseteq Searcher
    /\ \A s \in DOMAIN searchState[p] : searchState[p][s] \in 0..PoolSize
    /\ \A s \in DOMAIN walks[p] : walks[p][s] \in [missing : SUBSET Place, over : BOOLEAN]

\* A script that asks for the next entity until it gets none has found every entity that was
\* there and passed its filters all the time, whatever the game and searches of other scripts
\* did in between.
WalksFindEach ==
  \A p \in Pool : \A s \in DOMAIN walks[p] : walks[p][s].over => walks[p][s].missing = {}
=============================================================================
