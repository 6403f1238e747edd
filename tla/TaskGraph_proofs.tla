---------------------------- MODULE TaskGraph_proofs ----------------------------
(***************************************************************************)
(* What the algorithms of TaskGraph compute, for every finite graph: the   *)
(* walk over dependents is the least closed set around its start, Kahn's   *)
(* TopologicalSort is an order of the tasks by their dependencies, and     *)
(* Validate accepts the graphs without a cycle.                            *)
(*                                                                         *)
(* All three are recursive over the number of rounds.  The proofs need     *)
(* neither an operator as a parameter nor an unfolded recursion: induction *)
(* is over the set of rounds with a fact (Induction), and that a recursive *)
(* function exists at all is a lemma about its steps (Recursion).          *)
(***************************************************************************)
EXTENDS TaskGraph, FiniteSetTheorems, FunctionTheorems, SequenceTheorems,
        WellFoundedInduction, TLAPS

\* A set of numbers that is not empty has a least.
LEMMA LeastNumber ==
    ASSUME NEW T, T \subseteq Nat, T # {}
    PROVE  \E x \in T : \A y \in T : x <= y
<1> DEFINE R == OpToRel(<, Nat)
<1>1. IsWellFoundedOn(R, Nat)
  BY NatLessThanWellFounded
<1>2. \A x, y \in Nat : x < y => <<x, y>> \in R
  BY DEF OpToRel
<1> HIDE DEF R
<1>3. PICK x \in T : \A y \in T : ~ (<<y, x>> \in R)
  BY <1>1, WFMin
<1>4. \A y \in T : ~(y < x)
  BY <1>2, <1>3
<1> QED BY <1>3, <1>4

\* Induction over the rounds, on the set of those a fact holds for.
LEMMA Induction ==
    ASSUME NEW n \in Nat, NEW S, 0 \in S, \A i \in 1 .. n : i - 1 \in S => i \in S
    PROVE  0 .. n \subseteq S
<1> DEFINE T == (0 .. n) \ S
<1> SUFFICES ASSUME T # {} PROVE FALSE
  OBVIOUS
<1>1. T \subseteq Nat
  OBVIOUS
<1>2. PICK x \in T : \A y \in T : x <= y
  <2> HIDE DEF T
  <2> QED BY <1>1, LeastNumber
<1>3. x # 0 /\ x - 1 \in 0 .. n /\ ~(x <= x - 1)
  BY <1>2
<1> QED BY <1>2, <1>3

\* A function given by its value at 0 and by what each value makes of the one before.
Follows(f, v, step, k) == f[0] = v /\ \A n \in 1 .. k : f[n] = step[<<n, f[n - 1]>>]

\* There is such a function for every value at 0 and every step.
LEMMA Recursion ==
    ASSUME NEW N \in Nat, NEW V, NEW v \in V, NEW step \in [(1 .. N) \X V -> V]
    PROVE  \E f \in [0 .. N -> V] : Follows(f, v, step, N)
<1> DEFINE S == {k \in 0 .. N : \E f \in [0 .. k -> V] : Follows(f, v, step, k)}
<1>1. 0 \in S
  <2> DEFINE g == [i \in 0 .. 0 |-> v]
  <2>1. g \in [0 .. 0 -> V] /\ Follows(g, v, step, 0)
    BY DEF Follows
  <2>2. \E f \in [0 .. 0 -> V] : Follows(f, v, step, 0)
    <3> HIDE DEF g
    <3> QED BY <2>1
  <2> QED BY <2>2
<1>2. ASSUME NEW k \in 1 .. N, k - 1 \in S PROVE k \in S
  <2>1. PICK f \in [0 .. k - 1 -> V] : Follows(f, v, step, k - 1)
    BY <1>2
  <2> DEFINE g == [i \in 0 .. k |-> IF i = k THEN step[<<k, f[k - 1]>>] ELSE f[i]]
  <2>2. f[k - 1] \in V /\ step[<<k, f[k - 1]>>] \in V
    BY <2>1
  <2>3. g \in [0 .. k -> V]
    BY <2>1, <2>2
  <2>4. g[0] = v /\ g[k - 1] = f[k - 1] /\ g[k] = step[<<k, f[k - 1]>>]
    BY <2>1 DEF Follows
  <2>5. ASSUME NEW i \in 1 .. k, i # k PROVE g[i] = step[<<i, g[i - 1]>>]
    <3>1. i \in 1 .. k - 1 /\ i \in 0 .. k /\ i - 1 \in 0 .. k /\ i - 1 # k
      BY <2>5
    <3>2. g[i] = f[i] /\ g[i - 1] = f[i - 1]
      BY <2>5, <3>1
    <3> QED BY <2>1, <3>1, <3>2 DEF Follows
  <2>6. Follows(g, v, step, k)
    <3> HIDE DEF g
    <3> QED BY <2>4, <2>5 DEF Follows
  <2>7. \E h \in [0 .. k -> V] : Follows(h, v, step, k)
    <3> HIDE DEF g
    <3> QED BY <2>3, <2>6
  <2> QED BY <2>7
<1> HIDE DEF S
<1>3. 0 .. N \subseteq S
  BY <1>1, <1>2, Induction
<1>4. N \in S
  BY <1>3
<1> QED BY <1>4 DEF S

-----------------------------------------------------------------------------
(* The walk over dependents.                                               *)

\* What each round has met, as Walk defines it.
Met(deps, open, from) ==
    CHOOSE met : met = [n \in 0 .. Cardinality(DOMAIN deps) |->
        IF n = 0 THEN {}
        ELSE met[n - 1] \cup (Children(deps, met[n - 1] \cup {from}) \cap open)]

\* Each round meets the dependents of what the rounds before met.
LEMMA Rounds ==
    ASSUME NEW deps, IsFiniteSet(DOMAIN deps), NEW open, NEW from,
           NEW N, N = Cardinality(DOMAIN deps)
    PROVE  LET met == Met(deps, open, from)
           IN /\ met[0] = {} /\ N \in Nat
              /\ \A n \in 1 .. N :
                    met[n] = met[n - 1] \cup (Children(deps, met[n - 1] \cup {from}) \cap open)
              /\ \A n \in 0 .. N : met[n] \subseteq DOMAIN deps \cap open
              /\ Walk(deps, open, from) = met[N]
<1> DEFINE V == SUBSET (DOMAIN deps \cap open)
           Next(X) == X \cup (Children(deps, X \cup {from}) \cap open)
           step == [e \in (1 .. N) \X V |-> Next(e[2])]
           met == Met(deps, open, from)
<1>1. N \in Nat
  BY FS_CardinalityType
<1>2. \A X \in V : Next(X) \in V
  BY DEF Children
<1>3. {} \in V /\ step \in [(1 .. N) \X V -> V]
  BY <1>2
<1>4. \A n \in 1 .. N, X \in V : step[<<n, X>>] = Next(X)
  OBVIOUS
<1>5. PICK f \in [0 .. N -> V] : Follows(f, {}, step, N)
  <2> HIDE DEF V, step
  <2> QED BY <1>1, <1>3, Recursion
<1>6. /\ f[0] = {}
      /\ \A n \in 1 .. N : f[n - 1] \in V /\ f[n] = Next(f[n - 1])
  <2> HIDE DEF V, Next, step
  <2>1. \A n \in 1 .. N : f[n - 1] \in V
    BY <1>1, <1>5
  <2> QED BY <1>4, <1>5, <2>1 DEF Follows
<1>7. f = [n \in 0 .. N |-> IF n = 0 THEN {} ELSE Next(f[n - 1])]
  <2> HIDE DEF V, Next
  <2>1. \A n \in 0 .. N : n # 0 => n \in 1 .. N
    BY <1>1
  <2> QED BY <1>5, <1>6, <2>1
<1>8. met = [n \in 0 .. N |-> IF n = 0 THEN {} ELSE Next(met[n - 1])]
  BY <1>7, Zenon DEF Met
<1>9. met[0] = {} /\ \A n \in 1 .. N : met[n] = Next(met[n - 1])
  <2> HIDE DEF Next, met
  <2>1. 0 \in 0 .. N /\ \A n \in 1 .. N : n \in 0 .. N /\ n # 0
    BY <1>1
  <2> QED BY <1>8, <2>1
<1>10. \A n \in 0 .. N : met[n] \in V
  <2> DEFINE S == {n \in 0 .. N : met[n] \in V}
  <2>1. 0 \in S
    <3>1. {} \in V /\ 0 \in 0 .. N
      BY <1>1
    <3> HIDE DEF V, Next, step, met
    <3> QED BY <3>1, <1>9
  <2>2. \A n \in 1 .. N : n - 1 \in S => n \in S
    <3> HIDE DEF V, Next, met
    <3> QED BY <1>1, <1>2, <1>9
  <2>3. 0 .. N \subseteq S
    <3> HIDE DEF S
    <3> QED BY <1>1, <2>1, <2>2, Induction
  <2> QED BY <2>3
<1>11. Walk(deps, open, from) = met[N]
  BY Zenon DEF Walk, Met
<1> QED BY <1>1, <1>9, <1>10, <1>11

\* S misses no open dependent of `from` or of itself.
Closed(deps, open, from, S) == Children(deps, S \cup {from}) \cap open \subseteq S

(* The breadth-first walk of FailDependents and HasRunningDependents meets  *)
(* open tasks only, misses no open dependent of what it met, and meets no   *)
(* more than it must: what it meets is the least closed set.                *)
THEOREM WalkIsClosure ==
    ASSUME NEW deps, IsFiniteSet(DOMAIN deps), NEW open, NEW from
    PROVE  /\ Walk(deps, open, from) \subseteq DOMAIN deps \cap open
           /\ Closed(deps, open, from, Walk(deps, open, from))
           /\ \A S : Closed(deps, open, from, S) => Walk(deps, open, from) \subseteq S
<1> DEFINE N == Cardinality(DOMAIN deps)
           met == Met(deps, open, from)
<1>1. /\ met[0] = {} /\ N \in Nat
      /\ \A n \in 1 .. N :
            met[n] = met[n - 1] \cup (Children(deps, met[n - 1] \cup {from}) \cap open)
      /\ \A n \in 0 .. N : met[n] \subseteq DOMAIN deps \cap open
      /\ Walk(deps, open, from) = met[N]
  BY Rounds
<1> HIDE DEF met, N
<1>2. \A n \in 0 .. N : IsFiniteSet(met[n]) /\ Cardinality(met[n]) \in Nat
  BY <1>1, FS_Subset, FS_CardinalityType
<1>0. N = Cardinality(DOMAIN deps)
  BY DEF N
<1>3. Closed(deps, open, from, met[N])
  <2> DEFINE S == {n \in 0 .. N : Cardinality(met[n]) >= n \/ Closed(deps, open, from, met[n])}
  <2>1. 0 \in S
    BY <1>1, <1>2, FS_EmptySet
  <2>2. ASSUME NEW n \in 1 .. N, n - 1 \in S PROVE n \in S
    <3>0. n - 1 \in 0 .. N /\ n \in 0 .. N
      BY <1>1
    <3>1. met[n - 1] \subseteq met[n]
      BY <1>1, Zenon
    <3>2. CASE Closed(deps, open, from, met[n - 1])
      <4>1. met[n] = met[n - 1]
        BY <1>1, <3>2 DEF Closed
      <4> QED BY <3>0, <3>2, <4>1
    <3>3. CASE ~Closed(deps, open, from, met[n - 1])
      <4>1. met[n - 1] # met[n]
        BY <1>1, <3>3 DEF Closed
      <4>2. Cardinality(met[n - 1]) <= Cardinality(met[n]) /\ Cardinality(met[n - 1]) # Cardinality(met[n])
        BY <1>2, <3>0, <3>1, <4>1, FS_Subset
      <4>3. Cardinality(met[n - 1]) >= n - 1
        BY <2>2, <3>3
      <4>4. Cardinality(met[n]) >= n
        BY <1>1, <1>2, <3>0, <4>2, <4>3
      <4> QED BY <3>0, <4>4
    <3> QED BY <3>2, <3>3
  <2>3. N \in S
    <3> HIDE DEF S
    <3>1. 0 .. N \subseteq S
      BY <1>1, <2>1, <2>2, Induction
    <3> QED BY <1>1, <3>1
  <2>4. CASE Cardinality(met[N]) >= N
    <3>1. N \in 0 .. N /\ met[N] \subseteq DOMAIN deps
      BY <1>1
    <3>2. Cardinality(met[N]) <= Cardinality(DOMAIN deps)
      BY <3>1, FS_Subset
    <3>3. Cardinality(met[N]) = Cardinality(DOMAIN deps)
      BY <1>0, <1>1, <1>2, <2>4, <3>1, <3>2
    <3>4. met[N] = DOMAIN deps
      BY <3>1, <3>3, FS_Subset
    <3> QED BY <3>4 DEF Closed, Children
  <2> QED BY <2>3, <2>4
<1>4. ASSUME NEW S, Closed(deps, open, from, S) PROVE met[N] \subseteq S
  <2> DEFINE I == {n \in 0 .. N : met[n] \subseteq S}
  <2>1. 0 \in I
    BY <1>1
  <2>2. ASSUME NEW n \in 1 .. N, n - 1 \in I PROVE n \in I
    <3>1. Children(deps, met[n - 1] \cup {from}) \subseteq Children(deps, S \cup {from})
      BY <2>2 DEF Children
    <3>2. n \in 0 .. N /\ met[n] = met[n - 1] \cup (Children(deps, met[n - 1] \cup {from}) \cap open)
      BY <1>1
    <3>3. met[n - 1] \subseteq S /\ Children(deps, S \cup {from}) \cap open \subseteq S
      BY <1>4, <2>2 DEF Closed
    <3> QED BY <3>1, <3>2, <3>3
  <2>3. N \in I
    <3> HIDE DEF I
    <3>1. 0 .. N \subseteq I
      BY <1>1, <2>1, <2>2, Induction
    <3> QED BY <1>1, <3>1
  <2> QED BY <2>3
<1>5. met[N] \subseteq DOMAIN deps \cap open
  BY <1>1
<1> QED BY <1>1, <1>3, <1>4, <1>5
-----------------------------------------------------------------------------
(* Kahn's algorithm.                                                        *)

\* A function over 1 .. n is a sequence.
LEMMA FunctionIsSeq ==
    ASSUME NEW n \in Nat, NEW S, NEW f \in [1 .. n -> S]
    PROVE  f \in Seq(S) /\ Len(f) = n
OBVIOUS

\* The tasks of a set in order: each of them, once.
LEMMA OrderIsBijection ==
    ASSUME NEW S, IsFiniteSet(S), S \subseteq Nat
    PROVE  /\ InOrder(S) \in [1 .. Cardinality(S) -> S]
           /\ InOrder(S) \in Seq(S) /\ Len(InOrder(S)) = Cardinality(S)
           /\ \A i, j \in 1 .. Cardinality(S) : InOrder(S)[i] = InOrder(S)[j] => i = j
           /\ \A t \in S : \E i \in 1 .. Cardinality(S) : InOrder(S)[i] = t
<1> DEFINE c == Cardinality(S)
           Below(t) == {u \in S : u < t}
           rank == [t \in S |-> Cardinality(Below(t)) + 1]
<1>1. c \in Nat
  BY FS_CardinalityType
<1>2. \A t \in S : IsFiniteSet(Below(t)) /\ Cardinality(Below(t)) \in Nat
  BY FS_Subset, FS_CardinalityType
<1>3. ASSUME NEW t \in S PROVE rank[t] \in 1 .. c
  <2>1. Below(t) \subseteq S \ {t}
    OBVIOUS
  <2>2. IsFiniteSet(S \ {t}) /\ Cardinality(S \ {t}) = c - 1
    BY FS_RemoveElement
  <2>3. Cardinality(Below(t)) <= c - 1
    BY <2>1, <2>2, FS_Subset
  <2> HIDE DEF c, Below
  <2> QED BY <1>1, <1>2, <2>3
<1>4. ASSUME NEW t \in S, NEW u \in S, t < u PROVE rank[t] < rank[u]
  <2>0. t \in Nat /\ u \in Nat /\ \A v \in S : v \in Nat
    OBVIOUS
  <2>1. Below(t) \cup {t} \subseteq Below(u) /\ t \notin Below(t)
    <3>1. \A v \in S : v < t => v < u
      BY <1>4, <2>0
    <3>2. ~(t < t)
      BY <2>0
    <3> QED BY <1>4, <3>1, <3>2, Zenon
  <2>2. Cardinality(Below(t) \cup {t}) = Cardinality(Below(t)) + 1
    BY <1>2, <2>1, FS_AddElement
  <2>3. Cardinality(Below(t) \cup {t}) <= Cardinality(Below(u))
    BY <1>2, <2>1, FS_Subset
  <2> HIDE DEF c, Below
  <2> QED BY <1>2, <2>2, <2>3
<1>5. \A t, u \in S : rank[t] = rank[u] => t = u
  <2> HIDE DEF rank
  <2>1. \A t \in S : rank[t] \in Nat
    BY <1>1, <1>3
  <2> QED BY <1>4, <2>1
<1>6. rank \in [S -> 1 .. c]
  <2> HIDE DEF c, Below
  <2> QED BY <1>3
<1>7. rank \in Injection(S, 1 .. c)
  <2> HIDE DEF rank, c
  <2> QED BY <1>5, <1>6, Fun_IsInj
<1>8. \A i \in 1 .. c : \E t \in S : rank[t] = i
  <2>1. IsFiniteSet(1 .. c) /\ Cardinality(1 .. c) = c
    <3> HIDE DEF c
    <3> QED BY <1>1, FS_Interval
  <2>2. rank \in Surjection(S, 1 .. c)
    <3> HIDE DEF rank
    <3> QED BY <1>7, <2>1, FS_Injection
  <2> HIDE DEF rank, c
  <2> QED BY <2>2, Fun_SurjectionProperties
<1>9. \A i \in 1 .. c : InOrder(S)[i] \in S /\ rank[InOrder(S)[i]] = i
  <2> TAKE i \in 1 .. c
  <2>1. InOrder(S)[i] = CHOOSE t \in S : Cardinality(Below(t)) = i - 1
    BY DEF InOrder
  <2>2. \E t \in S : Cardinality(Below(t)) = i - 1
    <3>1. PICK t \in S : rank[t] = i
      BY <1>8
    <3> HIDE DEF Below, c
    <3>2. Cardinality(Below(t)) = i - 1
      BY <1>2, <3>1
    <3> QED BY <3>2
  <2>3. InOrder(S)[i] \in S /\ Cardinality(Below(InOrder(S)[i])) = i - 1
    <3> HIDE DEF Below
    <3> QED BY <2>1, <2>2
  <2> HIDE DEF Below, c
  <2> QED BY <2>3
<1>10. InOrder(S) \in [1 .. c -> S]
  <2> DEFINE Nth(i) == CHOOSE t \in S : Cardinality({u \in S : u < t}) = i - 1
  <2>1. InOrder(S) = [i \in 1 .. c |-> Nth(i)]
    BY DEF InOrder
  <2> HIDE DEF rank, c, Nth
  <2>2. \A i \in 1 .. c : Nth(i) \in S
    BY <1>9, <2>1
  <2> QED BY <2>1, <2>2
<1> HIDE DEF rank, c
<1>11. \A i, j \in 1 .. c : InOrder(S)[i] = InOrder(S)[j] => i = j
  BY <1>9
<1>12. \A t \in S : \E i \in 1 .. c : InOrder(S)[i] = t
  BY <1>3, <1>5, <1>9
<1>13. InOrder(S) \in Seq(S) /\ Len(InOrder(S)) = c
  BY <1>1, <1>10, FunctionIsSeq
<1> QED BY <1>10, <1>11, <1>12, <1>13 DEF c

\* A round takes the n-th task and appends those that waited for nothing else.
Extend(deps, n, o) ==
    LET taken == {o[i] : i \in 1 .. n}
    IN IF n > Len(o) THEN o
       ELSE o \o InOrder({t \in Children(deps, {o[n]}) : deps[t] \subseteq taken})

\* After n rounds, the tasks all of whose dependencies were taken are in the order,
\* once, and behind what they wait for.
Ordered(deps, o, n) ==
    /\ o \in Seq(DOMAIN deps)
    /\ \A i, j \in 1 .. Len(o) : o[i] = o[j] => i = j
    /\ \A t \in DOMAIN deps : (\E i \in 1 .. Len(o) : o[i] = t) <=>
           \A d \in deps[t] : \E i \in 1 .. Len(o) : i <= n /\ o[i] = d
    /\ \A i \in 1 .. Len(o) : \A d \in deps[o[i]] : \E j \in 1 .. Len(o) : j < i /\ o[j] = d

\* The order of a finite set of tasks is a sequence of its members, each once.
LEMMA OrderOfSubset ==
    ASSUME NEW T, IsFiniteSet(T), T \subseteq Nat, NEW S \in SUBSET T
    PROVE  /\ Cardinality(S) \in Nat
           /\ InOrder(S) \in Seq(S) /\ InOrder(S) \in Seq(T) /\ Len(InOrder(S)) = Cardinality(S)
           /\ \A i \in 1 .. Cardinality(S) : InOrder(S)[i] \in S
           /\ \A i, j \in 1 .. Cardinality(S) : InOrder(S)[i] = InOrder(S)[j] => i = j
           /\ \A t \in S : \E i \in 1 .. Cardinality(S) : InOrder(S)[i] = t
<1>1. IsFiniteSet(S) /\ S \subseteq Nat /\ Cardinality(S) \in Nat
  BY FS_Subset, FS_CardinalityType
<1>2. /\ InOrder(S) \in [1 .. Cardinality(S) -> S]
      /\ InOrder(S) \in Seq(S) /\ Len(InOrder(S)) = Cardinality(S)
      /\ \A i, j \in 1 .. Cardinality(S) : InOrder(S)[i] = InOrder(S)[j] => i = j
      /\ \A t \in S : \E i \in 1 .. Cardinality(S) : InOrder(S)[i] = t
  BY <1>1, OrderIsBijection
<1>3. \A i \in 1 .. Cardinality(S) : InOrder(S)[i] \in S
  BY <1>2
<1>4. InOrder(S) \in [1 .. Cardinality(S) -> T]
  BY <1>2
<1>5. InOrder(S) \in Seq(T)
  BY <1>1, <1>4, FunctionIsSeq
<1> QED BY <1>1, <1>2, <1>3, <1>5

\* The order starts with the tasks that wait for nothing.
LEMMA FirstOrder ==
    ASSUME NEW T, IsFiniteSet(T), T \subseteq Nat, NEW deps \in [T -> SUBSET T]
    PROVE  Ordered(deps, InOrder({t \in DOMAIN deps : deps[t] = {}}), 0)
<1> DEFINE S == {t \in DOMAIN deps : deps[t] = {}}
           o == InOrder(S)
<1>1. S \in SUBSET T
  OBVIOUS
<1>2. /\ o \in Seq(T) /\ Len(o) = Cardinality(S) /\ Cardinality(S) \in Nat
      /\ \A i \in 1 .. Cardinality(S) : o[i] \in S
      /\ \A i, j \in 1 .. Cardinality(S) : o[i] = o[j] => i = j
      /\ \A t \in S : \E i \in 1 .. Cardinality(S) : o[i] = t
  <2> HIDE DEF S
  <2> QED BY <1>1, OrderOfSubset
<1> HIDE DEF o
<1>3. \A t \in T : (\E i \in 1 .. Len(o) : o[i] = t) <=> deps[t] = {}
  BY <1>2
<1>4. \A i \in 1 .. Len(o) : ~(i <= 0)
  BY <1>2
<1>5. \A i \in 1 .. Len(o) : deps[o[i]] = {}
  BY <1>2
<1>6. DOMAIN deps = T
  OBVIOUS
<1> HIDE DEF S
<1>7. \A t \in T : (\E i \in 1 .. Len(o) : o[i] = t) <=>
           \A d \in deps[t] : \E i \in 1 .. Len(o) : i <= 0 /\ o[i] = d
  BY <1>3, <1>4
<1>8. /\ \A i, j \in 1 .. Len(o) : o[i] = o[j] => i = j
      /\ \A i \in 1 .. Len(o) : \A d \in deps[o[i]] : \E j \in 1 .. Len(o) : j < i /\ o[j] = d
  BY <1>2, <1>5
<1>9. Ordered(deps, o, 0)
  BY <1>2, <1>6, <1>7, <1>8 DEF Ordered
<1> QED BY <1>9 DEF o, S

\* The positions of two sequences put together.
LEMMA Concatenation ==
    ASSUME NEW T, NEW o \in Seq(T), NEW q \in Seq(T), NEW L, L = Len(o), NEW c, c = Len(q)
    PROVE  /\ o \o q \in Seq(T) /\ Len(o \o q) = L + c
           /\ \A i \in 1 .. L : i \in 1 .. L + c /\ (o \o q)[i] = o[i]
           /\ \A i \in 1 .. c : L + i \in 1 .. L + c /\ (o \o q)[L + i] = q[i]
<1>1. L \in Nat /\ c \in Nat
  OBVIOUS
<1>2. /\ o \o q \in Seq(T) /\ Len(o \o q) = L + c
      /\ \A i \in 1 .. L + c : (o \o q)[i] = IF i <= L THEN o[i] ELSE q[i - L]
  BY ConcatProperties
<1> DEFINE p == o \o q
<1> HIDE DEF p
<1>3. \A i \in 1 .. L : i \in 1 .. L + c /\ i <= L
  BY <1>1
<1>4. \A i \in 1 .. c : L + i \in 1 .. L + c /\ ~(L + i <= L) /\ L + i - L = i
  BY <1>1
<1> QED BY <1>2, <1>3, <1>4

\* A round of the algorithm keeps the order one.
LEMMA NextOrder ==
    ASSUME NEW T, IsFiniteSet(T), T \subseteq Nat, NEW deps \in [T -> SUBSET T],
           NEW n \in Nat \ {0}, NEW o, Ordered(deps, o, n - 1)
    PROVE  Ordered(deps, Extend(deps, n, o), n)
<1>1. /\ DOMAIN deps = T
      /\ o \in Seq(T) /\ Len(o) \in Nat
      /\ \A i \in 1 .. Len(o) : o[i] \in T
      /\ \A i, j \in 1 .. Len(o) : o[i] = o[j] => i = j
      /\ \A t \in T : (\E i \in 1 .. Len(o) : o[i] = t) <=>
             \A d \in deps[t] : \E i \in 1 .. Len(o) : i <= n - 1 /\ o[i] = d
      /\ \A i \in 1 .. Len(o) : \A d \in deps[o[i]] : \E j \in 1 .. Len(o) : j < i /\ o[j] = d
  <2>1. DOMAIN deps = T
    OBVIOUS
  <2>2. o \in Seq(T)
    BY <2>1 DEF Ordered
  <2>3. Len(o) \in Nat /\ \A i \in 1 .. Len(o) : o[i] \in T
    BY <2>2, ElementOfSeq
  <2> QED BY <2>1, <2>2, <2>3 DEF Ordered
<1>2. CASE n > Len(o)
  <2>1. \A i \in 1 .. Len(o) : i <= n - 1 /\ i <= n
    BY <1>1, <1>2
  <2>2. Extend(deps, n, o) = o
    BY <1>2 DEF Extend
  <2>3. \A t \in T : (\E i \in 1 .. Len(o) : o[i] = t) <=>
             \A d \in deps[t] : \E i \in 1 .. Len(o) : i <= n /\ o[i] = d
    BY <1>1, <2>1
  <2> QED BY <1>1, <2>2, <2>3 DEF Ordered
<1>3. CASE n <= Len(o)
  <2> DEFINE L == Len(o)
             taken == {o[i] : i \in 1 .. n}
             S == {t \in Children(deps, {o[n]}) : deps[t] \subseteq taken}
             c == Cardinality(S)
             q == InOrder(S)
             p == o \o q
  <2>1. S \in SUBSET T
    BY DEF Children
  <2>2. /\ c \in Nat /\ q \in Seq(T) /\ Len(q) = c
        /\ \A i \in 1 .. c : q[i] \in S
        /\ \A i, j \in 1 .. c : q[i] = q[j] => i = j
        /\ \A t \in S : \E i \in 1 .. c : q[i] = t
    <3> HIDE DEF S
    <3> QED BY <2>1, OrderOfSubset
  <2>3. Extend(deps, n, o) = p
    BY <1>1, <1>3 DEF Extend
  <2>4. \A t \in T : t \in S <=> o[n] \in deps[t] /\ deps[t] \subseteq taken
    BY <1>1 DEF Children
  <2>5. \A d : d \in taken <=> \E i \in 1 .. n : o[i] = d
    OBVIOUS
  <2> HIDE DEF taken, S, c, q
  <2>6. /\ p \in Seq(T) /\ Len(p) = L + c
        /\ \A i \in 1 .. L : i \in 1 .. L + c /\ p[i] = o[i]
        /\ \A i \in 1 .. c : L + i \in 1 .. L + c /\ p[L + i] = q[i]
    <3>1. o \in Seq(T) /\ q \in Seq(T) /\ c = Len(q)
      BY <1>1, <2>2
    <3>2. \A l : l = Len(o) =>
              /\ o \o q \in Seq(T) /\ Len(o \o q) = l + c
              /\ \A i \in 1 .. l : i \in 1 .. l + c /\ (o \o q)[i] = o[i]
              /\ \A i \in 1 .. c : l + i \in 1 .. l + c /\ (o \o q)[l + i] = q[i]
      BY ONLY <3>1, Concatenation
    <3> QED BY <3>2
  <2> HIDE DEF p
  <2>7. n \in 1 .. L /\ L \in Nat /\ \A i \in 1 .. n : i \in 1 .. L
    BY <1>1, <1>3
  <2>8. \A i \in 1 .. L, t \in S : o[i] # t
    <3> SUFFICES ASSUME NEW i \in 1 .. L, o[i] \in S PROVE FALSE
      OBVIOUS
    <3>1. o[i] \in T /\ o[n] \in deps[o[i]]
      BY <1>1, <2>1, <2>4
    <3>2. \E k \in 1 .. L : k <= n - 1 /\ o[k] = o[n]
      BY <1>1, <3>1
    <3>3. PICK k \in 1 .. L : k <= n - 1 /\ o[k] = o[n]
      BY <3>2
    <3>4. k = n
      BY <1>1, <2>7, <3>3
    <3> QED BY <3>3, <3>4
  <2>9. ASSUME NEW i \in 1 .. L + c, i \notin 1 .. L
        PROVE  \E k \in 1 .. c : i = L + k /\ p[i] = q[k] /\ p[i] \in S
    <3>1. i - L \in 1 .. c /\ i = L + (i - L)
      BY <2>2, <2>7, <2>9
    <3>2. p[L + (i - L)] = q[i - L] /\ q[i - L] \in S
      BY <2>2, <2>6, <3>1
    <3> QED BY <3>1, <3>2
  <2>10. \A i, j \in 1 .. L + c : p[i] = p[j] => i = j
    <3> SUFFICES ASSUME NEW i \in 1 .. L + c, NEW j \in 1 .. L + c, p[i] = p[j] PROVE i = j
      OBVIOUS
    <3>1. CASE i \in 1 .. L /\ j \in 1 .. L
      BY <1>1, <2>6, <3>1
    <3>2. CASE i \in 1 .. L /\ j \notin 1 .. L
      BY <2>6, <2>8, <2>9, <3>2
    <3>3. CASE i \notin 1 .. L /\ j \in 1 .. L
      BY <2>6, <2>8, <2>9, <3>3
    <3>4. CASE i \notin 1 .. L /\ j \notin 1 .. L
      <4>1. PICK k \in 1 .. c : i = L + k /\ p[i] = q[k]
        BY <2>9, <3>4
      <4>2. PICK m \in 1 .. c : j = L + m /\ p[j] = q[m]
        BY <2>9, <3>4
      <4> QED BY <2>2, <4>1, <4>2
    <3> QED BY <3>1, <3>2, <3>3, <3>4
  <2>11. \A t : (\E i \in 1 .. L + c : p[i] = t) <=> (\E i \in 1 .. L : o[i] = t) \/ t \in S
    <3> TAKE t
    <3>1. ASSUME NEW i \in 1 .. L + c, p[i] = t PROVE (\E j \in 1 .. L : o[j] = t) \/ t \in S
      BY <2>6, <2>9, <3>1
    <3>2. ASSUME NEW i \in 1 .. L, o[i] = t PROVE \E j \in 1 .. L + c : p[j] = t
      BY <2>6, <3>2
    <3>3. ASSUME t \in S PROVE \E j \in 1 .. L + c : p[j] = t
      <4>1. PICK i \in 1 .. c : q[i] = t
        BY <2>2, <3>3
      <4>2. L + i \in 1 .. L + c /\ p[L + i] = t
        BY <2>6, <4>1
      <4> QED BY <4>2
    <3> QED BY <3>1, <3>2, <3>3
  <2>12. \A d : (\E i \in 1 .. L + c : i <= n /\ p[i] = d) <=> d \in taken
    <3> TAKE d
    <3>1. ASSUME NEW i \in 1 .. L + c, i <= n, p[i] = d PROVE d \in taken
      <4>1. i \in 1 .. n /\ i \in 1 .. L
        BY <2>2, <2>7, <3>1
      <4> QED BY <2>5, <2>6, <3>1, <4>1
    <3>2. ASSUME d \in taken PROVE \E i \in 1 .. L + c : i <= n /\ p[i] = d
      <4>1. PICK i \in 1 .. n : o[i] = d
        BY <2>5, <3>2
      <4>2. i \in 1 .. L /\ i <= n
        BY <2>7
      <4> QED BY <2>6, <4>1, <4>2
    <3> QED BY <3>1, <3>2
  <2>13. ASSUME NEW t \in T
         PROVE  (\E i \in 1 .. L + c : p[i] = t) <=> deps[t] \subseteq taken
    <3>1. \A i \in 1 .. L : i <= n - 1 => i \in 1 .. n
      BY <2>7
    <3>2. ASSUME \E i \in 1 .. L : o[i] = t PROVE deps[t] \subseteq taken
      BY <1>1, <2>5, <3>1, <3>2
    <3>3. ASSUME deps[t] \subseteq taken, t \notin S PROVE \E i \in 1 .. L : o[i] = t
      <4>1. o[n] \notin deps[t]
        BY <2>4, <3>3
      <4>2. ASSUME NEW d \in deps[t] PROVE \E i \in 1 .. L : i <= n - 1 /\ o[i] = d
        <5>1. PICK i \in 1 .. n : o[i] = d
          BY <2>5, <3>3
        <5>2. i # n
          BY <4>1, <5>1
        <5>3. i \in 1 .. L /\ i <= n - 1
          BY <2>7, <5>2
        <5> QED BY <5>1, <5>3
      <4> QED BY <1>1, <4>2
    <3> QED BY <2>4, <2>11, <3>2, <3>3
  <2>14. ASSUME NEW i \in 1 .. L + c, NEW d \in deps[p[i]]
         PROVE  \E j \in 1 .. L + c : j < i /\ p[j] = d
    <3>1. CASE i \in 1 .. L
      BY <1>1, <2>6, <3>1
    <3>2. CASE i \notin 1 .. L
      <4>1. p[i] \in S /\ p[i] \in T
        BY <2>1, <2>9, <3>2
      <4>2. d \in taken
        BY <2>4, <4>1
      <4>3. PICK j \in 1 .. n : o[j] = d
        BY <2>5, <4>2
      <4>4. j \in 1 .. L /\ j < i
        BY <2>2, <2>7, <3>2
      <4> QED BY <2>6, <4>3, <4>4
    <3> QED BY <3>1, <3>2
  <2>15. \A t \in T : (\E i \in 1 .. L + c : p[i] = t) <=>
             \A d \in deps[t] : \E i \in 1 .. L + c : i <= n /\ p[i] = d
    BY <2>12, <2>13
  <2>16. Ordered(deps, p, n)
    BY <1>1, <2>6, <2>10, <2>14, <2>15 DEF Ordered
  <2> QED BY <2>3, <2>16
<1> QED BY <1>1, <1>2, <1>3

\* The order found in each round.
Found(deps) ==
    CHOOSE order : order = [n \in 0 .. Cardinality(DOMAIN deps) |->
        IF n = 0 THEN InOrder({t \in DOMAIN deps : deps[t] = {}})
        ELSE Extend(deps, n, order[n - 1])]

\* TopologicalSort is the order after as many rounds as there are tasks.
LEMMA SortIsFound ==
    ASSUME NEW T, IsFiniteSet(T), T \subseteq Nat, NEW deps \in [T -> SUBSET T],
           NEW N, N = Cardinality(T)
    PROVE  N \in Nat /\ Ordered(deps, TopologicalSort(deps), N)
<1> DEFINE V(n) == {o \in Seq(T) : Ordered(deps, o, n)}
           E(n, o) == Extend(deps, n, o)
           first == InOrder({t \in DOMAIN deps : deps[t] = {}})
           step == [e \in (1 .. N) \X Seq(T) |-> IF E(e[1], e[2]) \in Seq(T) THEN E(e[1], e[2]) ELSE <<>>]
           order == Found(deps)
<1>1. N \in Nat /\ N = Cardinality(DOMAIN deps) /\ DOMAIN deps = T
  BY FS_CardinalityType
<1>2. first \in Seq(T) /\ Ordered(deps, first, 0)
  <2>1. Ordered(deps, first, 0)
    BY FirstOrder
  <2> HIDE DEF first
  <2> QED BY <1>1, <2>1 DEF Ordered
<1>3. ASSUME NEW n \in 1 .. N, NEW o, Ordered(deps, o, n - 1)
      PROVE  Ordered(deps, E(n, o), n) /\ E(n, o) \in Seq(T)
  <2>1. Ordered(deps, E(n, o), n)
    <3>1. n \in Nat \ {0}
      BY <1>1
    <3> QED BY <1>3, <3>1, NextOrder
  <2> HIDE DEF E
  <2> QED BY <1>1, <2>1 DEF Ordered
<1>4. step \in [(1 .. N) \X Seq(T) -> Seq(T)]
  <2> HIDE DEF E
  <2> QED OBVIOUS
<1>5. \A n \in 1 .. N, o \in Seq(T) : E(n, o) \in Seq(T) => step[<<n, o>>] = E(n, o)
  <2> HIDE DEF E
  <2> QED OBVIOUS
<1>6. PICK f \in [0 .. N -> Seq(T)] : Follows(f, first, step, N)
  <2> HIDE DEF first, step
  <2> QED BY <1>1, <1>2, <1>4, Recursion
<1>7. ASSUME NEW n \in 0 .. N PROVE Ordered(deps, f[n], n)
  <2> DEFINE S == {i \in 0 .. N : Ordered(deps, f[i], i)}
  <2>1. 0 \in S
    <3> HIDE DEF first, step
    <3> QED BY <1>1, <1>2, <1>6 DEF Follows
  <2>2. ASSUME NEW i \in 1 .. N, i - 1 \in S PROVE i \in S
    <3>1. Ordered(deps, f[i - 1], i - 1)
      BY <2>2
    <3>2. f[i - 1] \in Seq(T)
      BY <1>1
    <3> HIDE DEF E, first, step
    <3>3. f[i] = E(i, f[i - 1])
      BY <1>3, <1>5, <1>6, <3>1, <3>2 DEF Follows
    <3> QED BY <1>3, <3>1, <3>3
  <2> HIDE DEF S
  <2>3. 0 .. N \subseteq S
    BY <1>1, <2>1, <2>2, Induction
  <2> QED BY <2>3 DEF S
<1>8. f = [n \in 0 .. N |-> IF n = 0 THEN first ELSE E(n, f[n - 1])]
  <2>1. ASSUME NEW n \in 1 .. N PROVE f[n] = E(n, f[n - 1])
    <3>1. f[n - 1] \in Seq(T) /\ n - 1 \in 0 .. N
      BY <1>1
    <3> HIDE DEF E, first, step
    <3> QED BY <1>3, <1>5, <1>6, <1>7, <3>1 DEF Follows
  <2>2. f[0] = first /\ \A n \in 0 .. N : n # 0 => n \in 1 .. N
    BY <1>1, <1>6 DEF Follows
  <2> HIDE DEF E, first, step
  <2> QED BY <2>1, <2>2
<1>9. order = [n \in 0 .. N |-> IF n = 0 THEN first ELSE E(n, order[n - 1])]
  BY <1>1, <1>8, Zenon DEF Found
<1>10. Ordered(deps, order[N], N)
  <2> DEFINE S == {i \in 0 .. N : Ordered(deps, order[i], i)}
  <2> HIDE DEF E, first, order
  <2>1. 0 \in S
    BY <1>1, <1>2, <1>9
  <2>2. ASSUME NEW i \in 1 .. N, i - 1 \in S PROVE i \in S
    <3>1. i \in 0 .. N /\ i # 0 /\ Ordered(deps, order[i - 1], i - 1)
      BY <1>1, <2>2
    <3>2. order[i] = E(i, order[i - 1])
      BY <1>9, <3>1
    <3> QED BY <1>3, <3>1, <3>2
  <2> HIDE DEF S
  <2>3. 0 .. N \subseteq S
    BY <1>1, <2>1, <2>2, Induction
  <2>4. N \in S
    BY <1>1, <2>3
  <2> QED BY <2>4 DEF S
<1>11. TopologicalSort(deps) = order[N]
  BY <1>1, Zenon DEF TopologicalSort, Found, Extend
<1> QED BY <1>1, <1>10, <1>11

\* Each task once, after what it waits for; none is left out whose
\* dependencies are all there; all of them are there when none is missing.
Topological(T, deps, sorted) ==
    /\ sorted \in Seq(T)
    /\ \A i, j \in 1 .. Len(sorted) : sorted[i] = sorted[j] => i = j
    /\ \A t \in T : (\E i \in 1 .. Len(sorted) : sorted[i] = t) <=>
           \A d \in deps[t] : \E i \in 1 .. Len(sorted) : sorted[i] = d
    /\ \A i, j \in 1 .. Len(sorted) : sorted[j] \in deps[sorted[i]] => j < i
    /\ Len(sorted) = Cardinality(T) <=> \A t \in T : \E i \in 1 .. Len(sorted) : sorted[i] = t

(* Kahn's TopologicalSort orders each task at most once, after everything   *)
(* it waits for, and leaves out a task only if it leaves out one that this  *)
(* task waits for; its length tells whether it left any out.                *)
THEOREM SortIsTopological ==
    ASSUME NEW T, IsFiniteSet(T), T \subseteq Nat, NEW deps \in [T -> SUBSET T]
    PROVE  Topological(T, deps, TopologicalSort(deps))
<1> SUFFICES ASSUME NEW sorted, sorted = TopologicalSort(deps)
             PROVE  Topological(T, deps, sorted)
  OBVIOUS
<1> DEFINE N == Cardinality(T)
           L == Len(sorted)
<1>1. N \in Nat /\ Ordered(deps, sorted, N) /\ DOMAIN deps = T
  BY SortIsFound
<1> HIDE DEF N
<1>2. sorted \in Seq(T) /\ L \in Nat /\ sorted \in [1 .. L -> T]
  <2>1. sorted \in Seq(T)
    BY <1>1 DEF Ordered
  <2> QED BY <2>1
<1> HIDE DEF L
<1>3. \A i, j \in 1 .. L : sorted[i] = sorted[j] => i = j
  BY <1>1 DEF Ordered, L
<1>4. sorted \in Injection(1 .. L, T)
  BY <1>2, <1>3, Fun_IsInj
<1>5. IsFiniteSet(1 .. L) /\ Cardinality(1 .. L) = L
  BY <1>2, FS_Interval
<1>6. L <= N /\ (L = N <=> sorted \in Surjection(1 .. L, T))
  BY <1>4, <1>5, FS_Injection DEF N
<1>7. \A i \in 1 .. L : i <= N
  BY <1>1, <1>2, <1>6
<1>8. \A t \in T : (\E i \in 1 .. L : sorted[i] = t) <=>
          \A d \in deps[t] : \E i \in 1 .. L : sorted[i] = d
  <2>1. \A t \in T : (\E i \in 1 .. L : sorted[i] = t) <=>
            \A d \in deps[t] : \E i \in 1 .. L : i <= N /\ sorted[i] = d
    BY <1>1 DEF Ordered, L
  <2> QED BY <1>7, <2>1
<1>9. ASSUME NEW i \in 1 .. L, NEW j \in 1 .. L, sorted[j] \in deps[sorted[i]] PROVE j < i
  <2>1. \A m \in 1 .. L : \A d \in deps[sorted[m]] : \E k \in 1 .. L : k < m /\ sorted[k] = d
    BY ONLY <1>1 DEF Ordered, L
  <2>2. PICK k \in 1 .. L : k < i /\ sorted[k] = sorted[j]
    BY ONLY <1>9, <2>1, i \in 1 .. L
  <2> QED BY <1>3, <2>2
<1>10. L = N <=> \A t \in T : \E i \in 1 .. L : sorted[i] = t
  <2>1. ASSUME \A t \in T : \E i \in 1 .. L : sorted[i] = t PROVE sorted \in Surjection(1 .. L, T)
    BY <1>2, <2>1, Fun_IsSurj
  <2>2. ASSUME sorted \in Surjection(1 .. L, T) PROVE \A t \in T : \E i \in 1 .. L : sorted[i] = t
    BY <2>2 DEF Surjection
  <2> QED BY <1>6, <2>1, <2>2
<1> QED BY <1>2, <1>3, <1>8, <1>9, <1>10 DEF Topological, L, N

\* Every set of tasks has one that waits for none of the others or itself.
NoCycle(T, deps) == \A S \in (SUBSET T) \ {{}} : {t \in S : deps[t] \cap S = {}} # {}

(* Validate accepts exactly the graphs without a cycle, those in which a    *)
(* task waits for itself refused among them.                                *)
THEOREM ValidateFindsCycles ==
    ASSUME NEW T, IsFiniteSet(T), T \subseteq Nat, NEW deps \in [T -> SUBSET T]
    PROVE  Validate(deps) <=> NoCycle(T, deps)
<1> SUFFICES ASSUME NEW sorted, sorted = TopologicalSort(deps)
             PROVE  Validate(deps) <=> \A S \in (SUBSET T) \ {{}} : {t \in S : deps[t] \cap S = {}} # {}
  BY DEF NoCycle
<1> DEFINE L == Len(sorted)
           R == {sorted[i] : i \in 1 .. L}
<1>1. /\ sorted \in Seq(T) /\ L \in Nat
      /\ \A i \in 1 .. L : sorted[i] \in T
      /\ \A t \in T : t \in R <=> deps[t] \subseteq R
      /\ \A i, j \in 1 .. L : sorted[j] \in deps[sorted[i]] => j < i
      /\ L = Cardinality(T) <=> T \subseteq R
  <2>1. /\ sorted \in Seq(T)
        /\ \A t \in T : (\E i \in 1 .. L : sorted[i] = t) <=>
               \A d \in deps[t] : \E i \in 1 .. L : sorted[i] = d
        /\ \A i, j \in 1 .. L : sorted[j] \in deps[sorted[i]] => j < i
        /\ L = Cardinality(T) <=> \A t \in T : \E i \in 1 .. L : sorted[i] = t
    <3>1. Topological(T, deps, sorted)
      BY SortIsTopological
    <3> QED BY <3>1 DEF Topological
  <2>2. L \in Nat /\ \A i \in 1 .. L : sorted[i] \in T
    BY <2>1
  <2> HIDE DEF L
  <2>3. \A t : t \in R <=> \E i \in 1 .. L : sorted[i] = t
    OBVIOUS
  <2> HIDE DEF R
  <2> QED BY <2>1, <2>2, <2>3 DEF L
<1> HIDE DEF L
<1>2. Validate(deps) <=> T \subseteq R /\ \A t \in T : t \notin deps[t]
  <2>1. DOMAIN deps = T /\ \A t \in T : deps[t] \subseteq T
    OBVIOUS
  <2> QED BY <1>1, <2>1 DEF Validate, L
<1>3. ASSUME T \subseteq R, NEW S \in SUBSET T, S # {}
      PROVE  \E t \in S : deps[t] \cap S = {}
  <2> DEFINE I == {i \in 1 .. L : sorted[i] \in S}
  <2>1. I \subseteq Nat /\ I # {}
    <3>1. PICK t \in S : t \in R
      BY <1>3
    <3>2. PICK i \in 1 .. L : sorted[i] = t
      BY <3>1
    <3> QED BY <3>2
  <2>2. PICK i \in I : \A j \in I : i <= j
    <3> HIDE DEF I
    <3> QED BY <2>1, LeastNumber
  <2>3. ASSUME NEW d \in deps[sorted[i]], d \in S PROVE FALSE
    <3>1. PICK j \in 1 .. L : sorted[j] = d
      BY <1>3, <2>3
    <3>2. j < i /\ i <= j
      BY <1>1, <2>2, <2>3, <3>1
    <3> QED BY <1>1, <3>2
  <2> QED BY <2>2, <2>3
<1>4. ASSUME \A S \in (SUBSET T) \ {{}} : {t \in S : deps[t] \cap S = {}} # {}
      PROVE  T \subseteq R /\ \A t \in T : t \notin deps[t]
  <2>1. \A t \in T : t \notin deps[t]
    <3> TAKE t \in T
    <3>1. {t} \subseteq T /\ t \in {t}
      OBVIOUS
    <3>2. {u \in {t} : deps[u] \cap {t} = {}} # {}
      BY <1>4, <3>1
    <3> QED BY <3>2
  <2>2. T \subseteq R
    <3> SUFFICES ASSUME T \ R # {} PROVE FALSE
      OBVIOUS
    <3>1. PICK t \in T \ R : deps[t] \cap (T \ R) = {}
      BY <1>4
    <3>2. deps[t] \subseteq R
      BY <3>1
    <3> HIDE DEF R
    <3> QED BY <1>1, <3>1, <3>2
  <2> QED BY <2>1, <2>2
<1>5. ASSUME T \subseteq R
      PROVE  \A S \in (SUBSET T) \ {{}} : {t \in S : deps[t] \cap S = {}} # {}
  <2> HIDE DEF R
  <2> TAKE S \in (SUBSET T) \ {{}}
  <2>1. \E t \in S : deps[t] \cap S = {}
    BY <1>3, <1>5
  <2> QED BY <2>1
<1> QED BY <1>2, <1>4, <1>5

=============================================================================
