------------------------- MODULE GraphStates_proofs -------------------------
(***************************************************************************)
(* What the derivations of GraphStates say of any finite graph: closures   *)
(* and topological orders are least sets, the states satisfy their         *)
(* recursive equation, and a review that binds an older revision of a node *)
(* below it is not GREEN.                                                  *)
(***************************************************************************)
EXTENDS GraphStates, FiniteSetTheorems, WellFoundedInduction, TLAPS

-----------------------------------------------------------------------------
(***************************************************************************)
(* Worklists.                                                              *)
(***************************************************************************)
\* Induction up to a bound, on the set of the numbers it holds for.
LEMMA UpTo ==
  ASSUME NEW N \in Nat, NEW S, 0 \in S, \A i \in 0 .. N : i \in S /\ i < N => i + 1 \in S
  PROVE  0 .. N \subseteq S
<1> DEFINE T == (0 .. N) \ S
<1> SUFFICES ASSUME T # {} PROVE FALSE
  OBVIOUS
<1>1. PICK x \in T : \A y \in T : ~(<<y, x>> \in OpToRel(<, Nat))
  <2>1. T \subseteq Nat
    OBVIOUS
  <2> HIDE DEF T
  <2> QED
    BY <2>1, WFMin, NatLessThanWellFounded
<1>2. x \in 1 .. N /\ x - 1 \in 0 .. N /\ x - 1 < N /\ (x - 1) + 1 = x
  OBVIOUS
<1>3. <<x - 1, x>> \in OpToRel(<, Nat)
  BY <1>2 DEF OpToRel
<1> QED
  BY <1>1, <1>2, <1>3

\* f is what the first k rounds of a worklist find.
Rounds(f, k, U, step) ==
  /\ f \in [0 .. k -> SUBSET U]
  /\ \A i \in 0 .. k : f[i] = IF i = 0 THEN {} ELSE f[i - 1] \cup (U \cap step[f[i - 1]])

\* Least is what the last of the rounds finds.
LEMMA LeastIsARound ==
  ASSUME NEW U, NEW step, IsFiniteSet(U)
  PROVE  \E f : Rounds(f, Cardinality(U), U, step) /\ Least(U, step) = f[Cardinality(U)]
<1> DEFINE N == Cardinality(U)
           S == {k \in 0 .. N : \E f : Rounds(f, k, U, step)}
<1>1. N \in Nat
  BY FS_CardinalityType
<1> HIDE DEF N
<1>2. 0 \in S
  <2>1. Rounds([i \in 0 .. 0 |-> {}], 0, U, step)
    BY DEF Rounds
  <2> QED
    BY <1>1, <2>1
<1>3. ASSUME NEW k \in 0 .. N, k \in S, k < N
      PROVE  k + 1 \in S
  <2>1. PICK f : Rounds(f, k, U, step)
    BY <1>3
  <2> DEFINE next == f[k] \cup (U \cap step[f[k]])
             h    == [i \in 0 .. k + 1 |-> IF i = k + 1 THEN next ELSE f[i]]
  <2>2. next \in SUBSET U
    BY <1>1, <2>1 DEF Rounds
  <2>3. h \in [0 .. k + 1 -> SUBSET U]
    <3> HIDE DEF next
    <3> QED
      BY <1>1, <2>1, <2>2 DEF Rounds
  <2>4. ASSUME NEW i \in 0 .. k + 1
        PROVE  h[i] = IF i = 0 THEN {} ELSE h[i - 1] \cup (U \cap step[h[i - 1]])
    <3>1. CASE i = k + 1
      <4>1. h[i] = next /\ h[i - 1] = f[k] /\ i # 0
        BY <1>1, <3>1
      <4> QED
        BY <4>1
    <3>2. CASE i # k + 1
      <4>1. i \in 0 .. k /\ h[i] = f[i] /\ (i # 0 => h[i - 1] = f[i - 1])
        BY <1>1, <3>2
      <4> HIDE DEF h
      <4> QED
        BY <2>1, <4>1 DEF Rounds
    <3> QED
      BY <3>1, <3>2
  <2>5. Rounds(h, k + 1, U, step)
    <3> HIDE DEF h
    <3> QED
      BY <2>3, <2>4 DEF Rounds
  <2> QED
    BY <1>1, <1>3, <2>5
<1>4. N \in S
  <2> HIDE DEF S
  <2>1. 0 .. N \subseteq S
    BY <1>1, <1>2, <1>3, UpTo
  <2> QED
    BY <1>1, <2>1
<1> DEFINE IsRound(f) ==
             f = [i \in 0 .. N |->
                    IF i = 0 THEN {}
                    ELSE LET before == f[i - 1] IN before \cup (U \cap step[before])]
           round == CHOOSE f : IsRound(f)
<1>5. \E f : IsRound(f)
  <2>1. PICK f : Rounds(f, N, U, step)
    BY <1>4
  <2>2. f = [i \in 0 .. N |-> f[i]]
    BY <2>1 DEF Rounds
  <2>3. \A i \in 0 .. N :
          f[i] = IF i = 0 THEN {} ELSE f[i - 1] \cup (U \cap step[f[i - 1]])
    BY <2>1 DEF Rounds
  <2>4. IsRound(f)
    BY <2>2, <2>3
  <2> QED
    BY <2>4
<1>6. IsRound(round)
  BY <1>5
<1>7. Least(U, step) = U \cap round[N]
  BY DEF Least, N
<1>8. PICK f : Rounds(f, N, U, step)
  BY <1>4
<1>9. round \in [0 .. N -> SUBSET U]
  <2> DEFINE D == {i \in 0 .. N : round[i] = f[i]}
  <2> HIDE DEF round
  <2>1. round[0] = {} /\ f[0] = {}
    BY <1>1, <1>6, <1>8 DEF Rounds
  <2>2. 0 \in D
    BY <1>1, <2>1
  <2>3. \A i \in 0 .. N : i \in D /\ i < N => i + 1 \in D
    <3> TAKE i \in 0 .. N
    <3> HAVE i \in D /\ i < N
    <3>1. i + 1 \in 0 .. N /\ i + 1 # 0 /\ (i + 1) - 1 = i
      BY <1>1
    <3>2. round[i + 1] = round[i] \cup (U \cap step[round[i]])
      BY <1>6, <3>1
    <3>3. f[i + 1] = f[i] \cup (U \cap step[f[i]])
      BY <1>8, <3>1 DEF Rounds
    <3> QED
      BY <3>1, <3>2, <3>3
  <2>4. 0 .. N \subseteq D
    <3> HIDE DEF D
    <3> QED
      BY <1>1, <2>2, <2>3, UpTo
  <2>5. DOMAIN round = 0 .. N /\ round = [i \in 0 .. N |-> round[i]]
    BY <1>6
  <2>6. \A i \in 0 .. N : round[i] \in SUBSET U
    BY <1>8, <2>4 DEF Rounds
  <2> QED
    BY <2>5, <2>6
<1>10. Rounds(round, N, U, step) /\ U \cap round[N] = round[N]
  <2> HIDE DEF round
  <2>1. \A i \in 0 .. N :
          round[i] = IF i = 0 THEN {} ELSE round[i - 1] \cup (U \cap step[round[i - 1]])
    BY <1>6
  <2> QED
    BY <1>1, <1>9, <2>1 DEF Rounds
<1> QED
  BY <1>7, <1>10 DEF N

\* A step finds the more the more there is.
Monotone(U, step) == \A S, T \in SUBSET U : S \subseteq T => step[S] \subseteq step[T]

\* A set that a worklist would add nothing to.
Settled(S, U, step) == S \in SUBSET U /\ U \cap step[S] \subseteq S

\* A worklist ends with a set it adds nothing to: as long as a round adds
\* something, it adds one element at least, and it has as many rounds as there
\* are elements.
LEMMA LeastSettled ==
  ASSUME NEW U, NEW step, IsFiniteSet(U)
  PROVE  Settled(Least(U, step), U, step)
<1> DEFINE N == Cardinality(U)
<1>1. PICK f : Rounds(f, N, U, step) /\ Least(U, step) = f[N]
  BY LeastIsARound
<1>2. N \in Nat
  BY FS_CardinalityType
<1>3. \A i \in 0 .. N : /\ f[i] \in SUBSET U
                        /\ IsFiniteSet(f[i]) /\ Cardinality(f[i]) \in Nat
                        /\ Cardinality(f[i]) <= N /\ (Cardinality(f[i]) = N => f[i] = U)
  BY <1>1, FS_Subset, FS_CardinalityType DEF Rounds
<1> DEFINE Large(i) == Cardinality(f[i]) >= i
           S == {i \in 0 .. N : Settled(f[i], U, step) \/ Large(i)}
<1> HIDE DEF N
<1>4. 0 \in S
  BY <1>2, <1>3
<1>5. ASSUME NEW i \in 0 .. N, i \in S, i < N
      PROVE  i + 1 \in S
  <2>1. /\ i + 1 \in 0 .. N
        /\ f[i + 1] = f[i] \cup (U \cap step[f[i]])
    <3>1. i + 1 \in 0 .. N /\ i + 1 # 0 /\ (i + 1) - 1 = i
      BY <1>2, <1>5
    <3> QED
      BY <1>1, <3>1 DEF Rounds
  <2>2. CASE Settled(f[i], U, step)
    <3>1. f[i + 1] = f[i]
      BY <2>1, <2>2 DEF Settled
    <3> QED
      BY <2>1, <2>2, <3>1
  <2>3. CASE ~Settled(f[i], U, step)
    <3>1. PICK x : x \in f[i + 1] /\ x \notin f[i]
      BY <1>3, <2>1, <2>3 DEF Settled
    <3>2. /\ f[i] \cup {x} \subseteq f[i + 1]
          /\ Cardinality(f[i] \cup {x}) = Cardinality(f[i]) + 1
      BY <1>3, <2>1, <3>1, FS_AddElement
    <3>3. Cardinality(f[i] \cup {x}) <= Cardinality(f[i + 1])
      BY <1>3, <2>1, <3>2, FS_Subset
    <3>4. Cardinality(f[i]) >= i
      BY <1>5, <2>3
    <3>5. Cardinality(f[i]) \in Nat /\ Cardinality(f[i + 1]) \in Nat
      BY <1>3, <2>1
    <3>6. Cardinality(f[i + 1]) >= i + 1
      BY <1>2, <3>2, <3>3, <3>4, <3>5
    <3>7. Large(i + 1)
      BY <3>6
    <3> QED
      BY <2>1, <3>7
  <2> QED
    BY <2>2, <2>3
<1>6. N \in S
  <2> HIDE DEF S
  <2>1. 0 .. N \subseteq S
    BY <1>2, <1>4, <1>5, UpTo
  <2> QED
    BY <1>2, <2>1
<1>7. CASE Settled(f[N], U, step)
  BY <1>1, <1>7
<1>8. CASE Cardinality(f[N]) >= N
  <2>1. f[N] = U
    BY <1>2, <1>3, <1>8
  <2> QED
    BY <1>1, <2>1 DEF Settled
<1> QED
  BY <1>6, <1>7, <1>8

\* It is the least such set.
LEMMA LeastIsLeast ==
  ASSUME NEW U, NEW step, IsFiniteSet(U), Monotone(U, step), NEW S, Settled(S, U, step)
  PROVE  Least(U, step) \subseteq S
<1> DEFINE N == Cardinality(U)
<1>1. PICK f : Rounds(f, N, U, step) /\ Least(U, step) = f[N]
  BY LeastIsARound
<1>2. N \in Nat
  BY FS_CardinalityType
<1> DEFINE D == {i \in 0 .. N : f[i] \subseteq S}
<1> HIDE DEF N
<1>3. 0 \in D
  BY <1>1, <1>2 DEF Rounds
<1>4. ASSUME NEW i \in 0 .. N, i \in D, i < N
      PROVE  i + 1 \in D
  <2>1. i + 1 \in 0 .. N /\ i + 1 # 0 /\ (i + 1) - 1 = i
    BY <1>2, <1>4
  <2>2. f[i] \in SUBSET U /\ f[i + 1] = f[i] \cup (U \cap step[f[i]])
    BY <1>1, <2>1 DEF Rounds
  <2>3. step[f[i]] \subseteq step[S]
    BY <1>4, <2>2 DEF Monotone, Settled
  <2> QED
    BY <1>4, <2>1, <2>2, <2>3 DEF Settled
<1>5. 0 .. N \subseteq D
  <2> HIDE DEF D
  <2> QED
    BY <1>2, <1>3, <1>4, UpTo
<1> QED
  BY <1>1, <1>2, <1>5

\* Nothing is in it without a reason.
LEMMA LeastSupported ==
  ASSUME NEW U, NEW step, IsFiniteSet(U), Monotone(U, step)
  PROVE  Least(U, step) \subseteq U \cap step[Least(U, step)]
<1> DEFINE L == Least(U, step)
           S == U \cap step[L]
<1>1. Settled(L, U, step)
  BY LeastSettled
<1> HIDE DEF L
<1>2. Settled(S, U, step)
  BY <1>1 DEF Settled, Monotone
<1> HIDE DEF S
<1>3. L \subseteq S
  BY <1>2, LeastIsLeast DEF L
<1> QED
  BY <1>3 DEF L, S

-----------------------------------------------------------------------------
(***************************************************************************)
(* Closures and topological orders.                                        *)
(***************************************************************************)
\* A closure is in the graph, it holds the deps of its node and of its own
\* elements, and it is the least set that does.
LEMMA ClosureLaws ==
  ASSUME NEW g, IsFiniteSet(DOMAIN g), NEW n
  PROVE  LET C == DependencyClosure(g, n)
         IN  /\ C \subseteq DOMAIN g
             /\ PresentDeps(g, n) \subseteq C
             /\ \A m \in C : PresentDeps(g, m) \subseteq C
             /\ \A S \in SUBSET DOMAIN g :
                  PresentDeps(g, n) \subseteq S /\ (\A m \in S : PresentDeps(g, m) \subseteq S)
                  => C \subseteq S
<1> DEFINE U == DOMAIN g
           step == [S \in SUBSET U |->
                      PresentDeps(g, n) \cup UNION {PresentDeps(g, m) : m \in S}]
           C == Least(U, step)
<1>1. DependencyClosure(g, n) = C
  BY DEF DependencyClosure
<1>2. \A m : PresentDeps(g, m) \subseteq U
  BY DEF PresentDeps
<1>3. Monotone(U, step)
  BY DEF Monotone
<1>4. Settled(C, U, step)
  <2> HIDE DEF U, step
  <2> QED
    BY LeastSettled DEF U
<1>5. ASSUME NEW S \in SUBSET U, PresentDeps(g, n) \subseteq S,
             \A m \in S : PresentDeps(g, m) \subseteq S
      PROVE  C \subseteq S
  <2>1. Settled(S, U, step)
    BY <1>5 DEF Settled
  <2> HIDE DEF U, step
  <2> QED
    BY <1>3, <2>1, LeastIsLeast DEF U
<1> HIDE DEF C
<1>6. /\ C \subseteq U /\ PresentDeps(g, n) \subseteq C
      /\ \A m \in C : PresentDeps(g, m) \subseteq C
  BY <1>2, <1>4 DEF Settled
<1> QED
  BY <1>1, <1>5, <1>6

\* What is below a node below n is below n.
LEMMA ClosureTransitive ==
  ASSUME NEW g, IsFiniteSet(DOMAIN g), NEW n, NEW m \in DependencyClosure(g, n)
  PROVE  DependencyClosure(g, m) \subseteq DependencyClosure(g, n)
<1>1. DependencyClosure(g, n) \in SUBSET DOMAIN g
  BY ClosureLaws
<1> QED
  BY <1>1, ClosureLaws

\* What is below n is a dep of it or below one.
LEMMA ClosureUnfolds ==
  ASSUME NEW g, IsFiniteSet(DOMAIN g), NEW n, NEW m \in DependencyClosure(g, n)
  PROVE  \E d \in PresentDeps(g, n) : m = d \/ m \in DependencyClosure(g, d)
<1> DEFINE below == UNION {{d} \cup DependencyClosure(g, d) : d \in PresentDeps(g, n)}
<1>1. below \in SUBSET DOMAIN g
  BY ClosureLaws DEF PresentDeps
<1>2. PresentDeps(g, n) \subseteq below
  OBVIOUS
<1>3. \A k \in below : PresentDeps(g, k) \subseteq below
  BY ClosureLaws
<1>4. DependencyClosure(g, n) \subseteq below
  <2> HIDE DEF below
  <2> QED
    BY <1>1, <1>2, <1>3, ClosureLaws
<1> QED
  BY <1>4

\* A graph with more deps has larger closures.
LEMMA ClosureMonotone ==
  ASSUME NEW g, NEW h, IsFiniteSet(DOMAIN g), IsFiniteSet(DOMAIN h),
         \A m \in DOMAIN g : m \in DOMAIN h /\ g[m].deps \subseteq h[m].deps,
         NEW n \in DOMAIN g
  PROVE  DependencyClosure(g, n) \subseteq DependencyClosure(h, n)
<1> DEFINE S == DependencyClosure(h, n) \cap DOMAIN g
<1>1. \A m \in DOMAIN g : PresentDeps(g, m) \subseteq PresentDeps(h, m) \cap DOMAIN g
  BY DEF PresentDeps
<1>2. /\ S \in SUBSET DOMAIN g /\ PresentDeps(g, n) \subseteq S
      /\ \A m \in S : PresentDeps(g, m) \subseteq S
  BY <1>1, ClosureLaws
<1> HIDE DEF S
<1>3. DependencyClosure(g, n) \subseteq S
  BY <1>2, ClosureLaws
<1> QED
  BY <1>3 DEF S

LEMMA SameClosures ==
  ASSUME NEW g, NEW h, IsFiniteSet(DOMAIN g), DOMAIN h = DOMAIN g,
         \A m \in DOMAIN g : h[m].deps = g[m].deps,
         NEW n \in DOMAIN g
  PROVE  DependencyClosure(h, n) = DependencyClosure(g, n)
<1>1. DependencyClosure(g, n) \subseteq DependencyClosure(h, n)
  BY ClosureMonotone
<1>2. DependencyClosure(h, n) \subseteq DependencyClosure(g, n)
  BY ClosureMonotone
<1> QED
  BY <1>1, <1>2

\* TopoSort emits a node exactly when it emits all its deps, and no node that
\* need not be emitted for that.
LEMMA TopoLaws ==
  ASSUME NEW g, IsFiniteSet(DOMAIN g)
  PROVE  LET T == TopoSort(g)
         IN  /\ T \subseteq DOMAIN g
             /\ \A n \in DOMAIN g : n \in T <=> PresentDeps(g, n) \subseteq T
             /\ \A S \in SUBSET DOMAIN g :
                  (\A n \in DOMAIN g : PresentDeps(g, n) \subseteq S => n \in S) => T \subseteq S
<1> DEFINE U == DOMAIN g
           step == [S \in SUBSET U |-> {n \in U : PresentDeps(g, n) \subseteq S}]
           T == Least(U, step)
<1>1. TopoSort(g) = T
  BY DEF TopoSort
<1>2. Monotone(U, step)
  BY DEF Monotone
<1>3. Settled(T, U, step) /\ T \subseteq U \cap step[T]
  <2> HIDE DEF U, step
  <2> QED
    BY <1>2, LeastSettled, LeastSupported DEF U
<1>4. ASSUME NEW S \in SUBSET U, \A n \in U : PresentDeps(g, n) \subseteq S => n \in S
      PROVE  T \subseteq S
  <2>1. Settled(S, U, step)
    BY <1>4 DEF Settled
  <2> HIDE DEF U, step
  <2> QED
    BY <1>2, <2>1, LeastIsLeast DEF U
<1> HIDE DEF T
<1>5. T \subseteq U /\ \A n \in U : n \in T <=> PresentDeps(g, n) \subseteq T
  BY <1>3 DEF Settled
<1> QED
  BY <1>1, <1>4, <1>5

\* With a node everything below it is emitted, and it is not below itself.
LEMMA TopoAcyclic ==
  ASSUME NEW g, IsFiniteSet(DOMAIN g), NEW n \in TopoSort(g)
  PROVE  DependencyClosure(g, n) \subseteq TopoSort(g) /\ n \notin DependencyClosure(g, n)
<1> DEFINE T == TopoSort(g)
           S == {m \in T : m \notin DependencyClosure(g, m)}
<1>1. T \in SUBSET DOMAIN g /\ \A m \in T : PresentDeps(g, m) \subseteq T
  BY TopoLaws
<1>2. DependencyClosure(g, n) \subseteq T
  BY <1>1, ClosureLaws
<1>3. ASSUME NEW m \in DOMAIN g, PresentDeps(g, m) \subseteq S
      PROVE  m \in S
  <2>1. m \in T
    BY <1>3, TopoLaws
  <2>2. ASSUME m \in DependencyClosure(g, m)
        PROVE  FALSE
    <3>1. PICK d \in PresentDeps(g, m) : m = d \/ m \in DependencyClosure(g, d)
      BY <2>2, ClosureUnfolds
    <3>2. d \in DependencyClosure(g, m) /\ d \notin DependencyClosure(g, d)
      BY <1>3, ClosureLaws
    <3>3. CASE m = d
      BY <3>2, <3>3
    <3>4. CASE m \in DependencyClosure(g, d)
      BY <3>2, <3>4, ClosureTransitive
    <3> QED
      BY <3>1, <3>3, <3>4
  <2> QED
    BY <2>1, <2>2
<1>4. T \subseteq S
  <2>1. S \in SUBSET DOMAIN g
    BY <1>1
  <2> HIDE DEF S
  <2> QED
    BY <1>3, <2>1, TopoLaws
<1> QED
  BY <1>2, <1>4

\* Induction along the order: a set that has a node as soon as it has all that
\* is below it has every node that is emitted.
LEMMA TopoInduction ==
  ASSUME NEW g, IsFiniteSet(DOMAIN g), NEW S,
         \A n \in TopoSort(g) : DependencyClosure(g, n) \subseteq S => n \in S
  PROVE  TopoSort(g) \subseteq S
<1> DEFINE T == TopoSort(g)
           D == {n \in T : n \in S /\ DependencyClosure(g, n) \subseteq S}
<1>1. D \in SUBSET DOMAIN g
  BY TopoLaws
<1>2. ASSUME NEW n \in DOMAIN g, PresentDeps(g, n) \subseteq D
      PROVE  n \in D
  <2>1. n \in T
    BY <1>2, TopoLaws
  <2>2. DependencyClosure(g, n) \subseteq S
    BY <1>2, ClosureUnfolds
  <2> QED
    BY <2>1, <2>2
<1>3. T \subseteq D
  <2> HIDE DEF D
  <2> QED
    BY <1>1, <1>2, TopoLaws
<1> QED
  BY <1>3

-----------------------------------------------------------------------------
(***************************************************************************)
(* States.                                                                 *)
(***************************************************************************)
GreenBelow(g, n, st) == {d \in DependencyClosure(g, n) \ {n} : st[d].state = "GREEN"}

\* st is the states of the nodes of D.
States(g, D, st) == st = [n \in D |-> NodeState(g, n, GreenBelow(g, n, st))]

\* Of some subsets of a finite set one is in no other.
LEMMA LargestOf ==
  ASSUME NEW T, IsFiniteSet(T), NEW Known \in SUBSET SUBSET T, Known # {}
  PROVE  \E D \in Known : \A E \in Known : D \subseteq E => E = D
<1> DEFINE Rest == {T \ D : D \in Known}
<1>1. Rest \subseteq FiniteSubsetsOf(T) /\ Rest # {}
  <2>1. \A D \in Known : T \ D \in FiniteSubsetsOf(T)
    BY FS_Subset DEF FiniteSubsetsOf
  <2>2. PICK D \in Known : TRUE
    OBVIOUS
  <2>3. T \ D \in Rest
    OBVIOUS
  <2>4. ASSUME NEW y \in Rest
        PROVE  y \in FiniteSubsetsOf(T)
    BY <2>1, <2>4
  <2> QED
    BY <2>3, <2>4
<1>2. PICK x \in Rest : \A y \in Rest : ~(<<y, x>> \in StrictSubsetOrdering(T))
  <2> HIDE DEF Rest
  <2> QED
    BY <1>1, WFMin, FS_StrictSubsetOrderingWellFounded
<1>3. PICK D \in Known : x = T \ D
  OBVIOUS
<1>4. ASSUME NEW E \in Known, D \subseteq E, E # D
      PROVE  FALSE
  <2>1. T \ E \in Rest /\ T \ E \in SUBSET T /\ x \in SUBSET T
    BY <1>3
  <2>2. T \ E \subseteq x /\ T \ E # x
    BY <1>3, <1>4
  <2>3. <<T \ E, x>> \in StrictSubsetOrdering(T)
    <3> HIDE DEF Rest
    <3> QED
      BY <2>1, <2>2 DEF StrictSubsetOrdering
  <2> QED
    BY <1>2, <2>1, <2>3
<1> QED
  BY <1>4

\* One pass over the order finds them: a set of nodes that have states, and
\* that lacks one, lacks one whose states below are known.
LEMMA StatesExist ==
  ASSUME NEW g, IsFiniteSet(DOMAIN g)
  PROVE  \E st : States(g, TopoSort(g), st)
<1> DEFINE T == TopoSort(g)
           Below(D) == \A n \in D : PresentDeps(g, n) \subseteq D
           Known == {D \in SUBSET T : Below(D) /\ \E st : States(g, D, st)}
<1>1. T \in SUBSET DOMAIN g /\ IsFiniteSet(T)
  BY TopoLaws, FS_Subset
<1>2. {} \in Known
  <2>1. States(g, {}, [n \in {} |-> NodeState(g, n, GreenBelow(g, n, <<>>))])
    BY DEF States
  <2> QED
    BY <2>1
<1>3. PICK D \in Known : \A E \in Known : D \subseteq E => E = D
  <2>1. Known \subseteq SUBSET T /\ Known # {}
    BY <1>2
  <2> HIDE DEF Known
  <2> QED
    BY <1>1, <2>1, LargestOf
<1>4. PICK st : States(g, D, st)
  BY <1>3
<1>5. D \in SUBSET T /\ Below(D)
  BY <1>3
<1>6. CASE T \subseteq D
  <2>1. T = D
    BY <1>5, <1>6
  <2> QED
    BY <1>4, <2>1
<1>7. CASE ~(T \subseteq D)
  <2>1. PICK n \in DOMAIN g : PresentDeps(g, n) \subseteq D /\ n \notin D
    <3>1. D \in SUBSET DOMAIN g
      BY <1>1, <1>5
    <3> HIDE DEF Known
    <3> QED
      BY <1>7, <3>1, TopoLaws
  <2>2. n \in T
    BY <1>5, <2>1, TopoLaws
  <2> DEFINE E == D \cup {n}
             new == NodeState(g, n, GreenBelow(g, n, st))
             su == [m \in E |-> IF m = n THEN new ELSE st[m]]
  <2>3. \A m \in E : DependencyClosure(g, m) \ {m} \subseteq D
    <3>1. D \in SUBSET DOMAIN g
      BY <1>1, <1>5
    <3>2. \A m \in D : DependencyClosure(g, m) \subseteq D
      BY <1>5, <3>1, ClosureLaws
    <3>3. DependencyClosure(g, n) \subseteq D
      BY <1>5, <2>1, <3>1, ClosureLaws
    <3> QED
      BY <3>2, <3>3
  <2> HIDE DEF Known
  <2>4. \A m \in E : GreenBelow(g, m, su) = GreenBelow(g, m, st)
    BY <2>1, <2>3 DEF GreenBelow
  <2>5. \A m \in D : su[m] = NodeState(g, m, GreenBelow(g, m, st))
    BY <1>4, <2>1 DEF States
  <2>6. su[n] = NodeState(g, n, GreenBelow(g, n, st))
    OBVIOUS
  <2>7. \A m \in E : su[m] = NodeState(g, m, GreenBelow(g, m, su))
    BY <2>4, <2>5, <2>6
  <2>8. su = [m \in E |-> su[m]]
    OBVIOUS
  <2> HIDE DEF su, new
  <2>9. States(g, E, su)
    BY <2>7, <2>8 DEF States
  <2>10. E \in SUBSET T /\ Below(E)
    BY <1>5, <2>1, <2>2
  <2>11. E \in Known
    BY <2>9, <2>10 DEF Known
  <2>12. D \subseteq E /\ E # D
    BY <2>1
  <2> QED
    BY <1>3, <2>11, <2>12
<1> QED
  BY <1>6, <1>7

\* Derive gives an ordered node the state its observation and the states below
\* it make, and blocks the others.
LEMMA DeriveLaws ==
  ASSUME NEW g, IsFiniteSet(DOMAIN g)
  PROVE  /\ DOMAIN Derive(g) = DOMAIN g
         /\ \A n \in TopoSort(g) :
              Derive(g)[n] = NodeState(g, n, GreenBelow(g, n, Derive(g)))
         /\ \A n \in DOMAIN g \ TopoSort(g) : Derive(g)[n].state = "BLOCKED"
                                              /\ ~Derive(g)[n].frontier
<1> DEFINE T == TopoSort(g)
           IsStates(st) ==
             st = [n \in T |-> NodeState(g, n, {d \in DependencyClosure(g, n) \ {n} :
                                                  st[d].state = "GREEN"})]
           st == CHOOSE st : IsStates(st)
<1>1. \E su : IsStates(su)
  BY StatesExist DEF States, GreenBelow
<1>2. IsStates(st)
  BY <1>1
<1>3. Derive(g) = [n \in DOMAIN g |->
                     IF n \in T THEN st[n]
                     ELSE [state |-> "BLOCKED", frontier |-> FALSE, inCycle |-> TRUE]]
  BY DEF Derive
<1> HIDE DEF st
<1>4. T \subseteq DOMAIN g /\ \A n \in T : DependencyClosure(g, n) \subseteq T
  BY TopoLaws, TopoAcyclic
<1>5. \A n \in T : Derive(g)[n] = st[n]
  BY <1>3, <1>4
<1>6. \A n \in T : st[n] = NodeState(g, n, GreenBelow(g, n, st))
  BY <1>2 DEF GreenBelow
<1>7. \A n \in T : GreenBelow(g, n, st) = GreenBelow(g, n, Derive(g))
  BY <1>4, <1>5 DEF GreenBelow
<1> QED
  BY <1>3, <1>5, <1>6, <1>7

\* What is GREEN: a node that passes, at its revision and cleanly, and that
\* nothing below it makes stale.
LEMMA GreenMeans ==
  ASSUME NEW g, IsFiniteSet(DOMAIN g), NEW n \in DOMAIN g, Derive(g)[n].state = "GREEN"
  PROVE  /\ n \in TopoSort(g)
         /\ g[n].obs # None /\ g[n].obs.rev = g[n].rev /\ g[n].obs.clean
         /\ g[n].obs.result # "fail"
         /\ DependencyStale(g, n) = {}
         /\ ReviewStale(g, n, GreenBelow(g, n, Derive(g))) = {}
<1>1. n \in TopoSort(g)
  BY DeriveLaws
<1>2. NodeState(g, n, GreenBelow(g, n, Derive(g))).state = "GREEN"
  BY <1>1, DeriveLaws
<1> QED
  BY <1>1, <1>2 DEF NodeState

-----------------------------------------------------------------------------
(***************************************************************************)
(* Reviews.                                                                *)
(***************************************************************************)
\* What is below a gate and not in its scope is a current full review below
\* it, or below one.
LEMMA ScopeOrCovered ==
  ASSUME NEW g, NEW r, NEW current, NEW m \in DependencyClosure(g, r) \ {r},
         m \notin ReviewScope(g, r, current)
  PROVE  \E q \in DependencyClosure(g, r) \ {r} :
           /\ g[q].gate = "review" /\ g[q].full /\ q \in current
           /\ m = q \/ m \in DependencyClosure(g, q)
BY DEF ReviewScope

\* The evidence of review r does not cover node n as it is.
Outdated(g, r, n) ==
  LET reviewed == g[r].obs.reviewed
  IN  IF reviewed = None THEN g[n].rev > 1
                         ELSE n \notin DOMAIN reviewed \/ g[n].rev > reviewed[n]

\* No review is GREEN above a node that is not, and that the evidence of no
\* review in between covers: the lowest of them would have it in its scope.
LEMMA OutdatedNotGreen ==
  ASSUME NEW g, IsFiniteSet(DOMAIN g), NEW n \in DOMAIN g, Derive(g)[n].state # "GREEN",
         NEW top \in DOMAIN g, g[top].gate = "review", n \in DependencyClosure(g, top) \ {top},
         \A r \in {top} \cup DependencyClosure(g, top) :
           g[r].gate = "review" /\ g[r].obs # None /\ n \in DependencyClosure(g, r) \ {r}
           => Outdated(g, r, n)
  PROVE  Derive(g)[top].state # "GREEN"
<1> DEFINE Above(r) == /\ r \in {top} \cup DependencyClosure(g, top)
                       /\ g[r].gate = "review" /\ n \in DependencyClosure(g, r) \ {r}
           S == {r \in DOMAIN g : Above(r) => Derive(g)[r].state # "GREEN"}
<1>1. ASSUME NEW r \in TopoSort(g), DependencyClosure(g, r) \subseteq S
      PROVE  r \in S
  <2>1. r \in DOMAIN g
    BY TopoLaws
  <2> SUFFICES ASSUME Above(r), Derive(g)[r].state = "GREEN" PROVE FALSE
    BY <2>1
  <2> DEFINE green == GreenBelow(g, r, Derive(g))
  <2>2. g[r].obs # None /\ ReviewStale(g, r, green) = {}
    BY <2>1, GreenMeans
  <2>3. CASE n \in ReviewScope(g, r, green)
    <3>1. Outdated(g, r, n)
      BY <2>2
    <3>2. n \in ReviewStale(g, r, green)
      BY <2>3, <3>1 DEF ReviewStale, Outdated
    <3> QED
      BY <2>2, <3>2
  <2>4. CASE n \notin ReviewScope(g, r, green)
    <3>1. PICK q \in DependencyClosure(g, r) \ {r} :
            /\ g[q].gate = "review" /\ q \in green
            /\ n = q \/ n \in DependencyClosure(g, q)
      BY <2>4, ScopeOrCovered
    <3>2. Derive(g)[q].state = "GREEN" /\ q # n
      BY <3>1 DEF GreenBelow
    <3>3. q \in {top} \cup DependencyClosure(g, top)
      BY ClosureTransitive
    <3>4. Above(q) /\ q \in S
      BY <1>1, <3>1, <3>2, <3>3
    <3> QED
      BY <3>2, <3>4
  <2> QED
    BY <2>3, <2>4
<1>2. TopoSort(g) \subseteq S
  <2> HIDE DEF S
  <2> QED
    BY <1>1, TopoInduction
<1>3. ASSUME Derive(g)[top].state = "GREEN"
      PROVE  FALSE
  <2>1. top \in S
    BY <1>2, <1>3, GreenMeans
  <2> QED
    BY <1>3, <2>1
<1> QED
  BY <1>3

\* What a GREEN review binds: everything in its scope, at its revision, and
\* not observed since.
LEMMA GreenReviewCovers ==
  ASSUME NEW g, IsFiniteSet(DOMAIN g), NEW r \in DOMAIN g, g[r].gate = "review",
         Derive(g)[r].state = "GREEN",
         NEW m \in ReviewScope(g, r, GreenBelow(g, r, Derive(g)))
  PROVE  /\ ~Outdated(g, r, m)
         /\ ~ObservedSince(g, m, g[r].obs)
<1>1. ReviewStale(g, r, GreenBelow(g, r, Derive(g))) = {}
  BY GreenMeans
<1> QED
  BY <1>1 DEF ReviewStale, Outdated

\* Whether all GREEN nodes are given or those below the gate, its scope is the
\* same.
LEMMA ScopeOfStates ==
  ASSUME NEW g, NEW n, DependencyClosure(g, n) \subseteq DOMAIN g
  PROVE  ReviewScopeFromStates(g, n, Derive(g)) = ReviewScope(g, n, GreenBelow(g, n, Derive(g)))
BY DEF ReviewScopeFromStates, ReviewScope, GreenBelow

=============================================================================
