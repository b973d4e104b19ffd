-------------------------- MODULE GraphViews_proofs --------------------------
(***************************************************************************)
(* Theorems about GraphViews, for every graph, set of labels and bound,    *)
(* and any number of sessions: what a frozen view shows was closed, no     *)
(* command thaws one, and a README that says complete stands over views    *)
(* that do.                                                                *)
(***************************************************************************)
EXTENDS GraphViews, TLAPS, FiniteSetTheorems

-----------------------------------------------------------------------------
(***************************************************************************)
(* Ranking a finite set.                                                   *)
(***************************************************************************)
\* A numbering without repetition, from 0 and below the size of the set, uses
\* every number.
LEMMA EveryRank ==
  ASSUME NEW S, IsFiniteSet(S), NEW r, r \in [S -> 0 .. Cardinality(S) - 1],
         \A x, y \in S : r[x] = r[y] => x = y
  PROVE  /\ Cardinality(S) \in Nat
         /\ \A k \in 0 .. Cardinality(S) - 1 : \E x \in S : r[x] = k
<1>1. Cardinality(S) \in Nat
  BY FS_CardinalityType
<1> DEFINE T == 0 .. Cardinality(S) - 1
<1>2. IsFiniteSet(T) /\ Cardinality(T) = Cardinality(S)
  BY <1>1, FS_Interval
<1>3. r \in Injection(S, T)
  BY DEF Injection, IsInjective
<1>4. r \in Surjection(S, T)
  BY <1>2, <1>3, FS_Injection
<1> QED
  BY <1>1, <1>4 DEF Surjection

\* What comes before x, when what comes before is a strict linear order.
LEMMA RankIsNumbering ==
  ASSUME NEW S, IsFiniteSet(S), NEW B, B \in [S -> SUBSET S],
         \A x \in S : x \notin B[x],
         \A x, y \in S : x # y => x \in B[y] \/ y \in B[x],
         \A x, y \in S : x \in B[y] => B[x] \subseteq B[y]
  PROVE  LET r == [x \in S |-> Cardinality(B[x])]
         IN  /\ r \in [S -> 0 .. Cardinality(S) - 1]
             /\ \A x, y \in S : r[x] = r[y] => x = y
<1>1. Cardinality(S) \in Nat
  BY FS_CardinalityType
<1>2. ASSUME NEW x \in S PROVE /\ IsFiniteSet(B[x]) /\ Cardinality(B[x]) \in 0 .. Cardinality(S) - 1
  <2>1. IsFiniteSet(B[x]) /\ Cardinality(B[x]) <= Cardinality(S) /\ (Cardinality(S) = Cardinality(B[x]) => S = B[x])
    BY FS_Subset
  <2>2. Cardinality(B[x]) \in Nat
    BY <2>1, FS_CardinalityType
  <2> QED
    BY <1>1, <2>1, <2>2
<1>3. ASSUME NEW x \in S, NEW y \in S, x \in B[y] PROVE Cardinality(B[x]) # Cardinality(B[y])
  <2>1. B[x] \in SUBSET B[y] /\ B[x] # B[y]
    BY <1>3
  <2> QED
    BY <1>2, <2>1, FS_Subset
<1> QED
  BY <1>2, <1>3

-----------------------------------------------------------------------------
\* B gives for each element of S what is before it, in a strict linear order.
Orders(B, S) ==
  /\ B \in [S -> SUBSET S] /\ \A x \in S : x \notin B[x]
  /\ \A x, y \in S : x # y => x \in B[y] \/ y \in B[x]
  /\ \A x, y \in S : x \in B[y] => B[x] \subseteq B[y]

\* A list that has at each place, if anything, what so many are before.
Places(q, B, S) ==
  \A k \in 1 .. Cardinality(S) :
    (\E x \in S : Cardinality(B[x]) = k - 1) => q[k] \in S /\ Cardinality(B[q[k]]) = k - 1

Lists(q, B, S) ==
  /\ Cardinality(S) \in Nat
  /\ \A k \in 1 .. Cardinality(S) : q[k] \in S /\ Cardinality(B[q[k]]) = k - 1
  /\ \A x \in S : \E k \in 1 .. Cardinality(S) : q[k] = x

\* A set listed by the number of elements before each.
LEMMA RankedBy ==
  ASSUME NEW S, IsFiniteSet(S), NEW B, Orders(B, S), NEW q, Places(q, B, S)
  PROVE  Lists(q, B, S)
<1>1. PICK r : r = [x \in S |-> Cardinality(B[x])]
  OBVIOUS
<1>2. r \in [S -> 0 .. Cardinality(S) - 1] /\ \A x, y \in S : r[x] = r[y] => x = y
  BY <1>1, RankIsNumbering DEF Orders
<1>3. Cardinality(S) \in Nat /\ \A k \in 0 .. Cardinality(S) - 1 : \E x \in S : r[x] = k
  BY <1>2, EveryRank
<1>4. ASSUME NEW k \in 1 .. Cardinality(S) PROVE q[k] \in S /\ Cardinality(B[q[k]]) = k - 1
  <2>1. k - 1 \in 0 .. Cardinality(S) - 1
    BY <1>3
  <2>2. \E x \in S : Cardinality(B[x]) = k - 1
    BY <1>1, <1>3, <2>1
  <2> QED
    BY <2>2 DEF Places
<1>5. ASSUME NEW x \in S PROVE \E k \in 1 .. Cardinality(S) : q[k] = x
  <2>1. PICK k : k = r[x] + 1
    OBVIOUS
  <2>2. k \in 1 .. Cardinality(S) /\ r[x] = k - 1
    BY <1>2, <1>3, <2>1
  <2>3. q[k] \in S /\ r[q[k]] = r[x]
    BY <1>1, <1>4, <2>2
  <2> QED
    BY <1>2, <2>2, <2>3
<1> QED
  BY <1>3, <1>4, <1>5 DEF Lists

LabelsBefore(S, x)  == {y \in S : LabelBefore(y, x)}
NumbersBelow(S, x) == {y \in S : y < x}

\* Labels are in a strict linear order, unlabelled last.
LEMMA LabelOrder ==
  ASSUME NEW x \in Nat, NEW y \in Nat, NEW z \in Nat
  PROVE  /\ ~LabelBefore(x, x) /\ (x # y => LabelBefore(x, y) \/ LabelBefore(y, x))
         /\ LabelBefore(x, y) /\ LabelBefore(y, z) => LabelBefore(x, z)
<1>1. x < y \/ x = y \/ y < x
  OBVIOUS
<1>2. x < y /\ y < z => x < z
  OBVIOUS
<1>3. x # 0 /\ x < y => y # 0
  OBVIOUS
<1>4. ~(x < x)
  OBVIOUS
<1> QED
  BY <1>1, <1>2, <1>3, <1>4, Zenon DEF LabelBefore

LEMMA RankedLabels ==
  ASSUME NEW S, S \subseteq DOMAIN Slug, NEW q, q = Ranked(S, LabelBefore)
  PROVE  /\ Cardinality(S) \in Nat /\ Cardinality(S) <= Cardinality(DOMAIN Slug)
         /\ DOMAIN q = 1 .. Cardinality(S)
         /\ \A k \in 1 .. Cardinality(S) : q[k] \in S
         /\ \A x \in S : \E k \in 1 .. Cardinality(S) : q[k] = x
<1>1. S \subseteq Nat /\ IsFiniteSet(S) /\ Cardinality(S) <= Cardinality(DOMAIN Slug)
  BY ViewsAssumption, FS_Subset
<1>2. PICK B : B = [x \in S |-> LabelsBefore(S, x)]
  OBVIOUS
<1>3. Orders(B, S)
  <2>1. \A x, y \in S : x \in B[y] <=> LabelBefore(x, y)
    BY <1>2 DEF LabelsBefore
  <2>2. B \in [S -> SUBSET S]
    BY <1>2 DEF LabelsBefore
  <2>3. /\ \A x \in S : ~(LabelBefore(x, x))
        /\ \A x, y \in S : x # y => LabelBefore(x, y) \/ LabelBefore(y, x)
        /\ \A x, y, z \in S : LabelBefore(x, y) /\ LabelBefore(y, z) => LabelBefore(x, z)
    BY <1>1, LabelOrder
  <2>4. ASSUME NEW x \in S, NEW y \in S, x \in B[y], NEW z \in B[x] PROVE z \in B[y]
    BY <2>1, <2>2, <2>3, <2>4
  <2> QED
    BY <2>1, <2>2, <2>3, <2>4 DEF Orders
<1>4. /\ DOMAIN q = 1 .. Cardinality(S)
      /\ \A k \in 1 .. Cardinality(S) :
           (\E x \in S : Cardinality(LabelsBefore(S, x)) = k - 1)
              => q[k] \in S /\ Cardinality(LabelsBefore(S, q[k])) = k - 1
  <2>1. q = [k \in 1 .. Cardinality(S) |-> CHOOSE x \in S : Cardinality(LabelsBefore(S, x)) = k - 1]
    BY Zenon DEF Ranked, LabelsBefore
  <2> QED
    BY <2>1
<1>5. Places(q, B, S)
  BY <1>2, <1>4 DEF Places
<1>6. Lists(q, B, S)
  BY <1>1, <1>3, <1>5, RankedBy
<1> QED
  BY <1>1, <1>2, <1>4, <1>6 DEF Lists, LabelsBefore

LEMMA RankedNumbers ==
  ASSUME NEW S, S \subseteq Nat, IsFiniteSet(S), NEW q, q = Ranked(S, Earlier)
  PROVE  /\ Cardinality(S) \in Nat
         /\ DOMAIN q = 1 .. Cardinality(S)
         /\ \A k \in 1 .. Cardinality(S) : q[k] \in S /\ Cardinality(NumbersBelow(S, q[k])) = k - 1
         /\ \A x \in S : \E k \in 1 .. Cardinality(S) : q[k] = x
<1>1. S \subseteq Nat /\ IsFiniteSet(S)
  OBVIOUS
<1>2. PICK B : B = [x \in S |-> NumbersBelow(S, x)]
  OBVIOUS
<1>3. Orders(B, S)
  <2>1. \A x, y \in S : x \in B[y] <=> x < y
    BY <1>2 DEF NumbersBelow
  <2>2. B \in [S -> SUBSET S]
    BY <1>2 DEF NumbersBelow
  <2>3. /\ \A x \in S : ~(x < x)
        /\ \A x, y \in S : x # y => x < y \/ y < x
        /\ \A x, y, z \in S : x < y /\ y < z => x < z
    BY <1>1 DEF LabelBefore
  <2>4. ASSUME NEW x \in S, NEW y \in S, x \in B[y], NEW z \in B[x] PROVE z \in B[y]
    BY <2>1, <2>2, <2>3, <2>4
  <2> QED
    BY <2>1, <2>2, <2>3, <2>4 DEF Orders
<1>4. /\ DOMAIN q = 1 .. Cardinality(S)
      /\ \A k \in 1 .. Cardinality(S) :
           (\E x \in S : Cardinality(NumbersBelow(S, x)) = k - 1)
              => q[k] \in S /\ Cardinality(NumbersBelow(S, q[k])) = k - 1
  <2>1. q = [k \in 1 .. Cardinality(S) |-> CHOOSE x \in S : Cardinality(NumbersBelow(S, x)) = k - 1]
    BY Zenon DEF Ranked, NumbersBelow, Earlier
  <2> QED
    BY <2>1
<1>5. Places(q, B, S)
  BY <1>2, <1>4 DEF Places
<1>6. Lists(q, B, S)
  BY <1>1, <1>3, <1>5, RankedBy
<1> QED
  BY <1>1, <1>2, <1>4, <1>6 DEF Lists, NumbersBelow

\* The library's Min and Max of a finite set of numbers are in it.
LEMMA Extremes ==
  ASSUME NEW S, S \subseteq Nat, IsFiniteSet(S), S # {}
  PROVE  /\ Min(S) \in S /\ \A y \in S : Min(S) <= y
         /\ Max(S) \in S /\ \A y \in S : Max(S) >= y
<1>1. PICK q : q = Ranked(S, Earlier)
  OBVIOUS
<1>2. /\ Cardinality(S) \in Nat
      /\ \A k \in 1 .. Cardinality(S) : q[k] \in S /\ Cardinality(NumbersBelow(S, q[k])) = k - 1
  BY <1>1, RankedNumbers
<1>3. Cardinality(S) # 0
  BY FS_EmptySet
<1>4. PICK l \in S : Cardinality(NumbersBelow(S, l)) = 0
  <2>1. q[1] \in S /\ Cardinality(NumbersBelow(S, q[1])) = 0
    BY <1>2, <1>3
  <2> QED
    BY <2>1
<1>5. PICK m \in S : Cardinality(NumbersBelow(S, m)) = Cardinality(S) - 1
  <2>1. q[Cardinality(S)] \in S /\ Cardinality(NumbersBelow(S, q[Cardinality(S)])) = Cardinality(S) - 1
    BY <1>2, <1>3
  <2> QED
    BY <2>1
<1>6. \A y \in S : l <= y
  <2>1. IsFiniteSet(NumbersBelow(S, l))
    BY FS_Subset DEF NumbersBelow
  <2>2. NumbersBelow(S, l) = {}
    BY <1>4, <2>1, FS_EmptySet
  <2> QED
    BY <2>2 DEF NumbersBelow
<1>7. \A y \in S : m >= y
  <2>1. IsFiniteSet(S \ {m}) /\ Cardinality(S \ {m}) = Cardinality(S) - 1
    BY FS_RemoveElement
  <2>2. NumbersBelow(S, m) \in SUBSET (S \ {m})
    BY DEF NumbersBelow
  <2>3. S \ {m} = NumbersBelow(S, m)
    BY <1>5, <2>1, <2>2, FS_Subset
  <2> QED
    BY <2>3 DEF NumbersBelow
<1> QED
  BY <1>6, <1>7 DEF Min, Max

-----------------------------------------------------------------------------
(***************************************************************************)
(* Phases and documents, typed.                                            *)
(***************************************************************************)
\* Sequences, and what is in them.
LEMMA ListTyped ==
  ASSUME NEW n \in Nat, NEW S, NEW f, f \in [1 .. n -> S]
  PROVE  f \in Seq(S) /\ Len(f) = n
OBVIOUS

LEMMA ListFacts ==
  ASSUME NEW S, NEW f \in Seq(S)
  PROVE  /\ Len(f) \in Nat /\ DOMAIN f = 1 .. Len(f) /\ f \in [1 .. Len(f) -> S]
         /\ \A x \in Range(f) : x \in S
         /\ IsFiniteSet(DOMAIN f) /\ DOMAIN f \subseteq Nat
<1>1. Len(f) \in Nat /\ DOMAIN f = 1 .. Len(f) /\ f \in [1 .. Len(f) -> S]
  OBVIOUS
<1>2. IsFiniteSet(DOMAIN f)
  BY <1>1, FS_Interval
<1> QED
  BY <1>1, <1>2 DEF Range

PhaseRecord == [ordinal : Nat, label : DOMAIN Slug, doc : Documents, nodes : Seq(Node)]

\* A phase of g: the i-th, with nodes, which are g's.
PhaseOf(g, ph, i) ==
  /\ ph.ordinal = i /\ ph.doc[1] = i
  /\ ph.nodes # <<>> /\ \A k \in DOMAIN ph.nodes : ph.nodes[k] \in Range(g.nodes)

LEMMA NodesOfTyped ==
  ASSUME NEW g, g.nodes \in Seq(Node), NEW l, NEW n \in Range(g.nodes), n.label = l
  PROVE  /\ NodesOf(g, l) \in Seq(Node) /\ NodesOf(g, l) # <<>>
         /\ \A k \in DOMAIN NodesOf(g, l) : NodesOf(g, l)[k] \in Range(g.nodes)
<1>1. PICK S : S = {j \in DOMAIN g.nodes : g.nodes[j].label = l}
  OBVIOUS
<1>2. PICK at : at = Ranked(S, Earlier)
  OBVIOUS
<1>3. S \subseteq Nat /\ IsFiniteSet(S) /\ S # {} /\ S \subseteq DOMAIN g.nodes
  <2>1. IsFiniteSet(DOMAIN g.nodes) /\ DOMAIN g.nodes \subseteq Nat
    BY ListFacts
  <2>2. S \subseteq DOMAIN g.nodes
    BY <1>1
  <2>3. S # {}
    BY <1>1 DEF Range
  <2> QED
    BY <2>1, <2>2, <2>3, FS_Subset
<1>4. /\ Cardinality(S) \in Nat /\ DOMAIN at = 1 .. Cardinality(S)
      /\ \A k \in 1 .. Cardinality(S) : at[k] \in S
  BY <1>2, <1>3, RankedNumbers
<1>5. Cardinality(S) # 0
  BY <1>3, FS_EmptySet
<1>6. PICK q : q = NodesOf(g, l)
  OBVIOUS
<1>7. q = [k \in 1 .. Cardinality(S) |-> g.nodes[at[k]]]
  BY <1>1, <1>2, <1>4, <1>6, Zenon DEF NodesOf
<1>8. \A k \in 1 .. Cardinality(S) : q[k] \in Node /\ q[k] \in Range(g.nodes)
  <2>1. \A j \in S : g.nodes[j] \in Node /\ g.nodes[j] \in Range(g.nodes)
    BY <1>3, ListFacts DEF Range
  <2> QED
    BY <1>4, <1>7, <2>1
<1>9. DOMAIN q = 1 .. Cardinality(S) /\ q \in Seq(Node)
  <2>1. q \in [1 .. Cardinality(S) -> Node]
    BY <1>7, <1>8
  <2> QED
    BY <1>4, <2>1, ListTyped
<1>10. q # <<>>
  BY <1>4, <1>5, <1>9
<1> QED
  BY <1>6, <1>8, <1>9, <1>10

LEMMA GroupsTyped ==
  ASSUME NEW g, g.nodes \in Seq(Node), NEW gs, gs = GroupPhases(g)
  PROVE  /\ gs \in Seq(PhaseRecord)
         /\ \A i \in DOMAIN gs : PhaseOf(g, gs[i], i)
<1>1. PICK S : S = {n.label : n \in Range(g.nodes)}
  OBVIOUS
<1>2. PICK labels : labels = Ranked(S, LabelBefore)
  OBVIOUS
<1>3. S \subseteq DOMAIN Slug
  <2>1. \A n \in Range(g.nodes) : n \in Node
    BY ListFacts
  <2> QED
    BY <1>1, <2>1 DEF Node
<1>4. /\ Cardinality(S) \in Nat /\ Cardinality(S) <= Cardinality(DOMAIN Slug)
      /\ DOMAIN labels = 1 .. Cardinality(S)
      /\ \A k \in 1 .. Cardinality(S) : labels[k] \in S
  BY <1>2, <1>3, RankedLabels
<1>5. gs = [i \in 1 .. Cardinality(S) |->
              [ordinal |-> i, label |-> labels[i], doc |-> <<i, Slug[labels[i]]>>,
               nodes |-> NodesOf(g, labels[i])]]
  BY <1>1, <1>2, <1>4, Zenon DEF GroupPhases
<1>6. ASSUME NEW i \in 1 .. Cardinality(S) PROVE gs[i] \in PhaseRecord /\ PhaseOf(g, gs[i], i)
  <2>1. PICK l : l = labels[i]
    OBVIOUS
  <2>2. l \in DOMAIN Slug /\ \E n \in Range(g.nodes) : n.label = l
    BY <1>1, <1>3, <1>4, <2>1
  <2>3. PICK q : q = NodesOf(g, l)
    OBVIOUS
  <2>4. q \in Seq(Node) /\ q # <<>> /\ \A k \in DOMAIN q : q[k] \in Range(g.nodes)
    BY <2>2, <2>3, NodesOfTyped
  <2>5. gs[i] = [ordinal |-> i, label |-> l, doc |-> <<i, Slug[l]>>, nodes |-> q]
    BY <1>5, <2>1, <2>3
  <2>6. Cardinality(DOMAIN Slug) \in Nat
    BY ViewsAssumption, FS_CardinalityType
  <2>7. i \in Nat /\ i \in 1 .. Cardinality(DOMAIN Slug)
    BY <1>4, <2>6
  <2>8. <<i, Slug[l]>> \in Documents
    BY <2>2, <2>7 DEF Documents
  <2> QED
    BY <2>2, <2>4, <2>5, <2>7, <2>8 DEF PhaseRecord, PhaseOf
<1>7. gs \in Seq(PhaseRecord)
  <2>1. gs \in [1 .. Cardinality(S) -> PhaseRecord]
    BY <1>5, <1>6
  <2> QED
    BY <1>4, <2>1, ListTyped
<1>8. DOMAIN gs = 1 .. Cardinality(S)
  BY <1>5
<1> QED
  BY <1>6, <1>7, <1>8

Reviews == reviews \in Seq([of : Documents, rev : Nat])

\* What a closed phase says of itself is evidence.
LEMMA EvidenceTyped ==
  ASSUME NEW ph \in PhaseRecord, NEW repo \in BOOLEAN, Reviews
  PROVE  PhaseEvidence(ph, repo) \in Evidence
<1>1. ph.nodes \in Seq(Node)
  BY DEF PhaseRecord
<1>2. PhaseCheckpoint(ph) \in Nat
  <2>1. PICK at : at = {i \in DOMAIN ph.nodes : ph.nodes[i].rev # 0}
    OBVIOUS
  <2>2. at \subseteq DOMAIN ph.nodes /\ \A i \in DOMAIN ph.nodes : ph.nodes[i] \in Node
    BY <1>1, <2>1
  <2>3. at \subseteq Nat /\ IsFiniteSet(at)
    <3>1. IsFiniteSet(DOMAIN ph.nodes) /\ DOMAIN ph.nodes \subseteq Nat
      BY <1>1, ListFacts
    <3> QED
      BY <2>2, <3>1, FS_Subset
  <2>4. at # {} => Max(at) \in at
    BY <2>3, Extremes
  <2>5. PhaseCheckpoint(ph) = IF at = {} THEN 0 ELSE ph.nodes[Max(at)].rev
    BY <2>1 DEF PhaseCheckpoint
  <2>6. at # {} => ph.nodes[Max(at)] \in Node
    BY <2>2, <2>4
  <2> QED
    BY <2>5, <2>6 DEF Node
<1>3. FindPhaseReview(ph) \in Nat \cup {None}
  <2>1. PICK of : of = {i \in DOMAIN reviews : reviews[i].of = ph.doc}
    OBVIOUS
  <2>2. PICK exact : exact = {i \in of : PhaseCheckpoint(ph) \in {0, reviews[i].rev}}
    OBVIOUS
  <2>3. of \in SUBSET DOMAIN reviews /\ exact \in SUBSET DOMAIN reviews
    BY <2>1, <2>2
  <2>4. of \subseteq Nat /\ exact \subseteq Nat /\ IsFiniteSet(of) /\ IsFiniteSet(exact)
    <3>1. IsFiniteSet(DOMAIN reviews) /\ DOMAIN reviews \subseteq Nat
      BY ListFacts DEF Reviews
    <3> QED
      BY <2>3, <3>1, FS_Subset
  <2>5. (exact # {} => Min(exact) \in Nat) /\ (of # {} => Max(of) \in Nat)
    BY <2>4, Extremes
  <2>6. FindPhaseReview(ph) = IF exact # {} THEN Min(exact) ELSE IF of # {} THEN Max(of) ELSE None
    BY <2>1, <2>2 DEF FindPhaseReview
  <2> QED
    BY <2>5, <2>6
<1> QED
  BY <1>2, <1>3 DEF PhaseEvidence, Evidence, IdentityRecheck

\* What rendering a phase makes of it, whatever it is written over.
Rendered(new, ph, closed) ==
  /\ new \in Document /\ new.generated
  /\ new.core.status = "complete" <=> AllClosed(ph, closed)
  /\ new.frozen <=> AllClosed(ph, closed)
  /\ new.frozen <=> new.evidence # None
  /\ DOMAIN new.obs = DOMAIN ph.nodes
  /\ \A i \in DOMAIN ph.nodes : new.obs[i] = ph.nodes[i].obs /\ new.core.nodes[i].id = ph.nodes[i].id

LEMMA RenderMeans ==
  ASSUME NEW g, g.seq \in Nat, NEW ph \in PhaseRecord, NEW closed, NEW repo \in BOOLEAN, Reviews,
         NEW old \in Document \cup {None},
         NEW new, new = RenderPhaseDoc(g, ph, closed, repo, old)
  PROVE  Rendered(new, ph, closed)
<1>1. /\ ph.nodes \in Seq(Node) /\ ph.ordinal \in Nat /\ ph.label \in DOMAIN Slug
  BY DEF PhaseRecord
<1>2. \A i \in DOMAIN ph.nodes : ph.nodes[i] \in Node
  BY <1>1
<1>3. PICK all : all = AllClosed(ph, closed)
  OBVIOUS
<1>4. all \in BOOLEAN
  BY <1>3 DEF AllClosed
<1>5. PhaseStatus(ph, closed) \in Statuses /\ (PhaseStatus(ph, closed) = "complete" <=> all)
  BY <1>3, <1>4 DEF PhaseStatus, Statuses
<1>6. PICK lines : lines = [i \in DOMAIN ph.nodes |-> NodeLines(ph.nodes[i], closed)]
  OBVIOUS
<1>7. lines \in Seq(Lines) /\ \A i \in DOMAIN ph.nodes : lines[i].id = ph.nodes[i].id
  <2>1. \A i \in DOMAIN ph.nodes : lines[i] \in Lines /\ lines[i].id = ph.nodes[i].id
    BY <1>2, <1>6 DEF NodeLines, Lines, Node
  <2>2. Len(ph.nodes) \in Nat /\ lines \in [1 .. Len(ph.nodes) -> Lines]
    BY <1>1, <1>6, <2>1, ListFacts
  <2> QED
    BY <2>1, <2>2, ListTyped
<1>8. PICK core : core = [ordinal |-> ph.ordinal, label |-> ph.label,
                          status |-> PhaseStatus(ph, closed), nodes |-> lines]
  OBVIOUS
<1>9. core = Core(ph, closed)
  BY <1>6, <1>8 DEF Core
<1>10. PICK obs : obs = [i \in DOMAIN ph.nodes |-> ph.nodes[i].obs]
  OBVIOUS
<1>11. obs \in Seq(Nat)
  <2>1. \A i \in DOMAIN ph.nodes : obs[i] \in Nat
    BY <1>2, <1>10 DEF Node
  <2>2. Len(ph.nodes) \in Nat /\ obs \in [1 .. Len(ph.nodes) -> Nat]
    BY <1>1, <1>10, <2>1, ListFacts
  <2> QED
    BY <2>2, ListTyped
<1>12. PICK fresh : fresh = PhaseEvidence(ph, repo)
  OBVIOUS
<1>13. fresh \in Evidence /\ fresh # None
  BY <1>12, EvidenceTyped, ViewsAssumption
<1>14. PICK ev : ev = IF KeepsRecheck(old, core, obs, fresh) THEN old.evidence ELSE fresh
  OBVIOUS
<1>15. ev \in Evidence /\ ev # None
  <2>1. KeepsRecheck(old, core, obs, fresh) => old # None /\ old.evidence # None
    BY DEF KeepsRecheck
  <2>2. old # None /\ old.evidence # None => old.evidence \in Evidence
    BY DEF Document
  <2> QED
    BY <1>13, <1>14, <2>1, <2>2
<1>16. new = [generated |-> TRUE, frozen |-> all, core |-> core, obs |-> obs, seq |-> g.seq,
              evidence |-> IF all THEN ev ELSE None]
  BY <1>3, <1>9, <1>10, <1>12, <1>14, Zenon DEF RenderPhaseDoc
<1>17. core \in [ordinal : Nat, label : DOMAIN Slug, status : Statuses, nodes : Seq(Lines)]
  BY <1>1, <1>5, <1>7, <1>8
<1>18. new \in Document
  BY <1>4, <1>11, <1>15, <1>16, <1>17 DEF Document
<1>19. /\ new.generated /\ new.core = core /\ new.frozen = all /\ new.obs = obs
       /\ new.evidence = IF all THEN ev ELSE None
  BY <1>16
<1>20. new.core.status = "complete" <=> all
  BY <1>5, <1>8, <1>19
<1>21. new.evidence # None <=> all
  BY <1>4, <1>15, <1>19
<1>22. /\ DOMAIN new.obs = DOMAIN ph.nodes
       /\ \A i \in DOMAIN ph.nodes : new.obs[i] = ph.nodes[i].obs /\ new.core.nodes[i].id = ph.nodes[i].id
  BY <1>7, <1>8, <1>10, <1>19
<1> QED
  BY <1>3, <1>18, <1>19, <1>20, <1>21, <1>22 DEF Rendered

-----------------------------------------------------------------------------
(***************************************************************************)
(* Types: of the graph, the README and what a command carries.             *)
(***************************************************************************)
GraphTyped(g) ==
  /\ g = [nodes |-> g.nodes, seq |-> g.seq, completedAt |-> g.completedAt]
  /\ g.nodes \in Seq(Node) /\ g.seq \in Nat
  /\ \A i, j \in DOMAIN g.nodes : g.nodes[i].id = g.nodes[j].id => i = j
  /\ \A i \in DOMAIN g.nodes : g.nodes[i].obs <= g.seq /\ (g.nodes[i].closed => g.nodes[i].obs # 0)
  /\ g.completedAt # None => g.completedAt \in Nat /\ g.completedAt <= g.seq

EntryRecord == [id : Nat, title : DOMAIN Slug, status : Statuses, doc : Documents]

ReadmeTyped(r) ==
  /\ r = [status |-> r.status, entries |-> r.entries, section |-> r.section,
          evidence |-> r.evidence, prose |-> r.prose]
  /\ r.entries = None \/ r.entries \in Seq(EntryRecord)
  /\ r.prose \in Nat

\* The evidence, the status and the marker of a view belong together.
Whole(v) ==
  v.generated => (v.frozen <=> v.core.status = "complete") /\ (v.frozen <=> v.evidence # None)

Running == {"record", "preflight", "judge", "write", "readme", "commit", "expect", "flip"}
Labels  == {"idle", "append"} \cup Running

JobRecord(j) ==
  j = [cmd |-> j.cmd, g |-> j.g, judged |-> j.judged, closed |-> j.closed, repo |-> j.repo,
       todo |-> j.todo, doc |-> j.doc, text |-> j.text, read |-> j.read]

\* What a command carries at each step; n is the counter of the graph as it is.
JobTyped(l, j, n) ==
  /\ l \in Labels /\ JobRecord(j)
  /\ l \in Running \cup {"append"} => j.repo \in BOOLEAN
  /\ l \in Running => GraphTyped(j.g) /\ j.g.seq <= n
  /\ l \in {"judge", "write"} =>
       /\ j.todo \in Seq(PhaseRecord)
       /\ \A k \in DOMAIN j.todo : PhaseOf(j.g, j.todo[k], j.todo[k].ordinal)
  /\ l = "write" => j.doc \in Documents /\ j.text \in Document /\ j.text.generated /\ Whole(j.text)
  /\ l = "commit" => /\ ReadmeTyped(j.text) /\ ReadmeTyped(j.read)
                     /\ j.text.prose = j.read.prose /\ j.text.status = j.read.status

ViewsTyped == view \in [Documents -> Document \cup {None}] /\ \A d \in Documents : view[d] # None => Whole(view[d])

JobsTyped ==
  /\ pc \in [Sessions -> Labels] /\ job = [s \in Sessions |-> job[s]]
  /\ \A s \in Sessions : JobTyped(pc[s], job[s], graph.seq)

Typed == GraphTyped(graph) /\ ViewsTyped /\ ReadmeTyped(readme) /\ Reviews /\ JobsTyped /\ crashes \in Nat

LEMMA NodesTyped ==
  ASSUME NEW g, GraphTyped(g)
  PROVE  /\ g.nodes \in Seq(Node) /\ DOMAIN g.nodes = 1 .. Len(g.nodes) /\ Len(g.nodes) \in Nat
         /\ \A i \in DOMAIN g.nodes : g.nodes[i] \in Node /\ g.nodes[i].obs \in Nat
         /\ \A n \in Range(g.nodes) : n \in Node /\ \E i \in DOMAIN g.nodes : n = g.nodes[i]
<1>1. g.nodes \in Seq(Node)
  BY DEF GraphTyped
<1>2. DOMAIN g.nodes = 1 .. Len(g.nodes) /\ Len(g.nodes) \in Nat
  BY <1>1
<1>3. \A i \in DOMAIN g.nodes : g.nodes[i] \in Node
  BY <1>1
<1>4. \A n \in Node : n.obs \in Nat
  BY DEF Node
<1> QED
  BY <1>1, <1>2, <1>3, <1>4 DEF Range

LEMMA TypedMeans == Typed => TypeOK
<1> SUFFICES ASSUME Typed PROVE TypeOK
  OBVIOUS
<1>1. /\ graph.nodes \in Seq(Node)
      /\ graph.completedAt # None => graph.completedAt <= graph.seq
      /\ \A n \in Range(graph.nodes) : n.obs \in 0 .. graph.seq /\ (n.closed => n.obs # 0)
  <2>1. GraphTyped(graph)
    BY DEF Typed
  <2>2. \A i \in DOMAIN graph.nodes : graph.nodes[i].obs \in Nat
    BY <2>1, NodesTyped
  <2>3. graph.seq \in Nat /\ \A i \in DOMAIN graph.nodes : graph.nodes[i].obs \in 0 .. graph.seq
    BY <2>1, <2>2 DEF GraphTyped
  <2> QED
    BY <2>1, <2>3 DEF GraphTyped, Range
<1>2. /\ view \in [Documents -> Document \cup {None}]
      /\ \A d \in DOMAIN view : view[d] # None /\ view[d].generated
           => /\ (view[d].frozen <=> view[d].core.status = "complete")
              /\ (view[d].frozen <=> view[d].evidence # None)
  BY DEF Typed, ViewsTyped, Whole
<1>3. readme.entries = None \/ \A k \in DOMAIN readme.entries : readme.entries[k].doc \in Documents
  <2>1. readme.entries = None \/ readme.entries \in Seq(EntryRecord)
    BY DEF Typed, ReadmeTyped
  <2>2. readme.entries # None => \A k \in DOMAIN readme.entries : readme.entries[k] \in EntryRecord
    BY <2>1, ListFacts
  <2> QED
    BY <2>2 DEF EntryRecord
<1>4. pc \in [Sessions -> {"idle", "append", "record", "preflight", "judge", "write", "readme",
                           "commit", "expect", "flip"}]
  BY DEF Typed, JobsTyped, Labels, Running
<1> QED
  BY <1>1, <1>2, <1>3, <1>4 DEF TypeOK

\* A step of s alone, to l with data j.
Moves(s, l, j) == pc' = [pc EXCEPT ![s] = l] /\ job' = [job EXCEPT ![s] = j]

LEMMA MovesAre ==
  ASSUME JobsTyped, NEW s \in Sessions, NEW l, NEW j, Moves(s, l, j)
  PROVE  /\ pc'[s] = l /\ job'[s] = j
         /\ \A t \in Sessions : t # s => pc'[t] = pc[t] /\ job'[t] = job[t]
BY DEF JobsTyped, Moves

LEMMA JobsStayTyped ==
  ASSUME JobsTyped, NEW s \in Sessions, NEW l, NEW j, Moves(s, l, j),
         graph.seq \in Nat, graph'.seq \in Nat, graph.seq <= graph'.seq, JobTyped(l, j, graph'.seq)
  PROVE  JobsTyped'
<1>1. /\ pc'[s] = l /\ job'[s] = j
      /\ \A t \in Sessions : t # s => pc'[t] = pc[t] /\ job'[t] = job[t]
  BY MovesAre
<1>2. \A t \in Sessions : JobTyped(pc[t], job[t], graph.seq)
  BY DEF JobsTyped
<1>3. ASSUME NEW k, NEW i, JobTyped(k, i, graph.seq) PROVE JobTyped(k, i, graph'.seq)
  BY <1>3 DEF JobTyped, GraphTyped
<1>4. \A t \in Sessions : JobTyped(pc'[t], job'[t], graph'.seq)
  BY <1>1, <1>2, <1>3
<1>5. l \in Labels
  BY DEF JobTyped
<1>6. pc' \in [Sessions -> Labels] /\ job' = [t \in Sessions |-> job'[t]]
  BY <1>5 DEF JobsTyped, Moves
<1> QED
  BY <1>4, <1>6 DEF JobsTyped

LEMMA FinishTyped ==
  ASSUME NEW n \in Nat
  PROVE  JobTyped("idle", NoJob, n)
BY DEF JobTyped, JobRecord, NoJob, Labels, Running

LEMMA FinishMoves ==
  ASSUME NEW s, Finish(s)
  PROVE  Moves(s, "idle", NoJob)
BY DEF Finish, Goto, Moves


\* A command that has the graph to go by, and nothing rendered yet.
LEMMA JobReady ==
  ASSUME NEW l \in {"record", "preflight", "readme", "expect", "flip"}, NEW j, NEW n, JobRecord(j), j.repo \in BOOLEAN,
         GraphTyped(j.g), j.g.seq <= n
  PROVE  JobTyped(l, j, n)
BY DEF JobTyped, Labels, Running
-----------------------------------------------------------------------------
(***************************************************************************)
(* Every step keeps the types.                                             *)
(***************************************************************************)
LEMMA QuietTyped ==
  ASSUME Typed, NEW s \in Sessions, NEW l, NEW j, Moves(s, l, j), JobTyped(l, j, graph.seq),
         Quietly(s) \/ UNCHANGED <<graph, files, reviews, crashes>>
  PROVE  Typed'
<1>1. /\ graph' = graph /\ view' = view /\ readme' = readme /\ reviews' = reviews /\ crashes' = crashes
      /\ graph.seq \in Nat /\ JobsTyped
  BY DEF Quietly, files, Typed, GraphTyped
<1>2. JobsTyped'
  BY <1>1, JobsStayTyped
<1> QED
  BY <1>1, <1>2 DEF Typed, ViewsTyped, Reviews

LEMMA JobOf ==
  ASSUME Typed, NEW s \in Sessions
  PROVE  /\ pc[s] \in Labels /\ JobTyped(pc[s], job[s], graph.seq) /\ JobsTyped
         /\ GraphTyped(graph) /\ graph.seq \in Nat
BY DEF Typed, JobsTyped, GraphTyped

LEMMA CompileTyped ==
  ASSUME Typed, NEW s \in Sessions, Compile(s)
  PROVE  Typed'
<1>0. PICK closed : closed = ClosedNodes(Preview)
  OBVIOUS
<1>1. PICK repo \in BOOLEAN :
         /\ job' = [job EXCEPT ![s] = [NoJob EXCEPT !.cmd = "render", !.repo = repo, !.closed = closed]]
         /\ Goto(s, "append") /\ Quietly(s)
  BY <1>0 DEF Compile
<1>2. PICK j : j = [NoJob EXCEPT !.cmd = "render", !.repo = repo, !.closed = closed]
  OBVIOUS
<1>3. JobTyped("append", j, graph.seq)
  BY <1>1, <1>2 DEF JobTyped, JobRecord, NoJob, Labels, Running
<1>4. Moves(s, "append", j)
  BY <1>1, <1>2 DEF Moves, Goto
<1> QED
  BY <1>1, <1>3, <1>4, QuietTyped

LEMMA BeginTyped ==
  ASSUME Typed, NEW s \in Sessions, NEW cmd, NEW l \in {"record", "preflight"}, NEW closed,
         Begin(s, cmd, l, closed)
  PROVE  Typed'
<1>1. PICK repo \in BOOLEAN :
         /\ job' = [job EXCEPT ![s] = [NoJob EXCEPT !.cmd = cmd, !.g = graph, !.judged = Ids(graph),
                                                    !.closed = closed, !.repo = repo]]
         /\ Goto(s, l) /\ UNCHANGED <<graph, files, reviews, crashes>>
  BY DEF Begin
<1>2. PICK j : j = [NoJob EXCEPT !.cmd = cmd, !.g = graph, !.judged = Ids(graph), !.closed = closed, !.repo = repo]
  OBVIOUS
<1>3. GraphTyped(graph) /\ graph.seq \in Nat
  BY DEF Typed, GraphTyped
<1>4. JobTyped(l, j, graph.seq)
  <2>1. JobRecord(j) /\ j.repo = repo /\ j.g = graph
    BY <1>2 DEF JobRecord, NoJob
  <2> QED
    BY <1>3, <2>1, JobReady
<1>5. Moves(s, l, j)
  BY <1>1, <1>2 DEF Moves, Goto
<1> QED
  BY <1>1, <1>4, <1>5, QuietTyped

LEMMA FinishQuietlyTyped ==
  ASSUME Typed, NEW s \in Sessions, Finish(s), Quietly(s)
  PROVE  Typed'
BY FinishMoves, FinishTyped, JobOf, QuietTyped

\* The graph with the nodes compile adds.
LEMMA AppendedTyped ==
  ASSUME NEW g, GraphTyped(g), \A n \in Range(Added) : n.id \notin Ids(g),
         NEW h, h = [g EXCEPT !.nodes = @ \o Added]
  PROVE  /\ GraphTyped(h) /\ h.seq = g.seq /\ h.nodes = g.nodes \o Added
         /\ \A n \in Range(g.nodes) : n \in Range(h.nodes)
         /\ \A n \in Range(h.nodes) : n \in Range(g.nodes) \/ n \in Range(Added)
<1>1. h = [nodes |-> g.nodes \o Added, seq |-> g.seq, completedAt |-> g.completedAt]
  BY DEF GraphTyped
<1>2. PICK q : q = g.nodes \o Added
  OBVIOUS
<1>3. Added \in Seq(Node) /\ DOMAIN Added = 1 .. Len(Added) /\ Len(Added) \in Nat
  BY ViewsAssumption
<1>4. \A a, b \in DOMAIN Added : Added[a].id = Added[b].id => a = b
  BY ViewsAssumption DEF IsInjective
<1>5. /\ g.nodes \in Seq(Node) /\ DOMAIN g.nodes = 1 .. Len(g.nodes) /\ Len(g.nodes) \in Nat
  BY NodesTyped
<1>6. /\ q \in Seq(Node) /\ DOMAIN q = 1 .. Len(g.nodes) + Len(Added)
      /\ \A i \in 1 .. Len(g.nodes) : q[i] = g.nodes[i]
      /\ \A i \in Len(g.nodes) + 1 .. Len(g.nodes) + Len(Added) :
           i - Len(g.nodes) \in DOMAIN Added /\ q[i] = Added[i - Len(g.nodes)]
  BY <1>2, <1>3, <1>5
<1>7. \A i \in DOMAIN q : i \in 1 .. Len(g.nodes) \/ i \in Len(g.nodes) + 1 .. Len(g.nodes) + Len(Added)
  BY <1>3, <1>5, <1>6
<1>8. \A a \in DOMAIN Added : Added[a] \in Range(Added) /\ Added[a].obs = 0 /\ ~Added[a].closed
  BY ViewsAssumption DEF Range
<1>9. \A a \in DOMAIN Added, i \in DOMAIN g.nodes : Added[a].id # g.nodes[i].id
  BY <1>8 DEF Ids, Range
<1>10. \A i, j \in DOMAIN q : q[i].id = q[j].id => i = j
  <2>1. \A i, j \in 1 .. Len(g.nodes) : g.nodes[i].id = g.nodes[j].id => i = j
    BY <1>5 DEF GraphTyped
  <2>2. ASSUME NEW i \in DOMAIN q, NEW j \in DOMAIN q, q[i].id = q[j].id PROVE i = j
    <3> DEFINE m == Len(g.nodes)
    <3>1. CASE i \in 1 .. m /\ j \in 1 .. m
      BY <1>6, <2>1, <2>2, <3>1
    <3>2. CASE i \notin 1 .. m /\ j \notin 1 .. m
      <4>1. i \in m + 1 .. m + Len(Added) /\ j \in m + 1 .. m + Len(Added)
        BY <1>7, <3>2
      <4>2. i - m = j - m
        BY <1>4, <1>6, <2>2, <4>1
      <4> QED
        BY <1>5, <4>1, <4>2
    <3>3. CASE i \in 1 .. m /\ j \notin 1 .. m
      BY <1>5, <1>6, <1>7, <1>9, <2>2, <3>3
    <3>4. CASE i \notin 1 .. m /\ j \in 1 .. m
      BY <1>5, <1>6, <1>7, <1>9, <2>2, <3>4
    <3> QED
      BY <3>1, <3>2, <3>3, <3>4
  <2> QED
    BY <2>2
<1>11. \A i \in DOMAIN q : q[i].obs <= g.seq /\ (q[i].closed => q[i].obs # 0)
  <2>1. g.seq \in Nat /\ \A i \in DOMAIN g.nodes : g.nodes[i].obs <= g.seq /\ (g.nodes[i].closed => g.nodes[i].obs # 0)
    BY DEF GraphTyped
  <2> QED
    BY <1>5, <1>6, <1>7, <1>8, <2>1
<1>12. GraphTyped(h)
  BY <1>1, <1>2, <1>6, <1>10, <1>11 DEF GraphTyped
<1>13. \A n \in Range(q) : n \in Range(g.nodes) \/ n \in Range(Added)
  BY <1>5, <1>6, <1>7, <1>8 DEF Range
<1>14. \A n \in Range(g.nodes) : n \in Range(q)
  <2>1. ASSUME NEW i \in DOMAIN g.nodes PROVE g.nodes[i] \in Range(q)
    <3>1. i \in DOMAIN q /\ q[i] = g.nodes[i]
      BY <1>3, <1>5, <1>6
    <3> QED
      BY <3>1 DEF Range
  <2> QED
    BY <2>1 DEF Range
<1> QED
  BY <1>1, <1>2, <1>12, <1>13, <1>14

LEMMA CompileAppendTyped ==
  ASSUME Typed, NEW s \in Sessions, CompileAppend(s)
  PROVE  Typed'
<1>1. CASE \A n \in Range(Added) : n.id \notin Ids(graph)
  <2>1. /\ graph' = [graph EXCEPT !.nodes = @ \o Added]
        /\ job' = [job EXCEPT ![s].g = graph', ![s].judged = Ids(graph'),
                               ![s].closed = ClosureAsWritten(s, graph')]
        /\ Goto(s, "preflight") /\ UNCHANGED <<files, reviews, crashes>> /\ pc[s] = "append"
    BY <1>1 DEF CompileAppend
  <2>2. GraphTyped(graph) /\ graph.seq \in Nat /\ JobsTyped /\ JobTyped(pc[s], job[s], graph.seq)
    BY JobOf
  <2>3. GraphTyped(graph') /\ graph'.seq = graph.seq
    BY <1>1, <2>1, <2>2, AppendedTyped
  <2>4. PICK j : j = [job[s] EXCEPT !.g = graph', !.judged = Ids(graph'), !.closed = ClosureAsWritten(s, graph')]
    OBVIOUS
  <2>5. Moves(s, "preflight", j)
    BY <2>1, <2>2, <2>4 DEF Moves, Goto, JobsTyped
  <2>6. JobTyped("preflight", j, graph'.seq)
    <3>1. JobRecord(job[s]) /\ job[s].repo \in BOOLEAN
      BY <2>1, <2>2 DEF JobTyped
    <3>2. JobRecord(j) /\ j.repo = job[s].repo /\ j.g = graph'
      BY <2>4, <3>1 DEF JobRecord
    <3> QED
      BY <2>2, <2>3, <3>1, <3>2, JobReady
  <2>7. JobsTyped'
    BY <2>2, <2>3, <2>5, <2>6, JobsStayTyped
  <2>8. view' = view /\ readme' = readme /\ reviews' = reviews /\ crashes' = crashes
    BY <2>1 DEF files
  <2> QED
    BY <2>3, <2>7, <2>8 DEF Typed, ViewsTyped, Reviews
<1>2. CASE ~(\A n \in Range(Added) : n.id \notin Ids(graph))
  BY <1>2, FinishQuietlyTyped DEF CompileAppend
<1> QED
  BY <1>1, <1>2

LEMMA RecordTyped ==
  ASSUME Typed, NEW s \in Sessions, RecordCompletedAt(s)
  PROVE  Typed'
<1>1. /\ pc[s] = "record" /\ Goto(s, "preflight") /\ UNCHANGED <<files, reviews, crashes, proved, crossed>>
      /\ IF job[s].repo
         THEN /\ graph' = [graph EXCEPT !.completedAt = job[s].g.seq]
              /\ job' = [job EXCEPT ![s].g = graph']
         ELSE UNCHANGED <<graph, job>>
  BY DEF RecordCompletedAt
<1>2. GraphTyped(graph) /\ graph.seq \in Nat /\ JobsTyped /\ JobTyped(pc[s], job[s], graph.seq)
  BY JobOf
<1>3. GraphTyped(job[s].g) /\ job[s].g.seq <= graph.seq /\ job[s].g.seq \in Nat
  BY <1>1, <1>2 DEF JobTyped, Running, GraphTyped
<1>4. PICK j : j = IF job[s].repo THEN [job[s] EXCEPT !.g = graph'] ELSE job[s]
  OBVIOUS
<1>5. GraphTyped(graph') /\ graph'.seq = graph.seq
  BY <1>1, <1>2, <1>3 DEF GraphTyped
<1>6. JobTyped("preflight", j, graph'.seq)
  <2>1. JobRecord(job[s]) /\ job[s].repo \in BOOLEAN
    BY <1>1, <1>2 DEF JobTyped, Running
  <2>2. JobRecord(j) /\ j.repo = job[s].repo /\ (j.g = graph' \/ j.g = job[s].g)
    BY <1>4, <2>1 DEF JobRecord
  <2> QED
    BY <1>2, <1>3, <1>5, <2>1, <2>2, JobReady
<1>7. Moves(s, "preflight", j)
  BY <1>1, <1>2, <1>4 DEF Moves, Goto, JobsTyped
<1>8. JobsTyped'
  BY <1>2, <1>5, <1>6, <1>7, JobsStayTyped
<1>9. view' = view /\ readme' = readme /\ reviews' = reviews /\ crashes' = crashes
  BY <1>1 DEF files
<1> QED
  BY <1>5, <1>8, <1>9 DEF Typed, ViewsTyped, Reviews

LEMMA PreflightTyped ==
  ASSUME Typed, NEW s \in Sessions, Preflight(s)
  PROVE  Typed'
<1>1. GraphTyped(graph) /\ graph.seq \in Nat /\ JobsTyped /\ JobTyped(pc[s], job[s], graph.seq)
  BY JobOf
<1>2. CASE ~Renderable(job[s].g, job[s].closed, job[s].repo)
  BY <1>2, FinishQuietlyTyped DEF Preflight
<1>3. CASE Renderable(job[s].g, job[s].closed, job[s].repo)
  <2>1. PICK gs : gs = GroupPhases(job[s].g)
    OBVIOUS
  <2>2. pc[s] = "preflight" /\ job' = [job EXCEPT ![s].todo = gs] /\ Goto(s, "judge") /\ Quietly(s)
    BY <1>3, <2>1 DEF Preflight
  <2>3. GraphTyped(job[s].g)
    BY <1>1, <2>2 DEF JobTyped, Running
  <2>4. gs \in Seq(PhaseRecord) /\ \A i \in DOMAIN gs : PhaseOf(job[s].g, gs[i], i)
    BY <2>1, <2>3, GroupsTyped DEF GraphTyped
  <2>5. \A i \in DOMAIN gs : PhaseOf(job[s].g, gs[i], gs[i].ordinal)
    BY <2>4 DEF PhaseOf
  <2>6. PICK j : j = [job[s] EXCEPT !.todo = gs]
    OBVIOUS
  <2>7. JobTyped("judge", j, graph.seq)
    <3>1. JobRecord(job[s]) /\ job[s].repo \in BOOLEAN /\ job[s].g.seq <= graph.seq
      BY <1>1, <2>2 DEF JobTyped, Running
    <3>2. JobRecord(j) /\ j.repo = job[s].repo /\ j.g = job[s].g /\ j.todo = gs
      BY <2>6, <3>1 DEF JobRecord
    <3> QED
      BY <2>3, <2>4, <2>5, <3>1, <3>2 DEF JobTyped, Labels, Running
  <2>8. Moves(s, "judge", j)
    BY <1>1, <2>2, <2>6 DEF Moves, Goto, JobsTyped
  <2> QED
    BY <2>2, <2>7, <2>8, QuietTyped
<1> QED
  BY <1>2, <1>3


LEMMA TailFacts ==
  ASSUME NEW S, NEW q \in Seq(S), q # <<>>
  PROVE  /\ Head(q) \in S /\ Head(q) = q[1] /\ 1 \in DOMAIN q
         /\ Tail(q) \in Seq(S) /\ Len(Tail(q)) = Len(q) - 1
         /\ \A k \in DOMAIN Tail(q) : k + 1 \in DOMAIN q /\ Tail(q)[k] = q[k + 1]
OBVIOUS

\* What the renderer makes of the next document of its list.
Fresh(s) ==
  LET ph == Head(job[s].todo)
  IN  RenderPhaseDoc(job[s].g, ph, job[s].closed, job[s].repo, view[ph.doc])

\* The three ways judging a document can go.
JudgeKeeps(s, j)  == j = [job[s] EXCEPT !.todo = Tail(@)]
JudgeWrites(s, j) == j = [job[s] EXCEPT !.todo = Tail(@), !.doc = Head(job[s].todo).doc, !.text = Fresh(s)]

LEMMA JudgeMeans ==
  ASSUME JobsTyped, NEW s \in Sessions, Judge(s)
  PROVE  /\ pc[s] = "judge" /\ Quietly(s)
         /\ \/ /\ job[s].todo = <<>> /\ Moves(s, "readme", [job[s] EXCEPT !.repo = FALSE])
            \/ Finish(s)
            \/ /\ job[s].todo # <<>>
               /\ PlanWrite(view[Head(job[s].todo).doc], Fresh(s)) = "keep"
               /\ \E j : JudgeKeeps(s, j) /\ Moves(s, "judge", j)
            \/ /\ job[s].todo # <<>>
               /\ PlanWrite(view[Head(job[s].todo).doc], Fresh(s)) = "write"
               /\ \E j : JudgeWrites(s, j) /\ Moves(s, "write", j)
<1>1. /\ pc[s] = "judge" /\ Quietly(s)
      /\ pc' = [pc EXCEPT ![s] = "judge"] <=> pc' = pc
  BY DEF Judge, JobsTyped
<1>2. CASE job[s].todo = <<>>
  BY <1>1, <1>2 DEF Judge, Moves, Goto
<1>3. CASE job[s].todo # <<>>
  <2>1. PICK ph : ph = Head(job[s].todo)
    OBVIOUS
  <2>2. PICK new : new = RenderPhaseDoc(job[s].g, ph, job[s].closed, job[s].repo, view[ph.doc])
    OBVIOUS
  <2>3. PICK chosen : chosen = PlanWrite(view[ph.doc], new)
    OBVIOUS
  <2>4. IF chosen = "refuse" THEN Finish(s)
        ELSE IF chosen = "keep" THEN job' = [job EXCEPT ![s].todo = Tail(@)] /\ UNCHANGED pc
        ELSE /\ job' = [job EXCEPT ![s].todo = Tail(@), ![s].doc = ph.doc, ![s].text = new]
             /\ Goto(s, "write")
    BY <1>3, <2>1, <2>2, <2>3, Zenon DEF Judge
  <2>5. new = Fresh(s)
    BY <2>1, <2>2 DEF Fresh
  <2>6. chosen \in {"write", "keep", "refuse"}
    BY <2>3 DEF PlanWrite
  <2>7. CASE chosen = "keep"
    <3>1. PICK j : JudgeKeeps(s, j)
      BY DEF JudgeKeeps
    <3>2. Moves(s, "judge", j)
      BY <1>1, <2>4, <2>7, <3>1 DEF JudgeKeeps, Moves
    <3> QED
      BY <1>1, <1>3, <2>1, <2>3, <2>5, <2>7, <3>1, <3>2
  <2>8. CASE chosen = "write"
    <3>1. PICK j : JudgeWrites(s, j)
      BY DEF JudgeWrites
    <3>2. Moves(s, "write", j)
      BY <1>1, <2>1, <2>4, <2>5, <2>8, <3>1 DEF JudgeWrites, Moves, Goto, JobsTyped
    <3> QED
      BY <1>1, <1>3, <2>1, <2>3, <2>5, <2>8, <3>1, <3>2
  <2> QED
    BY <1>1, <2>4, <2>6, <2>7, <2>8
<1> QED
  BY <1>2, <1>3

LEMMA FreshTyped ==
  ASSUME Typed, NEW s \in Sessions, pc[s] = "judge", job[s].todo # <<>>
  PROVE  /\ Head(job[s].todo) \in PhaseRecord /\ Head(job[s].todo).doc \in Documents
         /\ PhaseOf(job[s].g, Head(job[s].todo), Head(job[s].todo).ordinal)
         /\ Rendered(Fresh(s), Head(job[s].todo), job[s].closed)
         /\ Fresh(s) \in Document /\ Fresh(s).generated /\ Whole(Fresh(s))
<1>1. PICK ph : ph = Head(job[s].todo)
  OBVIOUS
<1>2. /\ job[s].todo \in Seq(PhaseRecord) /\ job[s].repo \in BOOLEAN /\ GraphTyped(job[s].g)
      /\ \A k \in DOMAIN job[s].todo : PhaseOf(job[s].g, job[s].todo[k], job[s].todo[k].ordinal)
  BY JobOf DEF JobTyped, Running
<1>3. ph \in PhaseRecord /\ PhaseOf(job[s].g, ph, ph.ordinal)
  <2>1. ph \in PhaseRecord /\ ph = job[s].todo[1] /\ 1 \in DOMAIN job[s].todo
    BY <1>1, <1>2, TailFacts
  <2> QED
    BY <1>2, <2>1
<1>4. ph.doc \in Documents
  BY <1>3 DEF PhaseRecord
<1>5. view[ph.doc] \in Document \cup {None} /\ Reviews /\ job[s].g.seq \in Nat
  BY <1>2, <1>4 DEF Typed, ViewsTyped, GraphTyped
<1>6. PICK new : new = RenderPhaseDoc(job[s].g, ph, job[s].closed, job[s].repo, view[ph.doc])
  OBVIOUS
<1>7. new = Fresh(s)
  BY <1>1, <1>6 DEF Fresh
<1>8. Rendered(new, ph, job[s].closed)
  BY <1>2, <1>3, <1>5, <1>6, RenderMeans
<1>9. new \in Document /\ new.generated /\ Whole(new)
  BY <1>8 DEF Rendered, Whole
<1> QED
  BY <1>1, <1>3, <1>4, <1>7, <1>8, <1>9

LEMMA JudgeTyped ==
  ASSUME Typed, NEW s \in Sessions, Judge(s)
  PROVE  Typed'
<1>1. JobsTyped /\ JobTyped("judge", job[s], graph.seq) /\ graph.seq \in Nat /\ pc[s] = "judge" /\ Quietly(s)
  BY JobOf, JudgeMeans
<1>2. /\ JobRecord(job[s]) /\ GraphTyped(job[s].g) /\ job[s].g.seq <= graph.seq /\ job[s].repo \in BOOLEAN
      /\ job[s].todo \in Seq(PhaseRecord)
      /\ \A k \in DOMAIN job[s].todo : PhaseOf(job[s].g, job[s].todo[k], job[s].todo[k].ordinal)
  BY <1>1 DEF JobTyped, Running
<1>3. CASE Moves(s, "readme", [job[s] EXCEPT !.repo = FALSE])
  <2>1. PICK j : j = [job[s] EXCEPT !.repo = FALSE]
    OBVIOUS
  <2>2. JobRecord(j) /\ j.repo = FALSE /\ j.g = job[s].g
    BY <1>2, <2>1 DEF JobRecord
  <2>3. JobTyped("readme", j, graph.seq)
    BY <1>2, <2>2, JobReady
  <2> QED
    BY <1>1, <1>3, <2>1, <2>3, QuietTyped
<1>4. ASSUME NEW j, job[s].todo # <<>>, JudgeKeeps(s, j) \/ JudgeWrites(s, j)
      PROVE  /\ JobRecord(j) /\ j.repo = job[s].repo /\ j.g = job[s].g
             /\ j.todo \in Seq(PhaseRecord)
             /\ \A k \in DOMAIN j.todo : PhaseOf(j.g, j.todo[k], j.todo[k].ordinal)
             /\ JudgeWrites(s, j) => j.doc = Head(job[s].todo).doc /\ j.text = Fresh(s)
  <2>1. /\ JobRecord(j) /\ j.repo = job[s].repo /\ j.g = job[s].g /\ j.todo = Tail(job[s].todo)
        /\ JudgeWrites(s, j) => j.doc = Head(job[s].todo).doc /\ j.text = Fresh(s)
    BY <1>2, <1>4 DEF JobRecord, JudgeKeeps, JudgeWrites
  <2>2. /\ j.todo \in Seq(PhaseRecord)
        /\ \A k \in DOMAIN j.todo : k + 1 \in DOMAIN job[s].todo /\ j.todo[k] = job[s].todo[k + 1]
    BY <1>2, <1>4, <2>1, TailFacts
  <2> QED
    BY <1>2, <2>1, <2>2
<1>5. ASSUME NEW j, job[s].todo # <<>>, JudgeKeeps(s, j), Moves(s, "judge", j) PROVE Typed'
  <2>1. JobTyped("judge", j, graph.seq)
    BY <1>2, <1>4, <1>5 DEF JobTyped, Labels, Running
  <2> QED
    BY <1>1, <1>5, <2>1, QuietTyped
<1>6. ASSUME NEW j, job[s].todo # <<>>, JudgeWrites(s, j), Moves(s, "write", j) PROVE Typed'
  <2>1. j.doc \in Documents /\ j.text \in Document /\ j.text.generated /\ Whole(j.text)
    BY <1>1, <1>4, <1>6, FreshTyped
  <2>2. JobTyped("write", j, graph.seq)
    BY <1>2, <1>4, <1>6, <2>1 DEF JobTyped, Labels, Running
  <2> QED
    BY <1>1, <1>6, <2>2, QuietTyped
<1> QED
  BY <1>1, <1>3, <1>5, <1>6, FinishQuietlyTyped, JudgeMeans

LEMMA WriteViewTyped ==
  ASSUME Typed, NEW s \in Sessions, WriteView(s)
  PROVE  Typed'
<1>1. /\ pc[s] = "write" /\ view' = [view EXCEPT ![job[s].doc] = job[s].text]
      /\ graph' = graph /\ readme' = readme /\ reviews' = reviews /\ crashes' = crashes
  BY DEF WriteView
<1>2. /\ JobsTyped /\ JobTyped("write", job[s], graph.seq) /\ graph.seq \in Nat
  BY <1>1, JobOf
<1>3. PICK j : j = [job[s] EXCEPT !.doc = None, !.text = None]
  OBVIOUS
<1>4. JobRecord(j) /\ j.repo = job[s].repo /\ j.g = job[s].g /\ j.todo = job[s].todo
  BY <1>2, <1>3 DEF JobTyped, JobRecord
<1>5. JobTyped("judge", j, graph.seq)
  BY <1>2, <1>4 DEF JobTyped, Labels, Running
<1>6. Moves(s, "judge", j)
  BY <1>2, <1>3 DEF WriteView, Moves, Goto, JobsTyped
<1>7. JobsTyped'
  BY <1>1, <1>2, <1>5, <1>6, JobsStayTyped
<1>8. ViewsTyped'
  BY <1>1, <1>2 DEF Typed, ViewsTyped, JobTyped
<1> QED
  BY <1>1, <1>7, <1>8 DEF Typed, Reviews

\* What a renderer makes of the README: its entries stay entries, and the
\* prose stays what it was.
LEMMA RefreshTyped ==
  ASSUME NEW entries, entries = None \/ entries \in Seq(EntryRecord), NEW gs \in Seq(PhaseRecord), NEW closed,
         NEW new, new = RefreshEntries(entries, gs, closed)
  PROVE  new = None \/ new \in Seq(EntryRecord)
<1>1. \A i \in DOMAIN gs : gs[i] \in PhaseRecord /\ PhaseStatus(gs[i], closed) \in Statuses
  BY DEF PhaseStatus, Statuses
<1>2. CASE entries = None
  BY <1>2 DEF RefreshEntries
<1>3. CASE entries # None /\ entries = <<>>
  <2>1. new = [i \in DOMAIN gs |-> Entry(gs[i], closed)]
    BY <1>3 DEF RefreshEntries
  <2>2. \A i \in DOMAIN gs : Entry(gs[i], closed) \in EntryRecord
    BY <1>1 DEF Entry, EntryRecord, PhaseRecord
  <2>3. Len(gs) \in Nat /\ new \in [1 .. Len(gs) -> EntryRecord]
    BY <2>1, <2>2, ListFacts
  <2> QED
    BY <2>3, ListTyped
<1>4. CASE entries # None /\ entries # <<>>
  <2>1. entries \in Seq(EntryRecord)
    BY <1>4
  <2>2. new = [k \in DOMAIN entries |->
                 LET owner == {i \in DOMAIN gs : Owned(entries[k], gs[i])}
                 IN  IF owner = {} THEN entries[k]
                     ELSE EntryEdit(entries[k], gs[CHOOSE i \in owner : TRUE], closed)]
    BY <1>4, Zenon DEF RefreshEntries
  <2>3. ASSUME NEW k \in DOMAIN entries PROVE new[k] \in EntryRecord
    <3>1. PICK owner : owner = {i \in DOMAIN gs : Owned(entries[k], gs[i])}
      OBVIOUS
    <3>2. new[k] = IF owner = {} THEN entries[k] ELSE EntryEdit(entries[k], gs[CHOOSE i \in owner : TRUE], closed)
      BY <2>2, <3>1, Zenon
    <3>3. entries[k] \in EntryRecord
      BY <2>1
    <3>4. ASSUME NEW i \in DOMAIN gs PROVE EntryEdit(entries[k], gs[i], closed) \in EntryRecord
      BY <1>1, <3>3 DEF EntryEdit, EntryRecord, PhaseRecord
    <3>5. owner # {} => (CHOOSE i \in owner : TRUE) \in DOMAIN gs
      BY <3>1
    <3> QED
      BY <3>2, <3>3, <3>4, <3>5
  <2>4. Len(entries) \in Nat /\ new \in [1 .. Len(entries) -> EntryRecord]
    <3>1. Len(entries) \in Nat /\ DOMAIN entries = 1 .. Len(entries)
      BY <2>1
    <3>2. new = [k \in DOMAIN entries |-> new[k]]
      BY <2>2
    <3> QED
      BY <2>3, <3>1, <3>2
  <2> QED
    BY <2>4, ListTyped
<1> QED
  BY <1>2, <1>3, <1>4

LEMMA ReadmeUpdateTyped ==
  ASSUME NEW r, ReadmeTyped(r), NEW gs \in Seq(PhaseRecord), NEW closed,
         NEW new, new = PlanReadmeUpdate(r, gs, closed)
  PROVE  ReadmeTyped(new) /\ new.prose = r.prose /\ new.status = r.status /\ new.entries = RefreshEntries(r.entries, gs, closed)
<1>1. PICK ev : ev = IF PlanEvidence(gs, closed) = None THEN r.evidence ELSE PlanEvidence(gs, closed)
  OBVIOUS
<1>2. PICK section : section = GraphViewSection(gs)
  OBVIOUS
<1>3. PICK entries : entries = RefreshEntries(r.entries, gs, closed)
  OBVIOUS
<1>4. new = [status |-> r.status, entries |-> entries, section |-> section, evidence |-> ev, prose |-> r.prose]
  <2>1. new = [r EXCEPT !.entries = entries, !.section = section, !.evidence = ev]
    BY <1>1, <1>2, <1>3 DEF PlanReadmeUpdate
  <2> QED
    BY <2>1 DEF ReadmeTyped
<1>5. entries = None \/ entries \in Seq(EntryRecord)
  BY <1>3, RefreshTyped DEF ReadmeTyped
<1> QED
  BY <1>3, <1>4, <1>5 DEF ReadmeTyped

\* What a command takes along when it has computed the README's new text.
Updates(s, j) ==
  j = [job[s] EXCEPT !.text = PlanReadmeUpdate(readme, GroupPhases(job[s].g), job[s].closed), !.read = readme]

LEMMA UpdateMeans ==
  ASSUME JobsTyped, NEW s \in Sessions, UpdateReadme(s)
  PROVE  /\ pc[s] = "readme" /\ Quietly(s)
         /\ Finish(s) \/ \E j : Updates(s, j) /\ Moves(s, "commit", j)
<1>1. PICK gs : gs = GroupPhases(job[s].g)
  OBVIOUS
<1>2. PICK text : text = PlanReadmeUpdate(readme, gs, job[s].closed)
  OBVIOUS
<1>3. /\ pc[s] = "readme" /\ Quietly(s)
      /\ \/ Finish(s)
         \/ job' = [job EXCEPT ![s].text = text, ![s].read = readme] /\ Goto(s, "commit")
  BY <1>1, <1>2 DEF UpdateReadme
<1>4. PICK j : j = [job[s] EXCEPT !.text = text, !.read = readme]
  OBVIOUS
<1>5. Updates(s, j)
  BY <1>1, <1>2, <1>4 DEF Updates
<1>6. job' = [job EXCEPT ![s].text = text, ![s].read = readme] /\ Goto(s, "commit") => Moves(s, "commit", j)
  BY <1>4 DEF Moves, Goto, JobsTyped
<1> QED
  BY <1>3, <1>5, <1>6

LEMMA UpdateReadmeTyped ==
  ASSUME Typed, NEW s \in Sessions, UpdateReadme(s)
  PROVE  Typed'
<1>1. JobsTyped /\ JobTyped("readme", job[s], graph.seq) /\ pc[s] = "readme" /\ Quietly(s) /\ ReadmeTyped(readme)
  BY JobOf, UpdateMeans DEF Typed
<1>2. /\ JobRecord(job[s]) /\ GraphTyped(job[s].g) /\ job[s].g.seq <= graph.seq /\ job[s].repo \in BOOLEAN
  BY <1>1 DEF JobTyped, Running
<1>3. ASSUME NEW j, Updates(s, j), Moves(s, "commit", j) PROVE Typed'
  <2>1. PICK gs : gs = GroupPhases(job[s].g)
    OBVIOUS
  <2>2. gs \in Seq(PhaseRecord)
    BY <1>2, <2>1, GroupsTyped DEF GraphTyped
  <2>3. PICK text : text = PlanReadmeUpdate(readme, gs, job[s].closed)
    OBVIOUS
  <2>4. ReadmeTyped(text) /\ text.prose = readme.prose /\ text.status = readme.status
    BY <1>1, <2>2, <2>3, ReadmeUpdateTyped
  <2>5. j = [job[s] EXCEPT !.text = text, !.read = readme]
    BY <1>3, <2>1, <2>3 DEF Updates
  <2>6. JobRecord(j) /\ j.g = job[s].g /\ j.repo = job[s].repo /\ j.text = text /\ j.read = readme
    BY <1>2, <2>5 DEF JobRecord
  <2>7. JobTyped("commit", j, graph.seq)
    BY <1>1, <1>2, <2>4, <2>6 DEF JobTyped, Labels, Running
  <2> QED
    BY <1>1, <1>3, <2>7, QuietTyped
<1> QED
  BY <1>1, <1>3, FinishQuietlyTyped, UpdateMeans

\* A step of s that leaves the graph and changes the README, or neither.
LEMMA ReadmeMoves ==
  ASSUME Typed, NEW s \in Sessions, NEW l, NEW j, Moves(s, l, j), JobTyped(l, j, graph.seq),
         ReadmeTyped(readme'), UNCHANGED <<graph, view, reviews, crashes>>
  PROVE  Typed'
<1>1. graph' = graph /\ view' = view /\ reviews' = reviews /\ crashes' = crashes /\ graph.seq \in Nat /\ JobsTyped
  BY JobOf
<1>2. JobsTyped'
  BY <1>1, JobsStayTyped
<1> QED
  BY <1>1, <1>2 DEF Typed, ViewsTyped, Reviews

\* What a completing command goes on with.
CompletingJob(s) == [job[s] EXCEPT !.text = None, !.read = None]

LEMMA CommitReadmeTyped ==
  ASSUME Typed, NEW s \in Sessions, CommitReadme(s)
  PROVE  Typed'
<1>1. JobsTyped /\ JobTyped("commit", job[s], graph.seq) /\ ReadmeTyped(readme) /\ graph.seq \in Nat
  BY JobOf DEF Typed, CommitReadme
<1>2. ReadmeTyped(job[s].text)
  BY <1>1 DEF JobTyped
<1>3. PICK j : j = CompletingJob(s)
  OBVIOUS
<1>4. \/ Finish(s) /\ Quietly(s)
      \/ /\ readme' = readme \/ readme' = job[s].text
         /\ Finish(s) \/ Moves(s, "expect", j)
         /\ UNCHANGED <<graph, view, reviews, crashes>>
  BY <1>1, <1>3 DEF CommitReadme, Goto, Moves, CompletingJob, JobsTyped
<1>5. JobTyped("expect", j, graph.seq)
  <2>1. JobRecord(job[s]) /\ job[s].repo \in BOOLEAN /\ GraphTyped(job[s].g) /\ job[s].g.seq <= graph.seq
    BY <1>1 DEF JobTyped, Running
  <2>2. JobRecord(j) /\ j.repo = job[s].repo /\ j.g = job[s].g
    BY <1>3, <2>1 DEF JobRecord, CompletingJob
  <2> QED
    BY <1>1, <2>1, <2>2, JobReady
<1>6. (readme' = readme \/ readme' = job[s].text) => ReadmeTyped(readme')
  BY <1>1, <1>2
<1> QED
  BY <1>1, <1>4, <1>5, <1>6, FinishMoves, FinishTyped, FinishQuietlyTyped, ReadmeMoves

LEMMA ExpectReadmeTyped ==
  ASSUME Typed, NEW s \in Sessions, ExpectReadme(s)
  PROVE  Typed'
<1>1. /\ pc[s] = "expect" /\ job' = [job EXCEPT ![s].read = readme] /\ Goto(s, "flip") /\ Quietly(s)
  BY DEF ExpectReadme
<1>2. PICK j : j = [job[s] EXCEPT !.read = readme]
  OBVIOUS
<1>3. /\ JobsTyped /\ JobRecord(job[s]) /\ job[s].repo \in BOOLEAN
      /\ GraphTyped(job[s].g) /\ job[s].g.seq <= graph.seq
  BY <1>1, JobOf DEF JobTyped, Running
<1>4. JobRecord(j) /\ j.repo = job[s].repo /\ j.g = job[s].g
  BY <1>2, <1>3 DEF JobRecord
<1>5. JobTyped("flip", j, graph.seq)
  BY <1>3, <1>4, JobReady
<1>6. Moves(s, "flip", j)
  BY <1>1, <1>2, <1>3 DEF Moves, Goto, JobsTyped
<1> QED
  BY <1>1, <1>5, <1>6, QuietTyped

LEMMA FlipStatusTyped ==
  ASSUME Typed, NEW s \in Sessions, FlipStatus(s)
  PROVE  Typed'
<1>1. /\ readme' = IF ReadmeAsRead(s) THEN [readme EXCEPT !.status = "complete"] ELSE readme
      /\ Finish(s) /\ UNCHANGED <<graph, view, reviews, crashes>>
  BY DEF FlipStatus
<1>2. ReadmeTyped(readme')
  BY <1>1 DEF Typed, ReadmeTyped
<1>3. JobTyped("idle", NoJob, graph.seq)
  BY DEF JobTyped, JobRecord, NoJob, Labels, Running
<1> QED
  BY <1>1, <1>2, <1>3, FinishMoves, ReadmeMoves

LEMMA KilledTyped ==
  ASSUME Typed, NEW s \in Sessions, Killed(s)
  PROVE  Typed'
<1>1. /\ graph' = graph /\ view' = view /\ readme' = readme /\ reviews' = reviews
      /\ crashes' = crashes + 1 /\ Finish(s)
  BY DEF Killed, files
<1>2. JobTyped("idle", NoJob, graph.seq) /\ JobsTyped /\ graph.seq \in Nat
  BY JobOf DEF JobTyped, JobRecord, NoJob, Labels, Running
<1>3. JobsTyped'
  BY <1>1, <1>2, FinishMoves, JobsStayTyped
<1>4. crashes' \in Nat
  BY <1>1 DEF Typed
<1> QED
  BY <1>1, <1>3, <1>4 DEF Typed, ViewsTyped, Reviews

\* Everybody else: the graph is replaced, or a file is.
LEMMA GraphChanges ==
  ASSUME Typed, GraphTyped(graph'), graph.seq <= graph'.seq, Elsewhere
  PROVE  Typed'
<1>1. /\ view' = view /\ readme' = readme /\ reviews' = reviews /\ pc' = pc /\ job' = job /\ crashes' = crashes
  BY DEF Elsewhere, files
<1>2. graph.seq \in Nat /\ graph'.seq \in Nat
  BY DEF Typed, GraphTyped
<1>3. ASSUME NEW s \in Sessions PROVE JobTyped(pc[s], job[s], graph'.seq)
  <2>1. JobTyped(pc[s], job[s], graph.seq)
    BY JobOf
  <2> QED
    BY <1>2, <2>1 DEF JobTyped, GraphTyped
<1>4. JobsTyped'
  BY <1>1, <1>3 DEF JobsTyped, Typed
<1> QED
  BY <1>1, <1>4 DEF Typed, ViewsTyped, Reviews

LEMMA ReplacedTyped ==
  ASSUME NEW g, GraphTyped(g), NEW i \in DOMAIN g.nodes, NEW n \in Node, n.id = g.nodes[i].id,
         NEW m \in Nat, g.seq <= m, n.obs <= m, n.closed => n.obs # 0,
         NEW h, h = [nodes |-> [g.nodes EXCEPT ![i] = n], seq |-> m, completedAt |-> g.completedAt]
  PROVE  GraphTyped(h) /\ h.seq = m
<1>1. PICK q : q = [g.nodes EXCEPT ![i] = n]
  OBVIOUS
<1>2. /\ g.nodes \in Seq(Node) /\ DOMAIN g.nodes = 1 .. Len(g.nodes) /\ Len(g.nodes) \in Nat
      /\ \A k \in DOMAIN g.nodes : g.nodes[k] \in Node /\ g.nodes[k].obs \in Nat
  BY NodesTyped
<1>3. /\ DOMAIN q = DOMAIN g.nodes /\ q \in Seq(Node)
      /\ \A k \in DOMAIN q : q[k] = IF k = i THEN n ELSE g.nodes[k]
  BY <1>1, <1>2
<1>4. \A k, l \in DOMAIN q : q[k].id = q[l].id => k = l
  <2>1. \A k \in DOMAIN q : q[k].id = g.nodes[k].id
    BY <1>3
  <2>2. \A k, l \in DOMAIN g.nodes : g.nodes[k].id = g.nodes[l].id => k = l
    BY DEF GraphTyped
  <2> QED
    BY <1>3, <2>1, <2>2
<1>5. \A k \in DOMAIN q : q[k].obs <= m /\ (q[k].closed => q[k].obs # 0)
  <2>1. g.seq \in Nat /\ \A k \in DOMAIN g.nodes : g.nodes[k].obs <= g.seq /\ (g.nodes[k].closed => g.nodes[k].obs # 0)
    BY DEF GraphTyped
  <2> QED
    BY <1>2, <1>3, <2>1
<1>6. g.seq \in Nat /\ (g.completedAt # None => g.completedAt \in Nat /\ g.completedAt <= g.seq)
  BY DEF GraphTyped
<1>7. h.nodes = q /\ h.seq = m /\ h.completedAt = g.completedAt
  BY <1>1
<1>8. h = [nodes |-> h.nodes, seq |-> h.seq, completedAt |-> h.completedAt]
  OBVIOUS
<1>9. h.completedAt # None => h.completedAt \in Nat /\ h.completedAt <= h.seq
  BY <1>6, <1>7
<1> QED
  BY <1>3, <1>4, <1>5, <1>7, <1>8, <1>9 DEF GraphTyped

\* A node of the graph is changed, and nothing of the counter.
LEMMA UpdateTyped ==
  ASSUME Typed, NEW i \in DOMAIN graph.nodes, NEW n \in Node, n.id = graph.nodes[i].id,
         n.obs <= graph.seq, n.closed => n.obs # 0, Update(i, n), Elsewhere
  PROVE  Typed'
<1>1. GraphTyped(graph) /\ graph.seq \in Nat
  BY DEF Typed, GraphTyped
<1>2. graph' = [nodes |-> [graph.nodes EXCEPT ![i] = n], seq |-> graph.seq, completedAt |-> graph.completedAt]
  BY <1>1 DEF Update, GraphTyped
<1>3. GraphTyped(graph') /\ graph'.seq = graph.seq
  BY <1>1, <1>2, ReplacedTyped
<1> QED
  BY <1>1, <1>3, GraphChanges

LEMMA NodeOf ==
  ASSUME Typed, NEW i \in DOMAIN graph.nodes
  PROVE  /\ graph.nodes[i] \in Node /\ graph.nodes[i].obs \in Nat /\ graph.nodes[i].obs <= graph.seq
         /\ graph.nodes[i].closed => graph.nodes[i].obs # 0
         /\ graph.seq \in Nat /\ GraphTyped(graph)
<1>1. GraphTyped(graph)
  BY DEF Typed
<1>2. graph.nodes[i] \in Node /\ graph.nodes[i].obs \in Nat
  BY <1>1, NodesTyped
<1> QED
  BY <1>1, <1>2 DEF GraphTyped

LEMMA ClaimTyped ==
  ASSUME Typed, NEW i \in DOMAIN graph.nodes, Claim(i)
  PROVE  Typed'
<1>1. PICK m : m = graph.nodes[i]
  OBVIOUS
<1>2. m \in Node /\ m.obs <= graph.seq /\ (m.closed => m.obs # 0)
  BY <1>1, NodeOf
<1>3. PICK n : n = [m EXCEPT !.claimed = TRUE]
  OBVIOUS
<1>4. n \in Node /\ n.id = m.id /\ n.obs = m.obs /\ n.closed = m.closed
  BY <1>2, <1>3 DEF Node
<1>5. Update(i, n) /\ Elsewhere
  BY <1>1, <1>3 DEF Claim
<1> QED
  BY <1>1, <1>2, <1>4, <1>5, UpdateTyped

LEMMA ReopenTyped ==
  ASSUME Typed, NEW i \in DOMAIN graph.nodes, NEW contract \in Nat, Reopen(i, contract)
  PROVE  Typed'
<1>1. PICK m : m = graph.nodes[i]
  OBVIOUS
<1>2. m \in Node /\ m.obs <= graph.seq
  BY <1>1, NodeOf
<1>3. PICK n : n = [m EXCEPT !.closed = FALSE, !.contract = contract]
  OBVIOUS
<1>4. n \in Node /\ n.id = m.id /\ n.obs = m.obs /\ ~n.closed
  BY <1>2, <1>3 DEF Node
<1>5. Update(i, n) /\ Elsewhere
  BY <1>1, <1>3 DEF Reopen
<1> QED
  BY <1>1, <1>2, <1>4, <1>5, UpdateTyped

\* The node as a sync leaves it.
Observed(n, rev) == [n EXCEPT !.obs = graph.seq + 1, !.rev = rev, !.claimed = FALSE, !.closed = FALSE]

LEMMA ObserveMeans ==
  ASSUME Typed, NEW i \in DOMAIN graph.nodes, NEW rev \in Nat, Observe(i, rev)
  PROVE  /\ graph' = [nodes |-> [graph.nodes EXCEPT ![i] = Observed(graph.nodes[i], rev)],
                      seq |-> graph.seq + 1, completedAt |-> graph.completedAt]
         /\ Elsewhere /\ proved' = proved
<1>1. graph = [nodes |-> graph.nodes, seq |-> graph.seq, completedAt |-> graph.completedAt]
  BY DEF Typed, GraphTyped
<1> QED
  BY <1>1 DEF Observe, Observed

LEMMA ObserveTyped ==
  ASSUME Typed, NEW i \in DOMAIN graph.nodes, NEW rev \in Nat, Observe(i, rev)
  PROVE  Typed'
<1>1. PICK m : m = graph.nodes[i]
  OBVIOUS
<1>2. m \in Node /\ graph.seq \in Nat /\ GraphTyped(graph)
  BY <1>1, NodeOf
<1>3. PICK n : n = Observed(m, rev)
  OBVIOUS
<1>4. n \in Node /\ n.id = m.id /\ n.obs = graph.seq + 1 /\ ~n.closed
  <2>1. PICK k \in Nat : k = graph.seq + 1
    BY <1>2
  <2>2. n = [m EXCEPT !.obs = k, !.rev = rev, !.claimed = FALSE, !.closed = FALSE]
    BY <1>3, <2>1 DEF Observed
  <2> QED
    BY <1>2, <2>1, <2>2 DEF Node
<1>5. graph' = [nodes |-> [graph.nodes EXCEPT ![i] = n], seq |-> graph.seq + 1, completedAt |-> graph.completedAt]
  BY <1>1, <1>3, ObserveMeans
<1>6. graph.seq + 1 \in Nat /\ graph.seq <= graph.seq + 1 /\ n.obs <= graph.seq + 1
  BY <1>2, <1>4
<1>7. GraphTyped(graph') /\ graph'.seq = graph.seq + 1
  BY <1>1, <1>2, <1>4, <1>5, <1>6, ReplacedTyped
<1> QED
  BY <1>2, <1>6, <1>7, GraphChanges, ObserveMeans

LEMMA CloseTyped ==
  ASSUME Typed, Close
  PROVE  /\ Typed'
         /\ graph' = [nodes |-> Reviewed(graph.nodes), seq |-> graph.seq, completedAt |-> graph.completedAt]
<1>1. /\ graph' = [graph EXCEPT !.nodes = Reviewed(@)]
      /\ Elsewhere
  BY DEF Close
<1>2. GraphTyped(graph)
  BY DEF Typed
<1>3. graph' = [nodes |-> Reviewed(graph.nodes), seq |-> graph.seq, completedAt |-> graph.completedAt]
  BY <1>1, <1>2 DEF GraphTyped
<1>4. /\ graph.nodes \in Seq(Node) /\ DOMAIN graph.nodes = 1 .. Len(graph.nodes) /\ Len(graph.nodes) \in Nat
      /\ \A i \in DOMAIN graph.nodes : graph.nodes[i] \in Node /\ graph.nodes[i].obs \in Nat
  BY <1>2, NodesTyped
<1>5. PICK q : q = Reviewed(graph.nodes)
  OBVIOUS
<1>6. /\ DOMAIN q = DOMAIN graph.nodes
      /\ \A i \in DOMAIN q : /\ q[i] \in Node /\ q[i].id = graph.nodes[i].id /\ q[i].obs = graph.nodes[i].obs
                             /\ q[i].closed => graph.nodes[i].closed \/ graph.nodes[i].obs # 0
  BY <1>4, <1>5 DEF Reviewed, Node
<1>7. q \in Seq(Node)
  <2>1. q \in [1 .. Len(graph.nodes) -> Node]
    <3>1. q = [i \in DOMAIN graph.nodes |-> q[i]]
      BY <1>5 DEF Reviewed
    <3> QED
      BY <1>4, <1>6, <3>1
  <2> QED
    BY <1>4, <2>1, ListTyped
<1>8. GraphTyped(graph') /\ graph'.seq = graph.seq
  <2>1. graph'.nodes = q /\ graph'.seq = graph.seq /\ graph'.completedAt = graph.completedAt
        /\ graph' = [nodes |-> graph'.nodes, seq |-> graph'.seq, completedAt |-> graph'.completedAt]
    BY <1>3, <1>5
  <2> QED
    BY <1>2, <1>6, <1>7, <2>1 DEF GraphTyped
<1>9. Typed'
  <2>1. graph.seq \in Nat
    BY <1>2 DEF GraphTyped
  <2> QED
    BY <1>1, <1>8, <2>1, GraphChanges
<1> QED
  BY <1>3, <1>9

LEMMA FilesChange ==
  ASSUME Typed, UNCHANGED <<graph, pc, job, crashes>>, ViewsTyped', ReadmeTyped(readme'), Reviews'
  PROVE  Typed'
BY DEF Typed, JobsTyped

LEMMA ReviewTyped ==
  ASSUME Typed, NEW d \in Documents, Review(d)
  PROVE  Typed'
<1>1. PICK rev \in Revisions : reviews' = Append(reviews, [of |-> d, rev |-> rev])
  BY DEF Review
<1>2. UNCHANGED <<graph, pc, job, crashes>> /\ view' = view /\ readme' = readme
  BY DEF Review, files
<1>3. rev \in Nat
  BY ViewsAssumption
<1>4. Reviews'
  BY <1>1, <1>3 DEF Typed, Reviews
<1> QED
  BY <1>2, <1>4, FilesChange DEF Typed, ViewsTyped

LEMMA EditTyped ==
  ASSUME Typed, EditReadme \/ \E d \in Documents : EditDocument(d)
  PROVE  Typed'
<1>1. UNCHANGED <<graph, reviews, pc, job, crashes>> /\ readme' = [readme EXCEPT !.prose = @ + 1]
  BY DEF EditReadme, EditDocument
<1>2. ReadmeTyped(readme')
  BY <1>1 DEF Typed, ReadmeTyped
<1>3. HandWritten \in Document /\ Whole(HandWritten)
  BY DEF HandWritten, Document, Whole
<1>4. ViewsTyped'
  BY <1>3 DEF EditReadme, EditDocument, Typed, ViewsTyped
<1> QED
  BY <1>1, <1>2, <1>4, FilesChange DEF Typed, Reviews

LEMMA TypedInit == Init => Typed
<1> SUFFICES ASSUME Init PROVE Typed
  OBVIOUS
<1>1. GraphTyped(graph)
  <2>1. First \in Seq(Node) /\ \A i, j \in DOMAIN First : First[i].id = First[j].id => i = j
    BY ViewsAssumption DEF IsInjective
  <2>2. \A i \in DOMAIN First : First[i].obs = 0 /\ ~First[i].closed
    BY ViewsAssumption DEF Range
  <2> QED
    BY <2>1, <2>2 DEF Init, GraphTyped
<1>2. ViewsTyped
  BY DEF Init, ViewsTyped
<1>3. ReadmeTyped(readme)
  <2>1. <<>> \in Seq(EntryRecord)
    OBVIOUS
  <2>2. readme \in [status : {"active"}, entries : {<<>>}, section : {None}, evidence : {None}, prose : {0}]
    BY DEF Init
  <2>3. readme.entries = <<>> /\ readme.prose = 0
    BY <2>2
  <2>4. readme = [status |-> readme.status, entries |-> readme.entries, section |-> readme.section,
                  evidence |-> readme.evidence, prose |-> readme.prose]
    BY <2>2
  <2> QED
    BY <2>1, <2>3, <2>4 DEF ReadmeTyped
<1>4. JobsTyped
  <2>1. graph.seq \in Nat
    BY <1>1 DEF GraphTyped
  <2>2. JobTyped("idle", NoJob, graph.seq)
    BY <2>1, FinishTyped
  <2>3. "idle" \in Labels
    BY DEF Labels
  <2> QED
    BY <2>2, <2>3 DEF Init, JobsTyped
<1> QED
  BY <1>1, <1>2, <1>3, <1>4 DEF Init, Typed, Reviews

LEMMA TypedStep == Typed /\ [Next]_vars => Typed'
<1> SUFFICES ASSUME Typed, [Next]_vars PROVE Typed'
  OBVIOUS
<1>1. ASSUME NEW s \in Sessions, Step(s) PROVE Typed'
  <2>1. CASE Compile(s) \/ CompileAppend(s) \/ RecordCompletedAt(s) \/ Preflight(s) \/ Judge(s) \/ WriteView(s)
    BY <2>1, CompileTyped, CompileAppendTyped, RecordTyped, PreflightTyped, JudgeTyped, WriteViewTyped
  <2>2. CASE Rerender(s) \/ PhaseComplete(s) \/ PlanComplete(s)
    BY <2>2, BeginTyped DEF Rerender, PhaseComplete, PlanComplete
  <2>3. CASE UpdateReadme(s) \/ CommitReadme(s) \/ ExpectReadme(s) \/ FlipStatus(s) \/ Killed(s)
    BY <2>3, UpdateReadmeTyped, CommitReadmeTyped, ExpectReadmeTyped, FlipStatusTyped, KilledTyped
  <2> QED
    BY <1>1, <2>1, <2>2, <2>3 DEF Step
<1>2. CASE Others
  <2>1. ASSUME NEW i \in DOMAIN graph.nodes,
               \/ Claim(i) \/ \E rev \in Revisions : Observe(i, rev)
               \/ Reopen(i, graph.nodes[i].contract) \/ Reopen(i, 1)
        PROVE  Typed'
    <3>1. graph.nodes[i].contract \in Nat
      BY NodeOf DEF Node
    <3>2. Revisions \subseteq Nat
      BY ViewsAssumption
    <3> QED
      BY <2>1, <3>1, <3>2, ClaimTyped, ObserveTyped, ReopenTyped
  <2>2. CASE Close \/ EditReadme \/ \E d \in Documents : Review(d) \/ EditDocument(d)
    BY <2>2, CloseTyped, EditTyped, ReviewTyped
  <2> QED
    BY <1>2, <2>1, <2>2 DEF Others
<1>3. CASE UNCHANGED vars
  BY <1>3 DEF vars, files, Typed, JobsTyped, ViewsTyped, Reviews
<1> QED
  BY <1>1, <1>2, <1>3 DEF Next

\* TypeOK holds of every behaviour: what a view shows is a document, its
\* evidence, its status and its marker belong together, and nothing is closed
\* by an observation the graph has not counted (render_phase.go, evidence.go).
THEOREM ViewsAreTyped == Spec => []TypeOK
<1>1. Typed /\ [Next]_vars => Typed'
  BY TypedStep
<1> QED
  BY <1>1, TypedInit, TypedMeans, PTL DEF Spec

-----------------------------------------------------------------------------
(***************************************************************************)
(* What each step of a command does, in the terms the invariants need.     *)
(***************************************************************************)
Carries(s, j) ==
  j.cmd = job[s].cmd /\ j.g = job[s].g /\ j.judged = job[s].judged /\ j.closed = job[s].closed

Begins(j, cmd, closed) == j.cmd = cmd /\ j.g = graph /\ j.judged = Ids(graph) /\ j.closed = closed

\* No file, nor what a review has proved, is changed by the step.
Leaves == /\ graph' = graph /\ view' = view /\ readme' = readme
          /\ proved' = proved /\ overtaken' = overtaken

LEMMA QuietlyLeaves ==
  ASSUME NEW s, Quietly(s)
  PROVE  Leaves /\ crossed' = crossed
BY DEF Quietly, files, history, Leaves

LEMMA BeginMeans ==
  ASSUME NEW s \in Sessions, NEW cmd, NEW l, NEW closed, Begin(s, cmd, l, closed)
  PROVE  /\ pc[s] = "idle" /\ Leaves /\ crossed' = crossed \ {s}
         /\ \E j : Moves(s, l, j) /\ Begins(j, cmd, closed)
<1>1. PICK repo \in BOOLEAN :
         /\ job' = [job EXCEPT ![s] = [NoJob EXCEPT !.cmd = cmd, !.g = graph, !.judged = Ids(graph),
                                                    !.closed = closed, !.repo = repo]]
         /\ Goto(s, l) /\ pc[s] = "idle" /\ crossed' = crossed \ {s}
         /\ UNCHANGED <<graph, files, reviews, crashes, proved, overtaken>>
  BY DEF Begin
<1>2. PICK j : j = [NoJob EXCEPT !.cmd = cmd, !.g = graph, !.judged = Ids(graph), !.closed = closed, !.repo = repo]
  OBVIOUS
<1>3. Begins(j, cmd, closed)
  BY <1>2 DEF NoJob, Begins
<1>4. Moves(s, l, j)
  BY <1>1, <1>2 DEF Moves, Goto
<1> QED
  BY <1>1, <1>3, <1>4 DEF Leaves, files

LEMMA CompileMeans ==
  ASSUME NEW s \in Sessions, Compile(s)
  PROVE  /\ pc[s] = "idle" /\ Quietly(s)
         /\ \E j : Moves(s, "append", j) /\ j.cmd = "render"
<1>0. PICK closed : closed = ClosedNodes(Preview)
  OBVIOUS
<1>1. PICK repo \in BOOLEAN :
         /\ job' = [job EXCEPT ![s] = [NoJob EXCEPT !.cmd = "render", !.repo = repo, !.closed = closed]]
         /\ Goto(s, "append") /\ Quietly(s) /\ pc[s] = "idle"
  BY <1>0 DEF Compile
<1>2. PICK j : j = [NoJob EXCEPT !.cmd = "render", !.repo = repo, !.closed = closed]
  OBVIOUS
<1>3. j.cmd = "render"
  BY <1>2 DEF NoJob
<1>4. Moves(s, "append", j)
  BY <1>1, <1>2 DEF Moves, Goto
<1> QED
  BY <1>1, <1>3, <1>4

\* The nodes are in the graph, and the closure is that of the graph as written.
Appends(s, j) ==
  /\ \A n \in Range(Added) : n.id \notin Ids(graph)
  /\ graph' = [graph EXCEPT !.nodes = @ \o Added]
  /\ j.cmd = job[s].cmd /\ j.g = graph' /\ j.closed = ClosedNodes(graph')
  /\ view' = view /\ readme' = readme /\ proved' = proved /\ overtaken' = overtaken /\ crossed' = crossed

LEMMA AppendMeans ==
  ASSUME JobsTyped, NEW s \in Sessions, CompileAppend(s)
  PROVE  /\ pc[s] = "append"
         /\ (Finish(s) /\ Quietly(s)) \/ \E j : Moves(s, "preflight", j) /\ Appends(s, j)
<1>1. CASE \A n \in Range(Added) : n.id \notin Ids(graph)
  <2>1. /\ graph' = [graph EXCEPT !.nodes = @ \o Added]
        /\ job' = [job EXCEPT ![s].g = graph', ![s].judged = Ids(graph'),
                               ![s].closed = ClosureAsWritten(s, graph')]
        /\ Goto(s, "preflight") /\ view' = view /\ readme' = readme /\ pc[s] = "append"
        /\ proved' = proved /\ overtaken' = overtaken /\ crossed' = crossed
    BY <1>1 DEF CompileAppend, files, history
  <2>2. PICK j : j = [job[s] EXCEPT !.g = graph', !.judged = Ids(graph'), !.closed = ClosedNodes(graph')]
    OBVIOUS
  <2>3. Moves(s, "preflight", j)
    BY <2>1, <2>2 DEF Moves, Goto, JobsTyped, ClosureAsWritten
  <2>4. JobRecord(job[s])
    BY DEF JobsTyped, JobTyped
  <2>5. j.cmd = job[s].cmd /\ j.g = graph' /\ j.closed = ClosedNodes(graph')
    BY <2>2, <2>4 DEF JobRecord
  <2> QED
    BY <1>1, <2>1, <2>3, <2>5 DEF Appends
<1>2. CASE ~(\A n \in Range(Added) : n.id \notin Ids(graph))
  BY <1>2 DEF CompileAppend
<1> QED
  BY <1>1, <1>2

\* The closing identity is in the graph and in what the command carries, or
\* in neither.  What the command takes in with it that nothing closes is kept.
Records(s, j) ==
  /\ graph'.nodes = graph.nodes
  /\ \/ j.g = graph' /\ overtaken' = overtaken \cup {<<n.id, n.obs>> : n \in ObservedAnew(s)}
     \/ graph' = graph /\ j.g = job[s].g /\ overtaken' = overtaken
  /\ j.cmd = job[s].cmd /\ j.judged = job[s].judged /\ j.closed = job[s].closed
  /\ view' = view /\ readme' = readme /\ proved' = proved /\ crossed' = crossed

LEMMA RecordMeans ==
  ASSUME Typed, NEW s \in Sessions, RecordCompletedAt(s)
  PROVE  pc[s] = "record" /\ \E j : Moves(s, "preflight", j) /\ Records(s, j)
<1>0. PICK anew : anew = {<<n.id, n.obs>> : n \in ObservedAnew(s)}
  OBVIOUS
<1>1. /\ pc[s] = "record" /\ Goto(s, "preflight") /\ UNCHANGED <<files, reviews, crashes, proved, crossed>>
      /\ IF job[s].repo
         THEN /\ graph' = [graph EXCEPT !.completedAt = job[s].g.seq]
              /\ job' = [job EXCEPT ![s].g = graph']
              /\ overtaken' = overtaken \cup anew
         ELSE UNCHANGED <<graph, job, overtaken>>
  BY <1>0 DEF RecordCompletedAt
<1>2. GraphTyped(graph) /\ JobsTyped /\ JobRecord(job[s])
  BY JobOf DEF JobTyped
<1>3. PICK j : j = IF job[s].repo THEN [job[s] EXCEPT !.g = graph'] ELSE job[s]
  OBVIOUS
<1>4. Moves(s, "preflight", j)
  BY <1>1, <1>2, <1>3 DEF Moves, Goto, JobsTyped
<1>5. /\ graph'.nodes = graph.nodes
      /\ \/ j.g = graph' /\ overtaken' = overtaken \cup anew
         \/ graph' = graph /\ j.g = job[s].g /\ overtaken' = overtaken
  BY <1>1, <1>2, <1>3 DEF GraphTyped, JobRecord
<1>6. j.cmd = job[s].cmd /\ j.judged = job[s].judged /\ j.closed = job[s].closed
  BY <1>2, <1>3 DEF JobRecord
<1>7. Records(s, j)
  BY <1>0, <1>1, <1>5, <1>6 DEF Records, files
<1> QED
  BY <1>1, <1>4, <1>7

LEMMA PreflightMeans ==
  ASSUME JobsTyped, NEW s \in Sessions, Preflight(s)
  PROVE  /\ pc[s] = "preflight" /\ Quietly(s)
         /\ Finish(s) \/ \E j : Moves(s, "judge", j) /\ Carries(s, j) /\ j.todo = GroupPhases(job[s].g)
<1>1. PICK gs : gs = GroupPhases(job[s].g)
  OBVIOUS
<1>2. /\ pc[s] = "preflight" /\ Quietly(s)
      /\ Finish(s) \/ (job' = [job EXCEPT ![s].todo = gs] /\ Goto(s, "judge"))
  BY <1>1 DEF Preflight
<1>3. PICK j : j = [job[s] EXCEPT !.todo = gs]
  OBVIOUS
<1>4. JobRecord(job[s])
  BY DEF JobsTyped, JobTyped
<1>5. Carries(s, j) /\ j.todo = gs
  BY <1>3, <1>4 DEF JobRecord, Carries
<1>6. job' = [job EXCEPT ![s].todo = gs] /\ Goto(s, "judge") => Moves(s, "judge", j)
  BY <1>3 DEF Moves, Goto, JobsTyped
<1> QED
  BY <1>1, <1>2, <1>5, <1>6

LEMMA JudgeCarries ==
  ASSUME JobsTyped, NEW s \in Sessions, NEW j
  PROVE  /\ j = [job[s] EXCEPT !.repo = FALSE] => Carries(s, j)
         /\ JudgeKeeps(s, j) => Carries(s, j) /\ j.todo = Tail(job[s].todo)
         /\ JudgeWrites(s, j) => /\ Carries(s, j) /\ j.todo = Tail(job[s].todo)
                                 /\ j.doc = Head(job[s].todo).doc /\ j.text = Fresh(s)
<1>1. JobRecord(job[s])
  BY DEF JobsTyped, JobTyped
<1>2. j = [job[s] EXCEPT !.repo = FALSE] => Carries(s, j)
  BY <1>1 DEF JobRecord, Carries
<1>3. JudgeKeeps(s, j) => Carries(s, j) /\ j.todo = Tail(job[s].todo)
  BY <1>1 DEF JobRecord, Carries, JudgeKeeps
<1>4. JudgeWrites(s, j) => /\ Carries(s, j) /\ j.todo = Tail(job[s].todo)
                           /\ j.doc = Head(job[s].todo).doc /\ j.text = Fresh(s)
  BY <1>1 DEF JobRecord, Carries, JudgeWrites
<1> QED
  BY <1>2, <1>3, <1>4

LEMMA WriteMeans ==
  ASSUME JobsTyped, NEW s \in Sessions, WriteView(s)
  PROVE  /\ pc[s] = "write" /\ view' = [view EXCEPT ![job[s].doc] = job[s].text]
         /\ graph' = graph /\ readme' = readme /\ proved' = proved /\ overtaken' = overtaken /\ Crosses(s)
         /\ \E j : Moves(s, "judge", j) /\ Carries(s, j) /\ j.todo = job[s].todo
<1>1. PICK j : j = [job[s] EXCEPT !.doc = None, !.text = None]
  OBVIOUS
<1>2. JobRecord(job[s])
  BY DEF JobsTyped, JobTyped
<1>3. Carries(s, j) /\ j.todo = job[s].todo
  BY <1>1, <1>2 DEF JobRecord, Carries
<1>4. Moves(s, "judge", j)
  BY <1>1 DEF WriteView, Moves, Goto, JobsTyped
<1> QED
  BY <1>3, <1>4 DEF WriteView

LEMMA UpdateCarries ==
  ASSUME JobsTyped, NEW s \in Sessions, NEW j, Updates(s, j)
  PROVE  /\ Carries(s, j) /\ j.read = readme
         /\ j.text = PlanReadmeUpdate(readme, GroupPhases(job[s].g), job[s].closed)
<1>1. JobRecord(job[s])
  BY DEF JobsTyped, JobTyped
<1>2. PICK text : text = PlanReadmeUpdate(readme, GroupPhases(job[s].g), job[s].closed)
  OBVIOUS
<1>3. j = [job[s] EXCEPT !.text = text, !.read = readme]
  BY <1>2 DEF Updates
<1>4. Carries(s, j) /\ j.text = text /\ j.read = readme
  BY <1>1, <1>3 DEF JobRecord, Carries
<1> QED
  BY <1>2, <1>4

LEMMA CommitMeans ==
  ASSUME JobsTyped, NEW s \in Sessions, CommitReadme(s)
  PROVE  /\ pc[s] = "commit"
         /\ \/ Finish(s) /\ Quietly(s)
            \/ /\ \/ job[s].text = job[s].read /\ readme' = readme
                  \/ readme = job[s].read /\ readme' = job[s].text
               /\ \/ Finish(s)
                  \/ job[s].cmd = "plan complete" /\ \E j : Moves(s, "expect", j) /\ Carries(s, j)
               /\ graph' = graph /\ view' = view /\ proved' = proved /\ overtaken' = overtaken /\ Crosses(s)
<1>1. PICK j : j = CompletingJob(s)
  OBVIOUS
<1>2. Carries(s, j)
  BY <1>1 DEF CompletingJob, Carries, JobsTyped, JobTyped, JobRecord
<1>3. Goto(s, "expect") /\ job' = [job EXCEPT ![s].text = None, ![s].read = None] => Moves(s, "expect", j)
  BY <1>1 DEF Goto, Moves, CompletingJob, JobsTyped
<1> QED
  BY <1>2, <1>3 DEF CommitReadme, ReadmeAsRead

LEMMA ExpectMeans ==
  ASSUME JobsTyped, NEW s \in Sessions, ExpectReadme(s)
  PROVE  /\ pc[s] = "expect" /\ Quietly(s)
         /\ \E j : Moves(s, "flip", j) /\ Carries(s, j)
<1>1. PICK j : j = [job[s] EXCEPT !.read = readme]
  OBVIOUS
<1>2. JobRecord(job[s])
  BY DEF JobsTyped, JobTyped
<1>3. Carries(s, j)
  BY <1>1, <1>2 DEF JobRecord, Carries
<1>4. Moves(s, "flip", j)
  BY <1>1 DEF ExpectReadme, Moves, Goto, JobsTyped
<1> QED
  BY <1>3, <1>4 DEF ExpectReadme

LEMMA OthersStay ==
  ASSUME Others
  PROVE  pc' = pc /\ job' = job /\ overtaken' = overtaken /\ crossed' = crossed
BY DEF Others, Claim, Observe, Close, Reopen, Review, EditReadme, EditDocument, Elsewhere, history

-----------------------------------------------------------------------------
(***************************************************************************)
(* What a command is at each of its steps, and what it judged.             *)
(***************************************************************************)
\* Said of a session at l with data j.
Completes(l, j) ==
  /\ l \in {"record", "expect", "flip"} => j.cmd = "plan complete"
  /\ l = "append" => j.cmd = "render"
  /\ l \in Running /\ j.cmd = "plan complete" => j.judged \subseteq j.closed

Holds == \A s \in Sessions : Completes(pc[s], job[s])

\* Every step of s is a move of s, to where what it carries is as it must be.
Onward(s) == \E l, j : Moves(s, l, j) /\ (Holds => Completes(l, j))

LEMMA StepGoes ==
  ASSUME Typed, NEW s \in Sessions, Step(s)
  PROVE  Onward(s)
<1>1. JobsTyped /\ (Holds => Completes(pc[s], job[s]))
  BY JobOf DEF Holds
<1>2. Finish(s) => Onward(s)
  <2>1. Completes("idle", NoJob)
    BY DEF Completes, Running
  <2> QED
    BY <2>1, FinishMoves DEF Onward
<1>3. ASSUME NEW l \in Running, NEW j, Moves(s, l, j), pc[s] \in Running, Carries(s, j),
             l \notin {"record", "expect", "flip"} \/ job[s].cmd = "plan complete" \/ pc[s] = "expect"
      PROVE  Onward(s)
  <2>1. Holds => Completes(l, j)
    BY <1>1, <1>3 DEF Completes, Carries, Running
  <2> QED
    BY <1>3, <2>1 DEF Onward
<1>4. CASE Compile(s)
  <2>1. PICK j : Moves(s, "append", j) /\ j.cmd = "render"
    BY <1>4, CompileMeans
  <2>2. Completes("append", j)
    BY <2>1 DEF Completes, Running
  <2> QED
    BY <2>1, <2>2 DEF Onward
<1>5. CASE CompileAppend(s)
  <2>1. ASSUME NEW j, Moves(s, "preflight", j), Appends(s, j), pc[s] = "append" PROVE Onward(s)
    <3>1. Holds => j.cmd = "render"
      BY <1>1, <2>1 DEF Appends, Completes
    <3>2. Holds => Completes("preflight", j)
      BY <3>1 DEF Completes
    <3> QED
      BY <2>1, <3>2 DEF Onward
  <2> QED
    BY <1>1, <1>2, <1>5, <2>1, AppendMeans
<1>6. CASE Rerender(s) \/ PhaseComplete(s)
  <2>1. PICK cmd, l, closed : cmd = "render" /\ l = "preflight" /\ Begin(s, cmd, l, closed)
    BY <1>6 DEF Rerender, PhaseComplete
  <2>2. PICK j : Moves(s, l, j) /\ Begins(j, cmd, closed)
    BY <2>1, BeginMeans
  <2>3. Completes(l, j)
    BY <2>1, <2>2 DEF Completes, Begins
  <2> QED
    BY <2>2, <2>3 DEF Onward
<1>7. CASE PlanComplete(s)
  <2>1. Ids(graph) \subseteq ClosedNodes(graph)
    BY <1>7 DEF PlanComplete, NothingOpen, OpenNodes, Ids
  <2>2. PICK cmd, l, closed : /\ cmd = "plan complete" /\ l = "record" /\ closed = ClosedNodes(graph)
                              /\ Begin(s, cmd, l, closed)
    BY <1>7 DEF PlanComplete
  <2>3. PICK j : Moves(s, l, j) /\ Begins(j, cmd, closed)
    BY <2>2, BeginMeans
  <2>4. Completes(l, j)
    BY <2>1, <2>2, <2>3 DEF Completes, Begins
  <2> QED
    BY <2>3, <2>4 DEF Onward
<1>8. CASE RecordCompletedAt(s)
  <2>1. PICK j : pc[s] = "record" /\ Moves(s, "preflight", j) /\ Records(s, j)
    BY <1>8, RecordMeans
  <2>2. Holds => Completes("preflight", j)
    BY <1>1, <2>1 DEF Completes, Records, Running
  <2> QED
    BY <2>1, <2>2 DEF Onward
<1>9. CASE Preflight(s)
  BY <1>1, <1>2, <1>3, <1>9, PreflightMeans DEF Running
<1>10. CASE Judge(s)
  <2>1. ASSUME NEW l \in {"judge", "write", "readme"}, NEW j, pc[s] = "judge", Moves(s, l, j),
               j = [job[s] EXCEPT !.repo = FALSE] \/ JudgeKeeps(s, j) \/ JudgeWrites(s, j)
        PROVE  Onward(s)
    BY <1>1, <1>3, <2>1, JudgeCarries DEF Running
  <2>2. ASSUME Moves(s, "readme", [job[s] EXCEPT !.repo = FALSE]), pc[s] = "judge" PROVE Onward(s)
    <3>1. PICK j : j = [job[s] EXCEPT !.repo = FALSE]
      OBVIOUS
    <3> QED
      BY <2>1, <2>2, <3>1
  <2> QED
    BY <1>1, <1>2, <1>10, <2>1, <2>2, JudgeMeans
<1>11. CASE WriteView(s)
  BY <1>1, <1>3, <1>11, WriteMeans DEF Running
<1>12. CASE UpdateReadme(s)
  BY <1>1, <1>2, <1>3, <1>12, UpdateMeans, UpdateCarries DEF Running
<1>13. CASE CommitReadme(s)
  BY <1>1, <1>2, <1>3, <1>13, CommitMeans DEF Running
<1>14. CASE ExpectReadme(s)
  BY <1>1, <1>3, <1>14, ExpectMeans DEF Running
<1>15. CASE FlipStatus(s) \/ Killed(s)
  BY <1>2, <1>15 DEF FlipStatus, Killed
<1> QED
  BY <1>4, <1>5, <1>6, <1>7, <1>8, <1>9, <1>10, <1>11, <1>12, <1>13, <1>14, <1>15 DEF Step

LEMMA HoldsStep ==
  ASSUME Typed, Holds, [Next]_vars
  PROVE  Holds'
<1>1. ASSUME NEW s \in Sessions, Step(s) PROVE Holds'
  <2>1. PICK l, j : Moves(s, l, j) /\ Completes(l, j)
    BY <1>1, StepGoes DEF Onward
  <2>2. /\ pc'[s] = l /\ job'[s] = j
        /\ \A t \in Sessions : t # s => pc'[t] = pc[t] /\ job'[t] = job[t]
    BY <2>1, JobOf, MovesAre
  <2>3. \A t \in Sessions : Completes(pc'[t], job'[t])
    BY <2>1, <2>2 DEF Holds
  <2> QED
    BY <2>3 DEF Holds, Completes
<1>2. CASE pc' = pc /\ job' = job
  BY <1>2 DEF Holds, Completes
<1> QED
  BY <1>1, <1>2, OthersStay DEF Next, vars

-----------------------------------------------------------------------------
(***************************************************************************)
(* What is shown as closed has been closed.                                *)
(***************************************************************************)
\* The observations a view may show as closed.
Warranted == proved \cup overtaken

GraphProved == \A n \in Range(graph.nodes) : n.closed => <<n.id, n.obs>> \in proved

ClosureProved(g, closed) == \A n \in Range(g.nodes) : n.id \in closed => <<n.id, n.obs>> \in Warranted

ShownProved(v) == v.frozen => \A i \in DOMAIN v.obs : <<v.core.nodes[i].id, v.obs[i]>> \in Warranted

ViewsProved == \A d \in Documents : view[d] # None => ShownProved(view[d])

JobProved(l, j) ==
  /\ l \in {"record", "preflight", "judge", "write"} => ClosureProved(j.g, j.closed)
  /\ l = "write" => ShownProved(j.text)

Proved == GraphProved /\ ViewsProved /\ \A s \in Sessions : JobProved(pc[s], job[s])

LEMMA ProvedMeans == Typed /\ Proved => FrozenMeansClosed
<1> SUFFICES ASSUME Typed, Proved PROVE FrozenMeansClosed
  OBVIOUS
<1>1. DOMAIN view = Documents
  BY DEF Typed, ViewsTyped
<1> QED
  BY <1>1, TypedMeans DEF FrozenMeansClosed, Proved, ViewsProved, ShownProved, Warranted

LEMMA ClosureOf ==
  ASSUME GraphTyped(graph), GraphProved
  PROVE  ClosureProved(graph, ClosedNodes(graph))
<1>1. ASSUME NEW n \in Range(graph.nodes), n.id \in ClosedNodes(graph) PROVE n.closed
  <2>1. PICK m \in Range(graph.nodes) : m.closed /\ m.id = n.id
    BY <1>1 DEF ClosedNodes
  <2>2. m = n
    BY <2>1 DEF GraphTyped, Range
  <2> QED
    BY <2>1, <2>2
<1> QED
  BY <1>1 DEF GraphProved, ClosureProved, Warranted

LEMMA FreshProved ==
  ASSUME Typed, NEW s \in Sessions, pc[s] = "judge", job[s].todo # <<>>, ClosureProved(job[s].g, job[s].closed)
  PROVE  ShownProved(Fresh(s))
<1>1. PICK ph : ph = Head(job[s].todo)
  OBVIOUS
<1>2. PICK new : new = Fresh(s)
  OBVIOUS
<1>3. Rendered(new, ph, job[s].closed) /\ PhaseOf(job[s].g, ph, ph.ordinal)
  BY <1>1, <1>2, FreshTyped
<1>4. ASSUME new.frozen, NEW i \in DOMAIN new.obs PROVE <<new.core.nodes[i].id, new.obs[i]>> \in Warranted
  <2>1. i \in DOMAIN ph.nodes /\ new.obs[i] = ph.nodes[i].obs /\ new.core.nodes[i].id = ph.nodes[i].id
    BY <1>3, <1>4 DEF Rendered
  <2>2. ph.nodes[i].id \in job[s].closed
    BY <1>3, <1>4, <2>1 DEF Rendered, AllClosed, Range
  <2>3. ph.nodes[i] \in Range(job[s].g.nodes)
    BY <1>3, <2>1 DEF PhaseOf
  <2> QED
    BY <2>1, <2>2, <2>3 DEF ClosureProved
<1> QED
  BY <1>2, <1>4 DEF ShownProved

\* The step of s leaves what has been proved alone.
LEMMA ProvedMove ==
  ASSUME JobsTyped, Proved, NEW s \in Sessions, NEW l, NEW j, Moves(s, l, j),
         \A p \in Warranted : p \in Warranted', JobProved(l, j)', GraphProved', ViewsProved'
  PROVE  Proved'
<1>1. /\ pc'[s] = l /\ job'[s] = j
      /\ \A t \in Sessions : t # s => pc'[t] = pc[t] /\ job'[t] = job[t]
  BY MovesAre
<1>2. ASSUME NEW t \in Sessions PROVE JobProved(pc[t], job[t])'
  <2>1. CASE t = s
    BY <1>1, <2>1 DEF JobProved, ClosureProved, ShownProved
  <2>2. CASE t # s
    <3>1. JobProved(pc[t], job[t]) /\ pc'[t] = pc[t] /\ job'[t] = job[t]
      BY <1>1, <2>2 DEF Proved
    <3> QED
      BY <3>1 DEF JobProved, ClosureProved, ShownProved
  <2> QED
    BY <2>1, <2>2
<1>3. \A t \in Sessions : JobProved(pc[t], job[t])'
  BY <1>2
<1> QED
  BY <1>3 DEF Proved

LEMMA ProvedQuietly ==
  ASSUME JobsTyped, Proved, NEW s \in Sessions, NEW l, NEW j, Moves(s, l, j), JobProved(l, j),
         graph' = graph, view' = view, proved' = proved, overtaken' = overtaken
  PROVE  Proved'
<1>1. Warranted' = Warranted
  BY DEF Warranted
<1>2. GraphProved' /\ ViewsProved'
  BY <1>1 DEF Proved, GraphProved, ViewsProved, ShownProved
<1>3. JobProved(l, j)'
  BY <1>1 DEF JobProved, ClosureProved, ShownProved
<1> QED
  BY <1>1, <1>2, <1>3, ProvedMove

LEMMA AppendProved ==
  ASSUME Typed, Proved, NEW s \in Sessions, NEW j, Moves(s, "preflight", j), Appends(s, j)
  PROVE  Proved'
<1>1. GraphTyped(graph) /\ JobsTyped
  BY JobOf
<1>2. /\ graph' = [graph EXCEPT !.nodes = @ \o Added] /\ \A n \in Range(Added) : n.id \notin Ids(graph)
      /\ j.g = graph' /\ j.closed = ClosedNodes(graph') /\ view' = view /\ proved' = proved
      /\ Warranted' = Warranted
  BY DEF Appends, Warranted
<1>3. GraphTyped(graph') /\ \A n \in Range(graph'.nodes) : n \in Range(graph.nodes) \/ n \in Range(Added)
  BY <1>1, <1>2, AppendedTyped
<1>4. \A n \in Range(Added) : ~n.closed
  BY ViewsAssumption
<1>5. GraphProved'
  BY <1>2, <1>3, <1>4 DEF Proved, GraphProved
<1>6. ClosureProved(graph, ClosedNodes(graph))'
  <2>1. GraphTyped(graph)'
    BY <1>3 DEF GraphTyped
  <2>2. ASSUME NEW n \in Range(graph'.nodes), n.id \in ClosedNodes(graph') PROVE n.closed
    <3>1. PICK m \in Range(graph'.nodes) : m.closed /\ m.id = n.id
      BY <2>2 DEF ClosedNodes
    <3>2. m = n
      BY <1>3, <3>1 DEF GraphTyped, Range
    <3> QED
      BY <3>1, <3>2
  <2> QED
    BY <1>5, <2>2 DEF GraphProved, ClosureProved, Warranted
<1>7. JobProved("preflight", j)'
  BY <1>2, <1>6 DEF JobProved, ClosureProved
<1>8. ViewsProved'
  BY <1>2 DEF Proved, ViewsProved, ShownProved
<1> QED
  BY <1>1, <1>2, <1>5, <1>7, <1>8, ProvedMove

LEMMA ProvedSession ==
  ASSUME Typed, Proved, NEW s \in Sessions, Step(s)
  PROVE  Proved'
<1>1. JobsTyped /\ GraphTyped(graph) /\ JobProved(pc[s], job[s])
  BY JobOf DEF Proved
<1>2. Quietly(s) \/ Leaves => graph' = graph /\ view' = view /\ proved' = proved /\ overtaken' = overtaken
  BY QuietlyLeaves DEF Leaves
<1>3. ASSUME Finish(s), graph' = graph, view' = view, proved' = proved, overtaken' = overtaken PROVE Proved'
  <2>1. JobProved("idle", NoJob)
    BY DEF JobProved
  <2> QED
    BY <1>1, <1>3, <2>1, FinishMoves, ProvedQuietly
<1>4. CASE Compile(s)
  <2>1. PICK j : Moves(s, "append", j)
    BY <1>4, CompileMeans
  <2>2. JobProved("append", j) /\ Quietly(s)
    BY <1>4, CompileMeans DEF JobProved
  <2> QED
    BY <1>1, <1>2, <2>1, <2>2, ProvedQuietly
<1>5. CASE CompileAppend(s)
  BY <1>1, <1>2, <1>3, <1>5, AppendMeans, AppendProved
<1>6. CASE Rerender(s) \/ PhaseComplete(s) \/ PlanComplete(s)
  <2>0. PICK cmd, l, closed : l \in {"record", "preflight"} /\ closed = ClosedNodes(graph) /\ Begin(s, cmd, l, closed)
    BY <1>6 DEF Rerender, PhaseComplete, PlanComplete
  <2>1. PICK j : Moves(s, l, j) /\ Begins(j, cmd, closed) /\ Leaves
    BY <2>0, BeginMeans
  <2>2. JobProved(l, j)
    BY <1>1, <2>0, <2>1, ClosureOf DEF JobProved, Proved, Begins
  <2> QED
    BY <1>1, <1>2, <2>1, <2>2, ProvedQuietly
<1>7. CASE RecordCompletedAt(s)
  <2>1. PICK j : pc[s] = "record" /\ Moves(s, "preflight", j) /\ Records(s, j)
    BY <1>7, RecordMeans
  <2>2. /\ graph'.nodes = graph.nodes /\ j.closed = job[s].closed /\ view' = view /\ proved' = proved
        /\ \A p \in Warranted : p \in Warranted'
    BY <2>1 DEF Records, Warranted
  <2>3. ClosureProved(job[s].g, job[s].closed)
    BY <1>1, <2>1 DEF JobProved
  <2>4. ASSUME NEW n \in Range(j.g.nodes), n.id \in j.closed PROVE <<n.id, n.obs>> \in Warranted'
    <3>1. CASE j.g = job[s].g
      BY <2>2, <2>3, <2>4, <3>1 DEF ClosureProved
    <3>2. CASE /\ j.g.nodes = graph.nodes
               /\ overtaken' = overtaken \cup {<<m.id, m.obs>> : m \in ObservedAnew(s)}
      <4>1. n \in Range(graph.nodes)
        BY <2>4, <3>2
      <4>2. CASE n.closed
        BY <2>2, <4>1, <4>2 DEF Proved, GraphProved, Warranted
      <4>3. CASE n \in ObservedAnew(s)
        BY <3>2, <4>3 DEF Warranted
      <4>4. CASE ~n.closed /\ n \notin ObservedAnew(s)
        <5>1. PICK m \in Range(job[s].g.nodes) : <<m.id, m.obs>> = <<n.id, n.obs>>
          BY <4>1, <4>4 DEF ObservedAnew
        <5>2. m.id \in job[s].closed
          BY <2>2, <2>4, <5>1
        <5> QED
          BY <2>2, <2>3, <5>1, <5>2 DEF ClosureProved
      <4> QED
        BY <4>2, <4>3, <4>4
    <3> QED
      BY <2>1, <2>2, <3>1, <3>2 DEF Records
  <2>5. JobProved("preflight", j)'
    BY <2>4 DEF JobProved, ClosureProved
  <2>6. GraphProved' /\ ViewsProved'
    BY <2>2 DEF Proved, GraphProved, ViewsProved, ShownProved
  <2> QED
    BY <1>1, <2>1, <2>2, <2>5, <2>6, ProvedMove
<1>8. ASSUME NEW l \in Running, NEW j, Moves(s, l, j), Carries(s, j), l # "write",
             pc[s] \in {"preflight", "judge", "write"} \/ l \notin {"record", "preflight", "judge"},
             graph' = graph, view' = view, proved' = proved, overtaken' = overtaken
      PROVE  Proved'
  <2>1. JobProved(l, j)
    BY <1>1, <1>8 DEF JobProved, Carries, Running
  <2> QED
    BY <1>1, <1>8, <2>1, ProvedQuietly
<1>9. CASE Preflight(s)
  BY <1>1, <1>2, <1>3, <1>8, <1>9, PreflightMeans DEF Running
<1>10. CASE Judge(s)
  <2>1. ASSUME NEW l \in {"judge", "readme"}, NEW j, Moves(s, l, j), Carries(s, j), pc[s] = "judge", Quietly(s)
        PROVE  Proved'
    BY <1>2, <1>8, <2>1 DEF Running
  <2>2. ASSUME Moves(s, "readme", [job[s] EXCEPT !.repo = FALSE]), pc[s] = "judge", Quietly(s) PROVE Proved'
    <3>1. PICK j : j = [job[s] EXCEPT !.repo = FALSE]
      OBVIOUS
    <3> QED
      BY <1>1, <2>1, <2>2, <3>1, JudgeCarries
  <2>3. ASSUME NEW j, JudgeWrites(s, j), Moves(s, "write", j), job[s].todo # <<>>, pc[s] = "judge", Quietly(s)
        PROVE  Proved'
    <3>1. Carries(s, j) /\ j.text = Fresh(s)
      BY <1>1, <2>3, JudgeCarries
    <3>2. ClosureProved(job[s].g, job[s].closed)
      BY <1>1, <2>3 DEF JobProved
    <3>3. JobProved("write", j)
      BY <2>3, <3>1, <3>2, FreshProved DEF JobProved, Carries
    <3> QED
      BY <1>1, <1>2, <2>3, <3>3, ProvedQuietly
  <2> QED
    BY <1>1, <1>2, <1>3, <1>10, <2>1, <2>2, <2>3, JudgeMeans, JudgeCarries
<1>11. CASE WriteView(s)
  <2>1. PICK j : Moves(s, "judge", j) /\ Carries(s, j)
    BY <1>1, <1>11, WriteMeans
  <2>2. /\ pc[s] = "write" /\ view' = [view EXCEPT ![job[s].doc] = job[s].text]
        /\ graph' = graph /\ proved' = proved /\ Warranted' = Warranted
    BY <1>1, <1>11, WriteMeans DEF Warranted
  <2>3. ClosureProved(job[s].g, job[s].closed) /\ ShownProved(job[s].text)
    BY <1>1, <2>2 DEF JobProved
  <2>4. JobProved("judge", j)'
    BY <2>1, <2>2, <2>3 DEF JobProved, Carries, ClosureProved
  <2>5. \A d \in Documents : view'[d] # None => ShownProved(view'[d])
    BY <2>2, <2>3 DEF Proved, ViewsProved, Typed, ViewsTyped
  <2>6. GraphProved' /\ ViewsProved'
    BY <2>2, <2>5 DEF Proved, GraphProved, ViewsProved, ShownProved
  <2> QED
    BY <1>1, <2>1, <2>2, <2>4, <2>6, ProvedMove
<1>12. CASE UpdateReadme(s)
  BY <1>1, <1>2, <1>3, <1>8, <1>12, UpdateMeans, UpdateCarries DEF Running
<1>13. CASE CommitReadme(s)
  BY <1>1, <1>2, <1>3, <1>8, <1>13, CommitMeans DEF Running
<1>14. CASE ExpectReadme(s)
  BY <1>1, <1>2, <1>8, <1>14, ExpectMeans DEF Running
<1>15. CASE FlipStatus(s) \/ Killed(s)
  BY <1>3, <1>15 DEF FlipStatus, Killed, files, history
<1> QED
  BY <1>4, <1>5, <1>6, <1>7, <1>9, <1>10, <1>11, <1>12, <1>13, <1>14, <1>15 DEF Step

\* Everybody else: what is closed afterwards was closed, or is proved by this.
LEMMA ProvedOthers ==
  ASSUME Typed, Proved, Others
  PROVE  Proved'
<1>1. GraphTyped(graph)
  BY DEF Typed
<1>0. overtaken' = overtaken
  BY OthersStay
<1>2. ASSUME GraphProved', ViewsProved', \A p \in proved : p \in proved' PROVE Proved'
  <2>1. \A s \in Sessions : JobProved(pc[s], job[s])
    BY DEF Proved
  <2>2. ASSUME NEW s \in Sessions PROVE JobProved(pc[s], job[s])'
    <3>1. pc' = pc /\ job' = job
      BY OthersStay
    <3> QED
      BY <1>0, <1>2, <2>1, <3>1 DEF JobProved, ClosureProved, ShownProved, Warranted
  <2> QED
    BY <1>2, <2>2 DEF Proved
<1>3. ASSUME view' = view, \A p \in proved : p \in proved' PROVE ViewsProved'
  BY <1>0, <1>3 DEF Proved, ViewsProved, ShownProved, Warranted
<1>4. ASSUME NEW i \in DOMAIN graph.nodes, NEW n, graph'.nodes = [graph.nodes EXCEPT ![i] = n],
             n.closed => graph.nodes[i].closed /\ n.id = graph.nodes[i].id /\ n.obs = graph.nodes[i].obs,
             view' = view, proved' = proved
      PROVE  Proved'
  <2>1. \A m \in Range(graph'.nodes) : m = n \/ m \in Range(graph.nodes)
    BY <1>4 DEF Range
  <2>2. graph.nodes[i] \in Range(graph.nodes)
    BY DEF Range
  <2>3. GraphProved'
    BY <1>4, <2>1, <2>2 DEF Proved, GraphProved
  <2> QED
    BY <1>2, <1>3, <1>4, <2>3
<1>5. ASSUME NEW i \in DOMAIN graph.nodes, Claim(i) PROVE Proved'
  <2>1. PICK n : n = [graph.nodes[i] EXCEPT !.claimed = TRUE]
    OBVIOUS
  <2>2. n.closed = graph.nodes[i].closed /\ n.id = graph.nodes[i].id /\ n.obs = graph.nodes[i].obs
    BY <2>1, NodeOf DEF Node
  <2>3. graph'.nodes = [graph.nodes EXCEPT ![i] = n] /\ view' = view /\ proved' = proved
    BY <1>1, <1>5, <2>1 DEF Claim, Update, Elsewhere, files, GraphTyped
  <2> QED
    BY <1>4, <2>2, <2>3
<1>6. ASSUME NEW i \in DOMAIN graph.nodes, NEW rev \in Nat, Observe(i, rev) PROVE Proved'
  <2>1. PICK n : n = Observed(graph.nodes[i], rev)
    OBVIOUS
  <2>2. ~n.closed
    BY <2>1, NodeOf DEF Node, Observed
  <2>3. graph'.nodes = [graph.nodes EXCEPT ![i] = n] /\ view' = view /\ proved' = proved
    BY <1>6, <2>1, ObserveMeans DEF Elsewhere, files
  <2> QED
    BY <1>4, <2>2, <2>3
<1>7. ASSUME NEW i \in DOMAIN graph.nodes, NEW contract, Reopen(i, contract) PROVE Proved'
  <2>1. PICK n : n = [graph.nodes[i] EXCEPT !.closed = FALSE, !.contract = contract]
    OBVIOUS
  <2>2. ~n.closed
    BY <2>1, NodeOf DEF Node
  <2>3. graph'.nodes = [graph.nodes EXCEPT ![i] = n] /\ view' = view /\ proved' = proved
    BY <1>1, <1>7, <2>1 DEF Reopen, Update, Elsewhere, files, GraphTyped
  <2> QED
    BY <1>4, <2>2, <2>3
<1>8. CASE Close
  <2>1. /\ view' = view
        /\ proved' = proved \cup {<<n.id, n.obs>> : n \in {m \in Range(graph'.nodes) : m.closed}}
    BY <1>8 DEF Close, Elsewhere, files
  <2>2. GraphProved'
    BY <2>1 DEF GraphProved
  <2> QED
    BY <1>2, <1>3, <2>1, <2>2
<1>9. CASE EditReadme \/ \E d \in Documents : Review(d) \/ EditDocument(d)
  <2>1. graph' = graph /\ proved' = proved
    BY <1>9 DEF EditReadme, Review, EditDocument, history
  <2>2. ~HandWritten.frozen
    BY DEF HandWritten
  <2>3. \A d \in Documents : view'[d] # None => view'[d] = view[d] \/ ~view'[d].frozen
    BY <1>9, <2>2 DEF EditReadme, Review, EditDocument, files, Typed, ViewsTyped
  <2>4. GraphProved' /\ ViewsProved'
    BY <1>0, <2>1, <2>3 DEF Proved, GraphProved, ViewsProved, ShownProved, Warranted
  <2> QED
    BY <1>2, <2>1, <2>4
<1> QED
  BY <1>5, <1>6, <1>7, <1>8, <1>9, ViewsAssumption DEF Others

Safe == Typed /\ Proved

LEMMA SafeInit == Init => Safe
<1> SUFFICES ASSUME Init PROVE Safe
  OBVIOUS
<1>1. pc = [s \in Sessions |-> "idle"] /\ graph.nodes = First /\ view \in [Documents -> {None}]
  BY DEF Init
<1>2. Proved
  <2>1. \A n \in Range(First) : ~n.closed
    BY ViewsAssumption
  <2> QED
    BY <1>1, <2>1 DEF Proved, GraphProved, ViewsProved, JobProved
<1> QED
  BY <1>2, TypedInit DEF Safe

LEMMA SafeStep ==
  ASSUME Safe, [Next]_vars
  PROVE  Safe'
<1>1. Proved'
  <2>1. CASE UNCHANGED vars
    BY <2>1 DEF Safe, vars, files, history, Proved, GraphProved, ViewsProved, JobProved, ClosureProved,
       ShownProved, Warranted
  <2> QED
    BY <2>1, ProvedSession, ProvedOthers DEF Safe, Next
<1> QED
  BY <1>1, TypedStep DEF Safe

\* FrozenMeansClosed holds of every behaviour: of each node a frozen view
\* shows an observation that a review closed it by, although the closure is
\* judged once and rendered later, or one that the plan's own completion took
\* in with the graph after it had judged (graph_complete.go, render.go).
THEOREM FrozenViewsAreProved == Spec => []FrozenMeansClosed
<1>1. Safe /\ [Next]_vars => Safe'
  BY SafeStep
<1>2. Safe => FrozenMeansClosed
  BY ProvedMeans DEF Safe
<1> QED
  BY <1>1, <1>2, SafeInit, PTL DEF Spec

-----------------------------------------------------------------------------
(***************************************************************************)
(* A frozen view is kept, where no two commands have judged the same one.  *)
(***************************************************************************)
\* No two sessions hold a text for the same document.
JudgedByOne ==
  \A s, t \in Sessions : s # t /\ pc[s] = "write" /\ pc[t] = "write" => job[s].doc # job[t].doc

\* What is about to be written was judged against what is there.
StillJudged == \A s \in Sessions : pc[s] = "write" => PlanWrite(view[job[s].doc], job[s].text) = "write"

LEMMA OnlyJudgeGoesToWrite ==
  ASSUME Typed, NEW s \in Sessions, Step(s), ~Judge(s)
  PROVE  pc'[s] # "write"
<1>1. pc \in [Sessions -> Labels]
  BY DEF Typed, JobsTyped
<1>2. ASSUME NEW l, Goto(s, l) PROVE pc'[s] = l
  BY <1>1, <1>2 DEF Goto
<1>3. Compile(s) \/ Rerender(s) \/ PhaseComplete(s) \/ PlanComplete(s) => pc'[s] # "write"
  BY <1>2 DEF Compile, Rerender, PhaseComplete, PlanComplete, Begin
<1>4. Finish(s) => pc'[s] # "write"
  BY <1>2 DEF Finish
<1>5. CompileAppend(s) \/ RecordCompletedAt(s) \/ Preflight(s) \/ WriteView(s) => pc'[s] # "write"
  BY <1>2, <1>4 DEF CompileAppend, RecordCompletedAt, Preflight, WriteView
<1>6. UpdateReadme(s) \/ CommitReadme(s) \/ ExpectReadme(s) \/ FlipStatus(s) \/ Killed(s) => pc'[s] # "write"
  BY <1>2, <1>4 DEF UpdateReadme, CommitReadme, ExpectReadme, FlipStatus, Killed
<1> QED
  BY <1>3, <1>5, <1>6 DEF Step

LEMMA OnlyWriteViewWrites ==
  ASSUME NEW s \in Sessions, Step(s), ~WriteView(s)
  PROVE  view' = view
<1>1. Quietly(s) => view' = view
  BY DEF Quietly, files
<1>2. Compile(s) \/ Rerender(s) \/ PhaseComplete(s) \/ PlanComplete(s) => view' = view
  BY <1>1 DEF Compile, Rerender, PhaseComplete, PlanComplete, Begin, files
<1>3. CompileAppend(s) \/ RecordCompletedAt(s) \/ Preflight(s) \/ Judge(s) => view' = view
  BY <1>1 DEF CompileAppend, RecordCompletedAt, Preflight, Judge, files
<1>4. UpdateReadme(s) \/ CommitReadme(s) \/ ExpectReadme(s) \/ FlipStatus(s) \/ Killed(s) => view' = view
  BY <1>1 DEF UpdateReadme, CommitReadme, ExpectReadme, FlipStatus, Killed, files
<1> QED
  BY <1>2, <1>3, <1>4 DEF Step

LEMMA StillJudgedStep ==
  ASSUME Typed, StillJudged, JudgedByOne, [Next]_vars
  PROVE  StillJudged'
<1>1. ASSUME NEW s \in Sessions, Step(s) PROVE StillJudged'
  <2>1. PICK l, j : Moves(s, l, j)
    BY <1>1, StepGoes DEF Onward
  <2>2. /\ pc'[s] = l /\ job'[s] = j
        /\ \A t \in Sessions : t # s => pc'[t] = pc[t] /\ job'[t] = job[t]
    BY <2>1, JobOf, MovesAre
  <2>3. ASSUME pc'[s] = "write" PROVE PlanWrite(view'[job'[s].doc], job'[s].text) = "write"
    <3>1. Judge(s)
      BY <1>1, <2>3, OnlyJudgeGoesToWrite
    <3>2. Quietly(s) /\ view' = view
      BY <3>1, JobOf, JudgeMeans DEF Quietly, files
    <3>3. PICK i : /\ PlanWrite(view[Head(job[s].todo).doc], Fresh(s)) = "write"
                   /\ JudgeWrites(s, i) /\ Moves(s, "write", i)
      <4>1. ASSUME NEW k, NEW i, k # "write", Moves(s, k, i) PROVE FALSE
        BY <2>3, <4>1, JobOf, MovesAre
      <4>2. ~Finish(s) /\ ~Moves(s, "readme", [job[s] EXCEPT !.repo = FALSE])
        <5>1. PICK i : i = [job[s] EXCEPT !.repo = FALSE]
          OBVIOUS
        <5> QED
          BY <4>1, <5>1, FinishMoves
      <4> QED
        BY <3>1, <4>1, <4>2, JobOf, JudgeMeans
    <3>4. job'[s] = i /\ i.doc = Head(job[s].todo).doc /\ i.text = Fresh(s)
      BY <3>3, JobOf, MovesAre, JudgeCarries
    <3> QED
      BY <3>2, <3>3, <3>4
  <2>4. ASSUME NEW t \in Sessions, t # s, pc[t] = "write" PROVE view'[job[t].doc] = view[job[t].doc]
    <3>1. CASE ~WriteView(s)
      BY <1>1, <3>1, OnlyWriteViewWrites
    <3>2. CASE WriteView(s)
      <4>1. pc[s] = "write" /\ view' = [view EXCEPT ![job[s].doc] = job[s].text]
        BY <3>2 DEF WriteView
      <4>2. job[s].doc # job[t].doc
        BY <2>4, <4>1 DEF JudgedByOne
      <4>3. job[t].doc \in Documents
        BY <2>4, JobOf DEF JobTyped
      <4> QED
        BY <4>1, <4>2, <4>3 DEF Typed, ViewsTyped
    <3> QED
      BY <3>1, <3>2
  <2>5. ASSUME NEW t \in Sessions, pc'[t] = "write" PROVE PlanWrite(view'[job'[t].doc], job'[t].text) = "write"
    <3>1. CASE t = s
      BY <2>3, <2>5, <3>1
    <3>2. CASE t # s
      BY <2>2, <2>4, <2>5, <3>2 DEF StillJudged
    <3> QED
      BY <3>1, <3>2
  <2> QED
    BY <2>5 DEF StillJudged
<1>2. CASE Others
  <2>1. pc' = pc /\ job' = job
    BY <1>2, OthersStay
  <2>2. view' = view \/ \A s \in Sessions : pc[s] = "idle"
    BY <1>2 DEF Others, Claim, Observe, Close, Reopen, Review, EditReadme, EditDocument, Elsewhere, files
  <2> QED
    BY <2>1, <2>2 DEF StillJudged
<1>3. CASE UNCHANGED vars
  BY <1>3 DEF vars, files, StillJudged
<1> QED
  BY <1>1, <1>2, <1>3 DEF Next

\* What PlanWrite lets through leaves a frozen document what it was.
LEMMA WriteKeeps ==
  ASSUME NEW old \in Document, NEW new \in Document, Whole(old), Whole(new), new.generated, old.frozen,
         PlanWrite(old, new) = "write"
  PROVE  new.frozen /\ new.core = old.core /\ new.evidence = old.evidence
<1>1. old # None
  BY ViewsAssumption
<1>2. old.generated /\ old # new
  BY <1>1 DEF PlanWrite
<1>3. /\ SameIgnoringSeq(old, new.core, new.obs) \/ ReclosedNoOtherChange(old, new)
      /\ ~(old.evidence # None /\ new.evidence # old.evidence)
  BY <1>1, <1>2 DEF PlanWrite
<1>4. new.core = old.core
  BY <1>3 DEF SameIgnoringSeq, ReclosedNoOtherChange
<1>5. new.frozen
  BY <1>2, <1>4 DEF Whole
<1>6. old.evidence # None
  BY <1>2 DEF Whole
<1> QED
  BY <1>3, <1>4, <1>5, <1>6

\* A step of what FrozenViewsKept says.
KeptNow ==
  \A d \in DOMAIN view : view[d] # None /\ view'[d] # None /\ view[d].frozen
    => /\ view'[d].frozen /\ view'[d].core = view[d].core
       /\ view'[d].evidence = view[d].evidence

LEMMA KeptStep ==
  ASSUME Typed, StillJudged, [Next]_vars
  PROVE  [KeptNow]_vars
<1>1. ASSUME NEW s \in Sessions, WriteView(s) PROVE KeptNow
  <2>1. /\ pc[s] = "write" /\ view' = [view EXCEPT ![job[s].doc] = job[s].text]
        /\ PlanWrite(view[job[s].doc], job[s].text) = "write"
    BY <1>1 DEF WriteView, StillJudged
  <2>2. job[s].doc \in Documents /\ job[s].text \in Document /\ job[s].text.generated /\ Whole(job[s].text)
    BY <2>1, JobOf DEF JobTyped
  <2>3. DOMAIN view = Documents /\ \A d \in Documents : view[d] # None => view[d] \in Document /\ Whole(view[d])
    BY DEF Typed, ViewsTyped
  <2>4. ASSUME NEW d \in DOMAIN view, view[d] # None, view[d].frozen
        PROVE  view'[d].frozen /\ view'[d].core = view[d].core /\ view'[d].evidence = view[d].evidence
    <3>1. CASE d = job[s].doc
      <4>1. view'[d] = job[s].text /\ view[d] \in Document /\ Whole(view[d])
        BY <2>1, <2>3, <2>4, <3>1
      <4> QED
        BY <2>1, <2>2, <2>4, <3>1, <4>1, WriteKeeps
    <3>2. CASE d # job[s].doc
      BY <2>1, <2>4, <3>2
    <3> QED
      BY <3>1, <3>2
  <2> QED
    BY <2>4 DEF KeptNow
<1>2. CASE view' = view
  BY <1>2 DEF KeptNow
<1>3. ASSUME NEW d \in Documents, EditDocument(d) PROVE KeptNow
  <2>1. \/ view[d] = None /\ view' = [view EXCEPT ![d] = HandWritten]
        \/ view' = [view EXCEPT ![d] = None]
    BY <1>3 DEF EditDocument
  <2> QED
    BY <2>1 DEF KeptNow, Typed, ViewsTyped
<1>4. Others => view' = view \/ \E d \in Documents : EditDocument(d)
  BY DEF Others, Claim, Observe, Close, Reopen, Review, EditReadme, Elsewhere, files
<1> QED
  BY <1>1, <1>2, <1>3, <1>4, OnlyWriteViewWrites DEF Next

\* FrozenViewsKept holds of every behaviour in which no two commands hold a
\* text for the same document at once: what stands between a judgement and
\* its write is other commands, and the write expects nothing of what it
\* replaces (render_phase.go, render.go).
THEOREM FrozenViewsAreKept == Spec /\ []JudgedByOne => FrozenViewsKept
<1>1. Init => Typed /\ StillJudged
  BY TypedInit DEF Init, StillJudged
<1>2. Typed /\ StillJudged /\ JudgedByOne /\ [Next]_vars => Typed' /\ StillJudged'
  BY TypedStep, StillJudgedStep
<1>3. Typed /\ StillJudged /\ [Next]_vars => [KeptNow]_vars
  BY KeptStep
<1> QED
  BY <1>1, <1>2, <1>3, PTL DEF Spec, FrozenViewsKept, KeptNow

-----------------------------------------------------------------------------
(***************************************************************************)
(* A completed plan is rendered: what plan complete has behind it at each  *)
(* of its steps.                                                           *)
(***************************************************************************)
Shown(d) == view[d] # None /\ view[d].frozen /\ view[d].generated

\* Where in its graph's phases those are that a command judged all of.
Judged(j) ==
  LET gs == GroupPhases(j.g)
  IN  {i \in DOMAIN gs : \A n \in Range(gs[i].nodes) : n.id \in j.judged}

\* In what follows gs are the phases, and J those of them that were judged.
EntriesDone(entries, gs, J) ==
  entries # None => \A k \in DOMAIN entries, i \in J :
                      entries[k].doc = gs[i].doc => entries[k].status = "complete"

\* The first m phases are shown, or the m-th is about to be, and the rest are
\* to be judged.
Rendering(l, j, gs, J, m) ==
  /\ m + Len(j.todo) = Len(gs)
  /\ \A k \in DOMAIN j.todo : j.todo[k] = gs[m + k]
  /\ \A i \in J : i <= m => Shown(gs[i].doc) \/ (l = "write" /\ j.doc = gs[i].doc)
  /\ l = "write" => \A i \in J : j.doc = gs[i].doc => j.text.frozen

AllShown(gs, J) == \A i \in J : Shown(gs[i].doc)

BehindIt(l, j, gs, J) ==
  /\ l \in {"judge", "write"} => \E m \in Nat : Rendering(l, j, gs, J, m)
  /\ l \in {"readme", "commit", "expect", "flip"} => AllShown(gs, J)
  /\ l = "commit" => EntriesDone(j.text.entries, gs, J) /\ readme.entries = j.read.entries
  /\ l \in {"expect", "flip"} => EntriesDone(readme.entries, gs, J)

Behind(l, j) == BehindIt(l, j, GroupPhases(j.g), Judged(j))

Completing ==
  \A s \in Sessions : job[s].cmd = "plan complete" /\ s \notin crossed => Behind(pc[s], job[s])

LEMMA PhaseDocs ==
  ASSUME NEW gs \in Seq(PhaseRecord)
  PROVE  \A i \in DOMAIN gs : gs[i].doc \in Documents
<1>1. \A i \in DOMAIN gs : gs[i] \in PhaseRecord
  OBVIOUS
<1> QED
  BY <1>1 DEF PhaseRecord

\* Where the nodes judged are closed, so is every phase of them.
LEMMA AllDone ==
  ASSUME NEW j, GraphTyped(j.g), j.judged \subseteq j.closed, NEW gs, gs = GroupPhases(j.g)
  PROVE  /\ gs \in Seq(PhaseRecord) /\ \A i \in DOMAIN gs : gs[i].doc[1] = i /\ gs[i].doc \in Documents
         /\ Judged(j) \subseteq DOMAIN gs /\ \A i \in Judged(j) : AllClosed(gs[i], j.closed)
<1>1. gs \in Seq(PhaseRecord) /\ \A i \in DOMAIN gs : PhaseOf(j.g, gs[i], i)
  BY GroupsTyped DEF GraphTyped
<1>2. ASSUME NEW i \in Judged(j) PROVE AllClosed(gs[i], j.closed)
  <2>1. i \in DOMAIN gs /\ \A n \in Range(gs[i].nodes) : n.id \in j.judged
    BY DEF Judged
  <2>2. gs[i].nodes # <<>>
    BY <1>1, <2>1 DEF PhaseOf
  <2> QED
    BY <2>1, <2>2 DEF AllClosed
<1>3. \A i \in DOMAIN gs : gs[i].doc \in Documents
  BY <1>1, PhaseDocs
<1> QED
  BY <1>1, <1>2, <1>3 DEF PhaseOf, Judged

\* Every entry of a README that lists some is its owner's, or as it was.
OwnersEdit(new, old, gs, closed) ==
  \E owner, one : /\ owner = {i \in DOMAIN gs : Owned(old, gs[i])}
                  /\ owner # {} => one \in owner
                  /\ new = IF owner = {} THEN old ELSE EntryEdit(old, gs[one], closed)

LEMMA OwnerOf ==
  ASSUME NEW entries, entries # None, entries # <<>>, NEW gs, NEW closed,
         NEW new, new = RefreshEntries(entries, gs, closed)
  PROVE  \A k \in DOMAIN entries : OwnersEdit(new[k], entries[k], gs, closed)
<1> SUFFICES ASSUME NEW k \in DOMAIN entries
             PROVE  OwnersEdit(new[k], entries[k], gs, closed)
  OBVIOUS
<1>1. new = [x \in DOMAIN entries |->
               LET owner == {i \in DOMAIN gs : Owned(entries[x], gs[i])}
               IN  IF owner = {} THEN entries[x]
                   ELSE EntryEdit(entries[x], gs[CHOOSE i \in owner : TRUE], closed)]
  BY Zenon DEF RefreshEntries
<1>2. PICK owner : owner = {i \in DOMAIN gs : Owned(entries[k], gs[i])}
  OBVIOUS
<1>3. new[k] = IF owner = {} THEN entries[k] ELSE EntryEdit(entries[k], gs[CHOOSE i \in owner : TRUE], closed)
  BY <1>1, <1>2, Zenon
<1>4. PICK one : one = CHOOSE i \in owner : TRUE
  OBVIOUS
<1>5. owner # {} => one \in owner
  BY <1>4
<1> QED
  BY <1>2, <1>3, <1>4, <1>5, Zenon DEF OwnersEdit

\* Over views that show every phase closed the README's own entries say so.
LEMMA RefreshMeans ==
  ASSUME NEW entries, entries = None \/ entries \in Seq(EntryRecord), NEW gs \in Seq(PhaseRecord), NEW closed,
         \A i \in DOMAIN gs : gs[i].doc[1] = i,
         NEW J \in SUBSET DOMAIN gs, \A i \in J : AllClosed(gs[i], closed), AllShown(gs, J),
         NEW new, new = RefreshEntries(entries, gs, closed)
  PROVE  EntriesDone(new, gs, J)
<1>1. \A i \in J : PhaseStatus(gs[i], closed) = "complete" /\ Shown(gs[i].doc)
  BY DEF PhaseStatus, AllShown
<1>2. CASE entries = None
  BY <1>2 DEF RefreshEntries, EntriesDone
<1>3. CASE entries # None /\ entries = <<>>
  <2>1. new = [i \in DOMAIN gs |-> Entry(gs[i], closed)]
    BY <1>3 DEF RefreshEntries
  <2>2. \A i \in DOMAIN gs : new[i].doc = gs[i].doc /\ new[i].status = PhaseStatus(gs[i], closed)
    BY <2>1 DEF Entry
  <2>3. DOMAIN new = DOMAIN gs
    BY <2>1
  <2>4. \A k \in DOMAIN gs, i \in J : new[k].doc = gs[i].doc => k = i
    BY <2>2
  <2> QED
    BY <1>1, <2>2, <2>3, <2>4 DEF EntriesDone
<1>4. CASE entries # None /\ entries # <<>>
  <2>1. entries \in Seq(EntryRecord)
    BY <1>4
  <2>5. \A k \in DOMAIN entries : OwnersEdit(new[k], entries[k], gs, closed)
    BY <1>4, OwnerOf, Zenon
  <2>3. ASSUME NEW k \in DOMAIN entries, NEW b \in J, new[k].doc = gs[b].doc
        PROVE  new[k].status = "complete"
    <3>2. PICK owner, one : /\ owner = {i \in DOMAIN gs : Owned(entries[k], gs[i])}
                            /\ owner # {} => one \in owner
                            /\ new[k] = IF owner = {} THEN entries[k] ELSE EntryEdit(entries[k], gs[one], closed)
      BY <2>5 DEF OwnersEdit
    <3>1. owner = {i \in DOMAIN gs : Owned(entries[k], gs[i])}
      BY <3>2
    <3>3. entries[k] \in EntryRecord
      BY <2>1
    <3>4. ASSUME NEW c \in DOMAIN gs
          PROVE  /\ EntryEdit(entries[k], gs[c], closed).doc = entries[k].doc
                 /\ EntryEdit(entries[k], gs[c], closed).status = PhaseStatus(gs[c], closed)
      BY <3>3 DEF EntryEdit, EntryRecord
    <3>5. owner # {} => one \in owner
      BY <3>2
    <3>6. new[k].doc = entries[k].doc
      BY <3>1, <3>2, <3>4, <3>5
    <3>7. b \in owner
      BY <1>1, <2>3, <3>1, <3>6 DEF Owned, Shown
    <3>8. \A c \in owner : c = b
      <4>1. \A c \in owner : c \in DOMAIN gs /\ gs[c].doc = gs[b].doc
        BY <2>3, <3>1, <3>6 DEF Owned
      <4>2. b \in DOMAIN gs
        BY <3>1, <3>7
      <4> QED
        BY <4>1, <4>2
    <3>9. new[k] = EntryEdit(entries[k], gs[b], closed)
      BY <3>2, <3>5, <3>7, <3>8
    <3> QED
      BY <1>1, <3>1, <3>4, <3>7, <3>9
  <2>4. DOMAIN new = DOMAIN entries
    <3>1. new = [k \in DOMAIN entries |->
                   LET owner == {i \in DOMAIN gs : Owned(entries[k], gs[i])}
                   IN  IF owner = {} THEN entries[k]
                       ELSE EntryEdit(entries[k], gs[CHOOSE i \in owner : TRUE], closed)]
      BY <1>4, Zenon DEF RefreshEntries
    <3> QED
      BY <3>1
  <2> QED
    BY <2>3, <2>4 DEF EntriesDone
<1> QED
  BY <1>2, <1>3, <1>4

\* Whatever leaves the views and the README's entries alone.
LEMMA BehindItStays ==
  ASSUME NEW l, NEW j, Behind(l, j), view' = view, readme'.entries = readme.entries
  PROVE  Behind(l, j)'
BY DEF Behind, BehindIt, Rendering, AllShown, Shown, EntriesDone

\* What a step of s is to the other sessions: it writes nothing, or crosses
\* whoever is under way.
LEMMA CrossedOrNot ==
  ASSUME JobsTyped, NEW s \in Sessions, Step(s)
  PROVE  /\ \A t \in Sessions : t # s /\ t \notin crossed' => t \notin crossed
         /\ \/ view' = view /\ readme' = readme
            \/ \A t \in Sessions : t # s /\ t \notin crossed' => pc[t] = "idle"
         /\ s \notin crossed' => s \notin crossed \/ pc[s] = "idle"
<1>1. ASSUME view' = view, readme' = readme, crossed' = crossed \/ (crossed' = crossed \ {s} /\ pc[s] = "idle")
      PROVE  /\ \A t \in Sessions : t # s /\ t \notin crossed' => t \notin crossed
             /\ view' = view /\ readme' = readme
             /\ s \notin crossed' => s \notin crossed \/ pc[s] = "idle"
  BY <1>1
<1>2. ASSUME Crosses(s)
      PROVE  /\ \A t \in Sessions : t # s /\ t \notin crossed' => t \notin crossed /\ pc[t] = "idle"
             /\ s \notin crossed' => s \notin crossed
  BY <1>2 DEF Crosses
<1>3. Quietly(s) => view' = view /\ readme' = readme /\ crossed' = crossed
  BY QuietlyLeaves DEF Leaves
<1>4. Rerender(s) \/ PhaseComplete(s) \/ PlanComplete(s)
        => view' = view /\ readme' = readme /\ crossed' = crossed \ {s} /\ pc[s] = "idle"
  BY DEF Rerender, PhaseComplete, PlanComplete, Begin, files
<1>5. Compile(s) \/ CompileAppend(s) \/ RecordCompletedAt(s) \/ Preflight(s) \/ Judge(s) \/ UpdateReadme(s)
        \/ ExpectReadme(s) \/ Killed(s)
      => view' = view /\ readme' = readme /\ crossed' = crossed
  BY <1>3 DEF Compile, CompileAppend, RecordCompletedAt, Preflight, Judge, UpdateReadme, ExpectReadme, Killed,
     files, history
<1>6. WriteView(s) \/ FlipStatus(s) => Crosses(s)
  BY DEF WriteView, FlipStatus
<1>7. CommitReadme(s) => Crosses(s) \/ Quietly(s)
  BY DEF CommitReadme
<1> QED
  BY <1>1, <1>2, <1>3, <1>4, <1>5, <1>6, <1>7 DEF Step

LEMMA CompletingMove ==
  ASSUME Typed, Completing, NEW s \in Sessions, Step(s), NEW l, NEW j, Moves(s, l, j),
         j.cmd = "plan complete" /\ s \notin crossed' => Behind(l, j)'
  PROVE  Completing'
<1>1. /\ pc'[s] = l /\ job'[s] = j
      /\ \A t \in Sessions : t # s => pc'[t] = pc[t] /\ job'[t] = job[t]
  BY JobOf, MovesAre
<1>2. ASSUME NEW t \in Sessions
      PROVE  (job[t].cmd = "plan complete" /\ t \notin crossed => Behind(pc[t], job[t]))'
  <2>1. CASE t = s
    <3> SUFFICES ASSUME job'[t].cmd = "plan complete", t \notin crossed'
                 PROVE  Behind(pc[t], job[t])'
      OBVIOUS
    <3>1. l = pc'[t] /\ j = job'[t]
      BY <1>1, <2>1
    <3>2. j.cmd = "plan complete" /\ s \notin crossed'
      BY <2>1, <3>1
    <3>3. Behind(l, j)'
      BY <3>2
    <3> QED
      BY <3>1, <3>3 DEF Behind, BehindIt, Rendering, AllShown, Shown, EntriesDone
  <2>2. CASE t # s
    <3> SUFFICES ASSUME job'[t].cmd = "plan complete", t \notin crossed'
                 PROVE  Behind(pc[t], job[t])'
      OBVIOUS
    <3>1. Behind(pc[t], job[t]) /\ pc'[t] = pc[t] /\ job'[t] = job[t]
      BY <1>1, <2>2, CrossedOrNot, JobOf DEF Completing
    <3>2. CASE pc[t] = "idle"
      BY <3>1, <3>2 DEF Behind, BehindIt
    <3>3. CASE view' = view /\ readme' = readme
      <4>1. PICK k, i : k = pc[t] /\ i = job[t]
        OBVIOUS
      <4>2. Behind(k, i)'
        BY <3>1, <3>3, <4>1, BehindItStays
      <4>3. k = pc'[t] /\ i = job'[t]
        BY <3>1, <4>1
      <4> QED
        BY <4>2, <4>3 DEF Behind, BehindIt, Rendering, AllShown, Shown, EntriesDone
    <3> QED
      BY <2>2, <3>2, <3>3, CrossedOrNot, JobOf
  <2> QED
    BY <2>1, <2>2
<1> QED
  BY <1>2 DEF Completing

\* A judgement keeps a frozen document, or writes a text that is frozen.
LEMMA JudgedFrozen ==
  ASSUME Typed, NEW s \in Sessions, pc[s] = "judge", job[s].todo # <<>>,
         AllClosed(Head(job[s].todo), job[s].closed)
  PROVE  /\ Fresh(s).frozen
         /\ PlanWrite(view[Head(job[s].todo).doc], Fresh(s)) = "keep" => Shown(Head(job[s].todo).doc)
<1>1. PICK new : new = Fresh(s)
  OBVIOUS
<1>2. PICK old : old = view[Head(job[s].todo).doc]
  OBVIOUS
<1>3. new.frozen /\ new.generated
  BY <1>1, FreshTyped DEF Rendered
<1>4. PlanWrite(old, new) = "keep" => old # None /\ old.generated /\ (old = new \/ old.frozen)
  BY DEF PlanWrite
<1> QED
  BY <1>1, <1>2, <1>3, <1>4 DEF Shown

LEMMA RenderingOn ==
  ASSUME NEW gs \in Seq(PhaseRecord), NEW todo \in Seq(PhaseRecord), todo # <<>>, NEW m \in Nat,
         m + Len(todo) = Len(gs), \A k \in DOMAIN todo : todo[k] = gs[m + k]
  PROVE  /\ m + 1 \in Nat /\ m + 1 \in DOMAIN gs /\ Head(todo) = gs[m + 1]
         /\ (m + 1) + Len(Tail(todo)) = Len(gs)
         /\ \A k \in DOMAIN Tail(todo) : Tail(todo)[k] = gs[(m + 1) + k]
         /\ \A i \in DOMAIN gs : i <= m + 1 => i <= m \/ i = m + 1
<1>1. /\ Head(todo) = todo[1] /\ 1 \in DOMAIN todo /\ Len(Tail(todo)) = Len(todo) - 1
      /\ \A k \in DOMAIN Tail(todo) : k + 1 \in DOMAIN todo /\ Tail(todo)[k] = todo[k + 1]
  BY TailFacts
<1>2. Len(todo) \in Nat /\ Len(gs) \in Nat /\ DOMAIN gs = 1 .. Len(gs) /\ DOMAIN todo = 1 .. Len(todo)
  OBVIOUS
<1>3. m + 1 \in DOMAIN gs /\ Head(todo) = gs[m + 1] /\ (m + 1) + Len(Tail(todo)) = Len(gs)
  BY <1>1, <1>2
<1>4. ASSUME NEW k \in DOMAIN Tail(todo) PROVE Tail(todo)[k] = gs[(m + 1) + k]
  <2>1. k + 1 \in DOMAIN todo /\ Tail(todo)[k] = gs[m + (k + 1)]
    BY <1>1, <1>4
  <2>2. k \in Int
    BY <1>4, TailFacts
  <2>3. m + (k + 1) = (m + 1) + k
    BY <2>2
  <2> QED
    BY <2>1, <2>3
<1>5. \A i \in DOMAIN gs : i <= m + 1 => i <= m \/ i = m + 1
  BY <1>2
<1> QED
  BY <1>3, <1>4, <1>5

LEMMA RenderingStarts ==
  ASSUME NEW gs \in Seq(PhaseRecord), NEW todo, todo = gs
  PROVE  /\ 0 + Len(todo) = Len(gs) /\ \A k \in DOMAIN todo : todo[k] = gs[0 + k]
         /\ \A i \in DOMAIN gs : ~(i <= 0)
OBVIOUS

LEMMA RenderingEnds ==
  ASSUME NEW gs \in Seq(PhaseRecord), NEW m \in Nat, NEW todo, todo = <<>>, m + Len(todo) = Len(gs)
  PROVE  \A i \in DOMAIN gs : i <= m
OBVIOUS

LEMMA CompletingJudge ==
  ASSUME Typed, Holds, Completing, NEW s \in Sessions, Judge(s)
  PROVE  Completing'
<1>1. /\ JobsTyped /\ Step(s) /\ pc[s] = "judge"
      /\ JobTyped(pc[s], job[s], graph.seq) /\ Completes(pc[s], job[s])
  BY JobOf, JudgeMeans DEF Step, Holds
<1>2. ASSUME NEW l, NEW j, Moves(s, l, j), j.cmd = "plan complete" /\ s \notin crossed' => Behind(l, j)'
      PROVE  Completing'
  BY <1>1, <1>2, CompletingMove
<1>3. view' = view /\ readme' = readme /\ crossed' = crossed
  BY JudgeMeans, <1>1, QuietlyLeaves DEF Leaves
<1>4. CASE job[s].cmd # "plan complete" \/ s \in crossed
  <2>1. ASSUME NEW l, NEW j, Moves(s, l, j), Carries(s, j) PROVE Completing'
    BY <1>2, <1>3, <1>4, <2>1 DEF Carries
  <2>2. ASSUME Finish(s) PROVE Completing'
    <3>1. Behind("idle", NoJob)'
      BY DEF Behind, BehindIt
    <3> QED
      BY <1>2, <2>2, <3>1, FinishMoves
  <2>3. ASSUME Moves(s, "readme", [job[s] EXCEPT !.repo = FALSE]) PROVE Completing'
    <3>1. PICK j : j = [job[s] EXCEPT !.repo = FALSE]
      OBVIOUS
    <3> QED
      BY <1>1, <2>1, <2>3, <3>1, JudgeCarries
  <2> QED
    BY <1>1, <2>1, <2>2, <2>3, JudgeMeans, JudgeCarries
<1>5. CASE job[s].cmd = "plan complete" /\ s \notin crossed
  <2>1. PICK gs, J : gs = GroupPhases(job[s].g) /\ J = Judged(job[s])
    OBVIOUS
  <2>2. \A j : Carries(s, j) => GroupPhases(j.g) = gs /\ Judged(j) = J
    BY <2>1 DEF Carries, Judged
  <2>3. GraphTyped(job[s].g) /\ job[s].judged \subseteq job[s].closed
    BY <1>1, <1>5 DEF Completes, JobTyped, Running
  <2>4. /\ gs \in Seq(PhaseRecord) /\ \A i \in DOMAIN gs : gs[i].doc[1] = i
        /\ J \subseteq DOMAIN gs /\ \A i \in J : AllClosed(gs[i], job[s].closed)
    BY <2>1, <2>3, AllDone
  <2>5. job[s].todo \in Seq(PhaseRecord)
    BY <1>1 DEF JobTyped
  <2>6. PICK m \in Nat : Rendering("judge", job[s], gs, J, m)
    BY <1>1, <1>5, <2>1 DEF Completing, Behind, BehindIt
  <2>7. /\ m + Len(job[s].todo) = Len(gs) /\ \A k \in DOMAIN job[s].todo : job[s].todo[k] = gs[m + k]
        /\ \A i \in J : i <= m => Shown(gs[i].doc)
    BY <2>6 DEF Rendering
  <2>8. ASSUME NEW l, NEW j, Moves(s, l, j), Carries(s, j), BehindIt(l, j, gs, J) PROVE Completing'
    <3>1. Behind(l, j)
      BY <2>2, <2>8 DEF Behind
    <3>2. Behind(l, j)'
      BY <1>3, <3>1, BehindItStays
    <3> QED
      BY <1>2, <2>8, <3>2
  <2>9. ASSUME Finish(s) PROVE Completing'
    <3>1. Behind("idle", NoJob)'
      BY DEF Behind, BehindIt
    <3> QED
      BY <1>2, <2>9, <3>1, FinishMoves
  <2>10. ASSUME job[s].todo = <<>>, Moves(s, "readme", [job[s] EXCEPT !.repo = FALSE]) PROVE Completing'
    <3>1. AllShown(gs, J)
      <4>1. \A i \in DOMAIN gs : i <= m
        BY <2>4, <2>7, <2>10, RenderingEnds
      <4> QED
        BY <2>4, <2>7, <4>1 DEF AllShown
    <3>2. PICK j : j = [job[s] EXCEPT !.repo = FALSE]
      OBVIOUS
    <3>3. BehindIt("readme", j, gs, J) /\ Carries(s, j)
      BY <1>1, <3>1, <3>2, JudgeCarries DEF BehindIt
    <3> QED
      BY <2>8, <2>10, <3>2, <3>3
  <2>11. ASSUME job[s].todo # <<>>
         PROVE  /\ m + 1 \in DOMAIN gs /\ Head(job[s].todo) = gs[m + 1]
                /\ (m + 1) + Len(Tail(job[s].todo)) = Len(gs)
                /\ \A k \in DOMAIN Tail(job[s].todo) : Tail(job[s].todo)[k] = gs[(m + 1) + k]
                /\ \A i \in DOMAIN gs : i <= m + 1 => i <= m \/ i = m + 1
                /\ m + 1 \in J => AllClosed(Head(job[s].todo), job[s].closed)
                /\ m + 1 \in Nat
    <3>1. /\ m + 1 \in Nat /\ m + 1 \in DOMAIN gs /\ Head(job[s].todo) = gs[m + 1]
          /\ (m + 1) + Len(Tail(job[s].todo)) = Len(gs)
          /\ \A k \in DOMAIN Tail(job[s].todo) : Tail(job[s].todo)[k] = gs[(m + 1) + k]
          /\ \A i \in DOMAIN gs : i <= m + 1 => i <= m \/ i = m + 1
      BY <2>4, <2>5, <2>7, <2>11, RenderingOn
    <3>2. m + 1 \in J => AllClosed(gs[m + 1], job[s].closed)
      BY <2>4
    <3> QED
      BY <3>1, <3>2
  <2>12. ASSUME NEW j, job[s].todo # <<>>, JudgeKeeps(s, j), Moves(s, "judge", j),
                PlanWrite(view[Head(job[s].todo).doc], Fresh(s)) = "keep"
         PROVE  Completing'
    <3>1. j.todo = Tail(job[s].todo) /\ Carries(s, j)
      BY <1>1, <2>12, JudgeCarries
    <3>2. m + 1 \in J => Shown(gs[m + 1].doc)
      BY <1>1, <2>11, <2>12, JudgedFrozen
    <3>3. \A i \in J : i <= m + 1 => Shown(gs[i].doc)
      BY <2>4, <2>7, <2>11, <2>12, <3>2
    <3>4. Rendering("judge", j, gs, J, m + 1)
      BY <2>11, <2>12, <3>1, <3>3 DEF Rendering
    <3>5. BehindIt("judge", j, gs, J)
      BY <2>11, <2>12, <3>4 DEF BehindIt
    <3> QED
      BY <2>8, <2>12, <3>1, <3>5
  <2>13. ASSUME NEW j, job[s].todo # <<>>, JudgeWrites(s, j), Moves(s, "write", j)
         PROVE  Completing'
    <3>1. j.todo = Tail(job[s].todo) /\ j.doc = gs[m + 1].doc /\ j.text = Fresh(s) /\ Carries(s, j)
      BY <1>1, <2>11, <2>13, JudgeCarries
    <3>2. m + 1 \in J => j.text.frozen
      BY <1>1, <2>11, <2>13, <3>1, JudgedFrozen
    <3>3. \A i \in J : j.doc = gs[i].doc => j.text.frozen
      <4>1. \A i \in J : j.doc = gs[i].doc => i = m + 1
        BY <2>4, <2>11, <2>13, <3>1
      <4> QED
        BY <3>2, <4>1
    <3>4. \A i \in J : i <= m + 1 => Shown(gs[i].doc) \/ j.doc = gs[i].doc
      BY <2>4, <2>7, <2>11, <2>13, <3>1
    <3>5. Rendering("write", j, gs, J, m + 1)
      BY <2>11, <2>13, <3>1, <3>3, <3>4 DEF Rendering
    <3>6. BehindIt("write", j, gs, J)
      BY <2>11, <2>13, <3>5 DEF BehindIt
    <3> QED
      BY <2>8, <2>13, <3>1, <3>6
  <2> QED
    BY <1>1, <2>9, <2>10, <2>12, <2>13, JudgeMeans
<1> QED
  BY <1>4, <1>5

LEMMA CompletingSession ==
  ASSUME Typed, Holds, Completing, NEW s \in Sessions, Step(s)
  PROVE  Completing'
<1>1. JobsTyped /\ JobTyped(pc[s], job[s], graph.seq) /\ Completes(pc[s], job[s])
  BY JobOf DEF Holds
<1>2. ASSUME NEW l, NEW j, Moves(s, l, j), j.cmd = "plan complete" /\ s \notin crossed' => Behind(l, j)'
      PROVE  Completing'
  BY <1>2, CompletingMove
<1>3. ASSUME NEW l, NEW j, Moves(s, l, j), l \in {"idle", "append", "record", "preflight"} PROVE Completing'
  <2>1. Behind(l, j)'
    BY <1>3 DEF Behind, BehindIt
  <2> QED
    BY <1>2, <1>3, <2>1
<1>4. Finish(s) => Completing'
  BY <1>3, FinishMoves
<1>5. Compile(s) \/ CompileAppend(s) \/ RecordCompletedAt(s) => Completing'
  BY <1>1, <1>3, <1>4, CompileMeans, AppendMeans, RecordMeans
<1>6. Rerender(s) \/ PhaseComplete(s) \/ PlanComplete(s) => Completing'
  <2>1. ASSUME NEW cmd, NEW l, NEW closed, Begin(s, cmd, l, closed), l \in {"record", "preflight"} PROVE Completing'
    BY <1>3, <2>1, BeginMeans
  <2> QED
    BY <2>1 DEF Rerender, PhaseComplete, PlanComplete
<1>7. Quietly(s) => view' = view /\ readme' = readme /\ crossed' = crossed
  BY QuietlyLeaves DEF Leaves
\* Past its beginning the session was not crossed where it is not now.
<1>8. ASSUME NEW l \in {"judge", "readme", "commit", "expect", "flip"}, NEW j, Moves(s, l, j), Carries(s, j),
             pc[s] # "idle",
             NEW gs, gs = GroupPhases(job[s].g), NEW J, J = Judged(job[s]),
             job[s].cmd = "plan complete" /\ BehindIt(pc[s], job[s], gs, J) => BehindIt(l, j, gs, J)'
      PROVE  Completing'
  <2>1. GroupPhases(j.g) = gs /\ Judged(j) = J /\ j.cmd = job[s].cmd
    BY <1>8 DEF Carries, Judged
  <2>2. ASSUME j.cmd = "plan complete", s \notin crossed' PROVE Behind(l, j)'
    <3>1. s \notin crossed
      BY <1>1, <1>8, <2>2, CrossedOrNot
    <3>2. BehindIt(l, j, gs, J)'
      BY <1>8, <2>1, <2>2, <3>1 DEF Completing, Behind
    <3> QED
      BY <2>1, <3>2 DEF Behind, BehindIt, Rendering, AllShown, Shown, EntriesDone
  <2> QED
    BY <1>2, <1>8, <2>2
<1>9. PICK gs, J : gs = GroupPhases(job[s].g) /\ J = Judged(job[s])
  OBVIOUS
<1>10. ASSUME pc[s] \in Running, job[s].cmd = "plan complete"
       PROVE  /\ gs \in Seq(PhaseRecord) /\ \A i \in DOMAIN gs : gs[i].doc[1] = i /\ gs[i].doc \in Documents
              /\ J \in SUBSET DOMAIN gs /\ \A i \in J : AllClosed(gs[i], job[s].closed)
  <2>1. GraphTyped(job[s].g) /\ job[s].judged \subseteq job[s].closed
    BY <1>1, <1>10 DEF Completes, JobTyped
  <2> QED
    BY <1>9, <2>1, AllDone
<1>11. CASE Preflight(s)
  <2>1. ASSUME NEW j, Moves(s, "judge", j), Carries(s, j), j.todo = gs, pc[s] = "preflight" PROVE Completing'
    <3>1. ASSUME job[s].cmd = "plan complete" PROVE BehindIt("judge", j, gs, J)'
      <4>1. /\ 0 + Len(j.todo) = Len(gs) /\ \A k \in DOMAIN j.todo : j.todo[k] = gs[0 + k]
            /\ \A i \in J : ~(i <= 0)
        BY <1>10, <2>1, <3>1, RenderingStarts DEF Running
      <4>2. Rendering("judge", j, gs, J, 0)'
        BY <4>1 DEF Rendering
      <4> QED
        BY <4>2 DEF BehindIt
    <3> QED
      BY <1>8, <1>9, <2>1, <3>1
  <2> QED
    BY <1>1, <1>4, <1>9, <1>11, <2>1, PreflightMeans
<1>12. CASE WriteView(s)
  <2>1. PICK j : Moves(s, "judge", j) /\ Carries(s, j) /\ j.todo = job[s].todo
    BY <1>1, <1>12, WriteMeans
  <2>2. pc[s] = "write" /\ view' = [view EXCEPT ![job[s].doc] = job[s].text]
    BY <1>1, <1>12, WriteMeans
  <2>3. ASSUME job[s].cmd = "plan complete", BehindIt("write", job[s], gs, J) PROVE BehindIt("judge", j, gs, J)'
    <3>1. PICK m \in Nat : Rendering("write", job[s], gs, J, m)
      BY <2>3 DEF BehindIt
    <3>2. /\ job[s].doc \in Documents /\ job[s].text \in Document /\ job[s].text.generated
          /\ job[s].text # None
      BY <1>1, <2>2, ViewsAssumption DEF JobTyped
    <3>3. ASSUME NEW i \in J, i <= m PROVE Shown(gs[i].doc)'
      <4>1. gs[i].doc \in Documents
        BY <1>10, <2>2, <2>3 DEF Running
      <4>2. CASE job[s].doc = gs[i].doc
        <5>1. job[s].text.frozen
          BY <3>1, <4>2 DEF Rendering
        <5>2. view'[gs[i].doc] = job[s].text
          BY <2>2, <4>1, <4>2 DEF Typed, ViewsTyped
        <5> QED
          BY <3>2, <5>1, <5>2 DEF Shown
      <4>3. CASE job[s].doc # gs[i].doc
        <5>1. view'[gs[i].doc] = view[gs[i].doc]
          BY <2>2, <4>1, <4>3 DEF Typed, ViewsTyped
        <5> QED
          BY <3>1, <3>3, <4>3, <5>1 DEF Rendering, Shown
      <4> QED
        BY <4>2, <4>3
    <3>4. Rendering("judge", j, gs, J, m)'
      BY <2>1, <3>1, <3>3 DEF Rendering
    <3> QED
      BY <3>4 DEF BehindIt
  <2> QED
    BY <1>8, <1>9, <2>1, <2>2, <2>3
<1>13. CASE UpdateReadme(s)
  <2>1. ASSUME NEW j, Updates(s, j), Moves(s, "commit", j), pc[s] = "readme", Quietly(s) PROVE Completing'
    <3>1. Carries(s, j) /\ j.read = readme /\ j.text = PlanReadmeUpdate(readme, gs, job[s].closed)
      BY <1>1, <1>9, <2>1, UpdateCarries
    <3>2. ASSUME job[s].cmd = "plan complete", BehindIt("readme", job[s], gs, J)
          PROVE  BehindIt("commit", j, gs, J)'
      <4>1. AllShown(gs, J)
        BY <3>2 DEF BehindIt
      <4>2. /\ gs \in Seq(PhaseRecord) /\ \A i \in DOMAIN gs : gs[i].doc[1] = i
            /\ J \in SUBSET DOMAIN gs /\ \A i \in J : AllClosed(gs[i], job[s].closed)
        BY <1>10, <2>1, <3>2 DEF Running
      <4>3. PICK new : new = RefreshEntries(readme.entries, gs, job[s].closed)
        OBVIOUS
      <4>4. j.text.entries = new
        <5>1. ReadmeTyped(readme)
          BY DEF Typed
        <5>2. PICK closed : closed = job[s].closed
          OBVIOUS
        <5>3. PICK text : text = PlanReadmeUpdate(readme, gs, closed)
          OBVIOUS
        <5>4. text.entries = RefreshEntries(readme.entries, gs, closed)
          BY <4>2, <5>1, <5>3, ReadmeUpdateTyped
        <5>5. j.text = text
          BY <3>1, <5>2, <5>3
        <5> QED
          BY <4>3, <5>2, <5>4, <5>5
      <4>5. EntriesDone(new, gs, J)
        BY <4>1, <4>2, <4>3, RefreshMeans DEF Typed, ReadmeTyped
      <4>6. BehindIt("commit", j, gs, J)
        BY <3>1, <4>1, <4>4, <4>5 DEF BehindIt
      <4> QED
        BY <1>7, <2>1, <4>6 DEF BehindIt, Rendering, AllShown, Shown, EntriesDone
    <3> QED
      BY <1>8, <1>9, <2>1, <3>1, <3>2
  <2> QED
    BY <1>1, <1>4, <1>13, <2>1, UpdateMeans
<1>14. CASE CommitReadme(s)
  <2>1. ASSUME NEW j, Moves(s, "expect", j), Carries(s, j), pc[s] = "commit", view' = view,
               \/ job[s].text = job[s].read /\ readme' = readme
               \/ readme = job[s].read /\ readme' = job[s].text
        PROVE  Completing'
    <3>1. ASSUME BehindIt("commit", job[s], gs, J) PROVE BehindIt("expect", j, gs, J)'
      <4>1. AllShown(gs, J) /\ EntriesDone(job[s].text.entries, gs, J) /\ readme.entries = job[s].read.entries
        BY <3>1 DEF BehindIt
      <4>2. readme'.entries = job[s].text.entries
        BY <2>1, <4>1
      <4>3. EntriesDone(readme.entries, gs, J)' /\ AllShown(gs, J)'
        BY <2>1, <4>1, <4>2 DEF EntriesDone, AllShown, Shown
      <4> QED
        BY <4>3 DEF BehindIt
    <3> QED
      BY <1>8, <1>9, <2>1, <3>1
  <2> QED
    BY <1>1, <1>4, <1>14, <2>1, CommitMeans
<1>15. CASE ExpectReadme(s)
  <2>1. PICK j : pc[s] = "expect" /\ Quietly(s) /\ Moves(s, "flip", j) /\ Carries(s, j)
    BY <1>1, <1>15, ExpectMeans
  <2>2. ASSUME BehindIt("expect", job[s], gs, J) PROVE BehindIt("flip", j, gs, J)'
    BY <1>7, <2>1, <2>2 DEF BehindIt, AllShown, Shown, EntriesDone
  <2> QED
    BY <1>8, <1>9, <2>1, <2>2
<1>16. CASE FlipStatus(s) \/ Killed(s)
  BY <1>4, <1>16 DEF FlipStatus, Killed
<1> QED
  BY <1>5, <1>6, <1>11, <1>12, <1>13, <1>14, <1>15, <1>16, CompletingJudge DEF Step

\* Everybody else leaves the README's entries, and the views while anything
\* renders.
LEMMA CompletingStays ==
  ASSUME Completing, pc' = pc, job' = job, crossed' = crossed, readme'.entries = readme.entries,
         view' = view \/ \A s \in Sessions : pc[s] = "idle"
  PROVE  Completing'
<1>1. ASSUME NEW s \in Sessions, job'[s].cmd = "plan complete", s \notin crossed' PROVE Behind(pc[s], job[s])'
  <2>1. PICK l, j : l = pc[s] /\ j = job[s]
    OBVIOUS
  <2>2. Behind(l, j)
    BY <1>1, <2>1 DEF Completing
  <2>3. Behind(l, j)'
    <3>1. CASE l = "idle"
      BY <3>1 DEF Behind, BehindIt
    <3>2. CASE view' = view
      BY <2>2, <3>2, BehindItStays
    <3> QED
      BY <2>1, <3>1, <3>2
  <2>4. l = pc'[s] /\ j = job'[s]
    BY <2>1
  <2> QED
    BY <2>3, <2>4 DEF Behind, BehindIt, Rendering, AllShown, Shown, EntriesDone
<1> QED
  BY <1>1 DEF Completing

LEMMA CompletingStep ==
  ASSUME Typed, Holds, Completing, [Next]_vars
  PROVE  Completing'
<1>1. CASE Others
  <2>1. pc' = pc /\ job' = job /\ crossed' = crossed
    BY <1>1, OthersStay
  <2>2. readme' = readme \/ readme' = [readme EXCEPT !.prose = @ + 1]
    BY <1>1 DEF Others, Claim, Observe, Close, Reopen, Review, EditReadme, EditDocument, Elsewhere, files
  <2>3. readme'.entries = readme.entries
    BY <2>2 DEF Typed, ReadmeTyped
  <2>4. view' = view \/ \A s \in Sessions : pc[s] = "idle"
    BY <1>1 DEF Others, Claim, Observe, Close, Reopen, Review, EditReadme, EditDocument, Elsewhere, files
  <2> QED
    BY <2>1, <2>3, <2>4, CompletingStays
<1>2. CASE UNCHANGED vars
  BY <1>2, CompletingStays DEF vars, files, history
<1> QED
  BY <1>1, <1>2, CompletingSession DEF Next

\* A step of what CompletedPlanIsRendered says.
RenderedNow ==
  readme.status # "complete" /\ readme'.status = "complete"
       => \E s \in Sessions :
            /\ pc[s] = "flip"
            /\ s \notin crossed => \A ph \in JudgedPhases(s) :
                 /\ view[ph.doc] # None /\ view[ph.doc].frozen
                 /\ readme.entries # None => \A k \in DOMAIN readme.entries :
                      readme.entries[k].doc = ph.doc => readme.entries[k].status = "complete"

LEMMA RenderedStep ==
  ASSUME Typed, Holds, Completing, [Next]_vars
  PROVE  [RenderedNow]_vars
<1>1. SUFFICES ASSUME readme.status # "complete", readme'.status = "complete" PROVE RenderedNow
  BY DEF RenderedNow
<1>2. readme' # readme
  BY <1>1
<1>3. ~Others
  <2>1. ASSUME Others PROVE readme' = [readme EXCEPT !.prose = @ + 1]
    BY <1>2, <2>1 DEF Others, Claim, Observe, Close, Reopen, Review, EditReadme, EditDocument, Elsewhere, files
  <2>2. Others => readme'.status = readme.status
    BY <2>1 DEF Typed, ReadmeTyped
  <2> QED
    BY <1>1, <2>2
<1>4. PICK s \in Sessions : Step(s)
  BY <1>2, <1>3 DEF Next, vars, files
<1>5. Quietly(s) => readme' = readme
  BY DEF Quietly, files
<1>6. ~CommitReadme(s)
  <2>1. ASSUME CommitReadme(s) PROVE FALSE
    <3>1. pc[s] = "commit" /\ readme = job[s].read /\ readme' = job[s].text
      BY <1>2, <1>5, <2>1, CommitMeans, JobOf
    <3>2. job[s].text.status = job[s].read.status
      BY <3>1, JobOf DEF JobTyped
    <3> QED
      BY <1>1, <3>1, <3>2
  <2> QED
    BY <2>1
<1>7. FlipStatus(s)
  <2>1. Compile(s) \/ Rerender(s) \/ PhaseComplete(s) \/ PlanComplete(s) => readme' = readme
    BY <1>5 DEF Compile, Rerender, PhaseComplete, PlanComplete, Begin, files
  <2>2. CompileAppend(s) \/ RecordCompletedAt(s) \/ Preflight(s) \/ Judge(s) \/ WriteView(s) => readme' = readme
    BY <1>5 DEF CompileAppend, RecordCompletedAt, Preflight, Judge, WriteView, files
  <2>3. UpdateReadme(s) \/ ExpectReadme(s) \/ Killed(s) => readme' = readme
    BY <1>5 DEF UpdateReadme, ExpectReadme, Killed, files
  <2> QED
    BY <1>2, <1>4, <1>6, <2>1, <2>2, <2>3 DEF Step
<1>8. pc[s] = "flip" /\ job[s].cmd = "plan complete"
  BY <1>7 DEF FlipStatus, Holds, Completes
<1>9. PICK gs : gs = GroupPhases(job[s].g)
  OBVIOUS
<1>10. ASSUME s \notin crossed PROVE AllShown(gs, Judged(job[s])) /\ EntriesDone(readme.entries, gs, Judged(job[s]))
  BY <1>8, <1>9, <1>10 DEF Completing, Behind, BehindIt
<1>11. \A ph \in JudgedPhases(s) : \E i \in Judged(job[s]) : ph = gs[i]
  BY <1>9 DEF JudgedPhases, Judged, Range
<1> QED
  BY <1>8, <1>10, <1>11 DEF RenderedNow, AllShown, Shown, EntriesDone

\* CompletedPlanIsRendered holds of every behaviour: the README's status turns
\* complete only over frozen views, one of every phase that was judged, and
\* entries that agree, although it is written in a step of its own after them
\* and anybody may change the graph in between (graph_complete.go).
THEOREM CompletedPlansAreRendered == Spec => CompletedPlanIsRendered
<1>1. Init => Typed /\ Holds /\ Completing
  BY TypedInit DEF Init, Holds, Completes, Running, Completing, Behind, BehindIt
<1>2. Typed /\ Holds /\ Completing /\ [Next]_vars => Typed' /\ Holds' /\ Completing'
  BY TypedStep, HoldsStep, CompletingStep
<1>3. Typed /\ Holds /\ Completing /\ [Next]_vars => [RenderedNow]_vars
  BY RenderedStep
<1> QED
  BY <1>1, <1>2, <1>3, PTL DEF Spec, CompletedPlanIsRendered, RenderedNow

-----------------------------------------------------------------------------
(***************************************************************************)
(* Prose.                                                                  *)
(***************************************************************************)
SurvivesNow == readme'.prose >= readme.prose

LEMMA SurvivesStep ==
  ASSUME Typed, [Next]_vars
  PROVE  [SurvivesNow]_vars
<1>1. ReadmeTyped(readme) /\ readme.prose \in Nat
  BY DEF Typed, ReadmeTyped
<1>2. CASE readme' = readme
  BY <1>1, <1>2 DEF SurvivesNow
<1>3. CASE Others
  <2>1. readme' = readme \/ readme' = [readme EXCEPT !.prose = @ + 1]
    BY <1>3 DEF Others, Claim, Observe, Close, Reopen, Review, EditReadme, EditDocument, Elsewhere, files
  <2>2. readme' = [readme EXCEPT !.prose = @ + 1] => readme'.prose = readme.prose + 1
    BY <1>1 DEF ReadmeTyped
  <2> QED
    BY <1>1, <1>2, <2>1, <2>2 DEF SurvivesNow
<1>4. ASSUME NEW s \in Sessions, Step(s) PROVE SurvivesNow
  <2>1. Quietly(s) => readme' = readme
    BY DEF Quietly, files
  <2>2. Compile(s) \/ Rerender(s) \/ PhaseComplete(s) \/ PlanComplete(s) => readme' = readme
    BY <2>1 DEF Compile, Rerender, PhaseComplete, PlanComplete, Begin, files
  <2>3. CompileAppend(s) \/ RecordCompletedAt(s) \/ Preflight(s) \/ Judge(s) \/ WriteView(s) => readme' = readme
    BY <2>1 DEF CompileAppend, RecordCompletedAt, Preflight, Judge, WriteView, files
  <2>4. UpdateReadme(s) \/ ExpectReadme(s) \/ Killed(s) => readme' = readme
    BY <2>1 DEF UpdateReadme, ExpectReadme, Killed, files
  <2>5. CommitReadme(s) => readme' = readme \/ readme'.prose = readme.prose
    <3>1. ASSUME pc[s] = "commit" PROVE job[s].text.prose = job[s].read.prose
      BY <3>1, JobOf DEF JobTyped
    <3> QED
      BY <2>1, <3>1, CommitMeans, JobOf
  <2>6. FlipStatus(s) => readme' = readme \/ readme'.prose = readme.prose
    BY <1>1 DEF FlipStatus, ReadmeTyped
  <2> QED
    BY <1>1, <1>2, <1>4, <2>2, <2>3, <2>4, <2>5, <2>6 DEF Step, SurvivesNow
<1> QED
  BY <1>2, <1>3, <1>4 DEF Next, vars, files

\* EditsSurvive holds of every behaviour, whoever renders: what somebody has
\* written into the README since it was read is never written over, by any
\* number of sessions and after any crash (render_readme.go, Run's second
\* pass, graph_complete.go).
THEOREM ReadmeEditsSurvive == Spec => EditsSurvive
<1>1. Typed /\ [Next]_vars => [SurvivesNow]_vars
  BY SurvivesStep
<1>2. Typed /\ [Next]_vars => Typed'
  BY TypedStep
<1> QED
  BY <1>1, <1>2, TypedInit, PTL DEF Spec, EditsSurvive, SurvivesNow
=============================================================================
