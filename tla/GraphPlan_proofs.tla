-------------------------- MODULE GraphPlan_proofs --------------------------
(***************************************************************************)
(* Theorems about GraphPlan, for any documents, proposals, splits,         *)
(* sessions and bounds: the graph stays one that compile accepts, but for  *)
(* what compile appends over a register that grew under it, and no staged  *)
(* work is lost, but for assembled sets that others took the place of.     *)
(***************************************************************************)
EXTENDS GraphPlan, GraphStates_proofs

-----------------------------------------------------------------------------
(***************************************************************************)
(* Graphs within graphs.                                                   *)
(***************************************************************************)
\* Nodes that compile cannot tell apart.
SameContract(v, w) ==
  /\ v.deps = w.deps /\ v.gate = w.gate /\ v.full = w.full /\ v.role = w.role
  /\ v.lanes = w.lanes /\ v.command = w.command /\ v.tests = w.tests
  /\ v.hazards = w.hazards /\ v.written = w.written /\ v.cites = w.cites
  /\ v.artifacts = w.artifacts /\ v.inputs = w.inputs /\ v.claim = w.claim

\* The nodes of g are nodes of h, with everything in h they depend on.
Within(g, h) ==
  /\ IsFiniteSet(DOMAIN h) /\ DOMAIN g \subseteq DOMAIN h
  /\ \A n \in DOMAIN g : g[n].deps \cap DOMAIN h \subseteq DOMAIN g /\ SameContract(g[n], h[n])

LEMMA WithinClosure ==
  ASSUME NEW g, NEW h, Within(g, h), NEW n \in DOMAIN g
  PROVE  /\ IsFiniteSet(DOMAIN g)
         /\ PresentDeps(h, n) = PresentDeps(g, n)
         /\ DependencyClosure(h, n) = DependencyClosure(g, n)
<1>1. IsFiniteSet(DOMAIN h) /\ IsFiniteSet(DOMAIN g)
  BY FS_Subset DEF Within
<1>2. \A m \in DOMAIN g : m \in DOMAIN h /\ g[m].deps = h[m].deps /\ PresentDeps(h, m) = PresentDeps(g, m)
  BY DEF Within, SameContract, PresentDeps
<1>3. DependencyClosure(g, n) \subseteq DependencyClosure(h, n)
  BY <1>1, <1>2, ClosureMonotone
<1> DEFINE C == DependencyClosure(g, n)
<1>4. /\ C \subseteq DOMAIN g /\ PresentDeps(g, n) \subseteq C
      /\ \A m \in C : PresentDeps(g, m) \subseteq C
  BY <1>1, ClosureLaws
<1> HIDE DEF C
<1>5. /\ C \in SUBSET DOMAIN h /\ PresentDeps(h, n) \subseteq C
      /\ \A m \in C : PresentDeps(h, m) \subseteq C
  BY <1>2, <1>4
<1>6. DependencyClosure(h, n) \subseteq C
  BY <1>1, <1>5, ClosureLaws
<1> QED
  BY <1>1, <1>2, <1>3, <1>6 DEF C

LEMMA WithinFindings ==
  ASSUME NEW g, NEW h, Within(g, h), NEW n \in DOMAIN g
  PROVE  NodeFindings(h, n, Source) = NodeFindings(g, n, Source)
<1> DEFINE v == g[n]
           w == h[n]
<1>0. /\ SameContract(v, w) /\ PresentDeps(h, n) = PresentDeps(g, n)
      /\ v.deps \cap DOMAIN h \subseteq DOMAIN g
      /\ DOMAIN g \subseteq DOMAIN h
      /\ \A e \in PresentDeps(g, n) : g[e].role = h[e].role
  BY WithinClosure DEF Within, SameContract, PresentDeps
<1>1. GateFindings(n, w) = GateFindings(n, v)
  BY <1>0 DEF GateFindings, ValidateEvidenceGate, When, SameContract
<1>2. HazardFindings(n, w) = HazardFindings(n, v)
  BY <1>0 DEF HazardFindings, Satisfied, SameContract
<1>3. RoleFindings(h, n) = RoleFindings(g, n)
  <2>1. {e \in PresentDeps(h, n) : h[e].role = "implementation"}
        = {e \in PresentDeps(g, n) : g[e].role = "implementation"}
    BY <1>0
  <2> QED
    BY <1>0, <2>1 DEF RoleFindings, When, SameContract
<1>4. CitationFindings(n, w, Source) = CitationFindings(n, v, Source)
  BY <1>0 DEF CitationFindings, When, SameContract
<1>5. w.deps \ DOMAIN h = v.deps \ DOMAIN g /\ w.inputs = v.inputs
  BY <1>0 DEF SameContract
<1> QED
  BY <1>1, <1>2, <1>3, <1>4, <1>5 DEF NodeFindings

-----------------------------------------------------------------------------
(***************************************************************************)
(* What compile accepts, said of the nodes one by one.                     *)
(***************************************************************************)
Covers(g, S, n) ==
  \E r \in S : /\ g[r].gate = "review" /\ g[r].full
               /\ n = r \/ n \in DependencyClosure(g, r)

Accepts(g, n) == g[n].role = "integration_acceptance"

\* What compile asks of a node and what it depends on.
LocallySound(g, n) ==
  /\ NodeFindings(g, n, Source) = {} /\ g[n].claim = None
  /\ n \notin DependencyClosure(g, n)
  /\ Accepts(g, n) => \A m \in DependencyClosure(g, n) :
                        Accepts(g, m) \/ Covers(g, DependencyClosure(g, n), m)

SoundAt(g, n) == LocallySound(g, n) /\ Covers(g, DOMAIN g, n)

SoundBut(g, D) == \A n \in DOMAIN g \ D : SoundAt(g, n)
Sound(g)       == SoundBut(g, {})

Demanded(g) ==
  \A p \in Source.demands : \E n \in DOMAIN g : \E c \in g[n].cites :
     c.id = p[2] /\ p[1] \in ResolveItem(Source, c)

\* Whatever is found is about nodes, all of them in D.
Excused(F, D) == \A f \in F : About(f) # {} /\ About(f) \subseteq D

\* What is found in a graph, the retired register apart.
Judgement(g) == GraphFindings(g, Source) \cup (UNION {NodeFindings(g, n, Source) : n \in DOMAIN g})

LEMMA CoversMeans ==
  ASSUME NEW g, NEW S, NEW n
  PROVE  n \in CoveredBy(g, S) <=> Covers(g, S, n)
BY DEF CoveredBy, Covers

LEMMA CyclesMean ==
  ASSUME NEW g, IsFiniteSet(DOMAIN g)
  PROVE  /\ \A c \in Cycles(g) : c # {} /\ \A m \in c : m \in DOMAIN g /\ m \in DependencyClosure(g, m)
         /\ \A n \in DOMAIN g : n \in DependencyClosure(g, n) => \E c \in Cycles(g) : n \in c
<1> DEFINE ring(n) == {m \in DOMAIN g : n \in DependencyClosure(g, m) /\ m \in DependencyClosure(g, n)}
<1>1. \A c : c \in Cycles(g) <=> \E n \in DOMAIN g : n \in DependencyClosure(g, n) /\ c = ring(n)
  BY DEF Cycles
<1>2. \A n \in DOMAIN g : n \in DependencyClosure(g, n) => n \in ring(n)
  OBVIOUS
<1>3. ASSUME NEW n \in DOMAIN g, NEW m \in ring(n) PROVE m \in DOMAIN g /\ m \in DependencyClosure(g, m)
  <2>1. m \in DOMAIN g /\ n \in DependencyClosure(g, m) /\ m \in DependencyClosure(g, n)
    OBVIOUS
  <2> QED
    BY <2>1, ClosureTransitive
<1> HIDE DEF ring
<1> QED
  BY <1>1, <1>2, <1>3

\* Every finding of a node is about that node.
Concern(F, n) == \A f \in F : f[1] = n

LEMMA ConcernTogether ==
  ASSUME NEW n, NEW F, NEW G, Concern(F, n), Concern(G, n)
  PROVE  Concern(F \cup G, n)
BY DEF Concern

LEMMA ConcernWhen ==
  ASSUME NEW n, NEW c, NEW w
  PROVE  Concern(When(c, n, w), n)
BY DEF Concern, When

LEMMA FindingsOfANode ==
  ASSUME NEW g, NEW n \in Ids, NEW f \in NodeFindings(g, n, Source)
  PROVE  About(f) = {n}
<1> DEFINE v == g[n]
<1>1. Concern(GateFindings(n, v), n)
  <2> DEFINE what(l) == <<"unknown lane", l>>
             A == ValidateEvidenceGate(n, v)
             B == When(v.gate = "tests" /\ v.tests = <<>>, n, "declares no tests")
             C == When(v.gate = "unspecified", n, "gate is unspecified")
             D == When(~v.written, n, "contract is the conversion sentinel")
             E == When(\E i, j \in DOMAIN v.tests : i # j /\ v.tests[i].id = v.tests[j].id
                                        /\ v.tests[i].file = v.tests[j].file, n, "declares a test twice")
             F == IF v.gate = "review" /\ ~v.full THEN {<<n, what(l)>> : l \in v.lanes \ ReviewLanes} ELSE {}
             A1 == When(v.gate # "tests" /\ v.tests # <<>>, n, "tests on another gate")
             A2 == When(v.gate # "command" /\ v.command, n, "command on another gate")
             A3 == When(v.gate # "review" /\ ~v.full, n, "lanes on another gate")
  <2>1. A = A1 \cup A2 \cup A3
    BY DEF ValidateEvidenceGate
  <2>2. GateFindings(n, v) = A \cup B \cup C \cup D \cup E \cup F
    BY DEF GateFindings
  <2>3. Concern(A1, n) /\ Concern(A2, n) /\ Concern(A3, n)
        /\ Concern(B, n) /\ Concern(C, n) /\ Concern(D, n) /\ Concern(E, n)
    BY ConcernWhen
  <2>4. Concern(F, n)
    <3> HIDE DEF what
    <3> QED
      BY DEF Concern
  <2> HIDE DEF A, A1, A2, A3, B, C, D, E, F
  <2> QED
    BY <2>1, <2>2, <2>3, <2>4 DEF Concern
<1>2. Concern(HazardFindings(n, v), n)
  <2> DEFINE w1 == <<"hazards are untriaged">>
             w2(h) == <<"unknown hazard", h>>
             w3(h) == <<"satisfies undeclared", h>>
             w4(h) == <<"hazard not discharged", h>>
             F == IF v.hazards = None THEN {<<n, w1>>}
                  ELSE {<<n, w2(h)>> : h \in v.hazards \ Vocabulary} \cup
                       {<<n, w3(h)>> : h \in Satisfied(v) \ v.hazards} \cup
                       {<<n, w4(h)>> : h \in (v.hazards \cap Vocabulary) \ Satisfied(v)}
  <2>1. HazardFindings(n, v) = F
    BY DEF HazardFindings
  <2>2. Concern(F, n)
    <3> HIDE DEF w1, w2, w3, w4
    <3> QED
      BY DEF Concern
  <2> QED
    BY <2>1, <2>2
<1>3. Concern(RoleFindings(g, n), n)
  <2> DEFINE what(d) == <<"accepts raw work", d>>
             A == When(v.role = "review" /\ v.gate # "review", n, "review role, other gate")
             B == When(v.role # "review" /\ v.gate = "review", n, "review gate, other role")
             C == When(v.role = "review" /\ v.gate = "review" /\ v.deps = {}, n, "reviews nothing")
             F == IF v.role = "integration_acceptance" /\ v.gate # "review"
                  THEN {<<n, what(d)>> : d \in {e \in PresentDeps(g, n) : g[e].role = "implementation"}} ELSE {}
  <2>1. RoleFindings(g, n) = A \cup B \cup C \cup F
    BY DEF RoleFindings
  <2>2. Concern(A, n) /\ Concern(B, n) /\ Concern(C, n)
    BY ConcernWhen
  <2>3. Concern(F, n)
    <3> HIDE DEF what
    <3> QED
      BY DEF Concern
  <2> HIDE DEF A, B, C, F
  <2> QED
    BY <2>1, <2>2, <2>3 DEF Concern
<1>4. Concern(CitationFindings(n, v, Source), n)
  <2> DEFINE what(c) == <<IF Ambiguous(Source, c) THEN "ambiguous" ELSE "unresolved", c>>
             A == When(v.cites = {}, n, "cites nothing")
             F == {<<n, what(c)>> : c \in {d \in v.cites : ResolveItem(Source, d) = {}}}
  <2>1. CitationFindings(n, v, Source) = A \cup F
    BY DEF CitationFindings
  <2>2. Concern(A, n)
    BY ConcernWhen
  <2>3. Concern(F, n)
    <3> HIDE DEF what
    <3> QED
      BY DEF Concern
  <2> HIDE DEF A, F
  <2> QED
    BY <2>1, <2>2, <2>3 DEF Concern
<1> DEFINE w1(d) == <<"no such dep", d>>
           w2(i) == <<"input unresolved", i>>
           F1 == {<<n, w1(d)>> : d \in v.deps \ DOMAIN g}
           F2 == {<<n, w2(i)>> : i \in v.inputs \ Source.inputs}
<1>5. NodeFindings(g, n, Source) = GateFindings(n, v) \cup HazardFindings(n, v) \cup RoleFindings(g, n)
        \cup CitationFindings(n, v, Source) \cup F1 \cup F2
  BY DEF NodeFindings
<1>6. Concern(F1, n) /\ Concern(F2, n)
  <2> HIDE DEF w1, w2
  <2> QED
    BY DEF Concern
<1> HIDE DEF F1, F2
<1>7. f[1] = n /\ n # "graph"
  BY <1>1, <1>2, <1>3, <1>4, <1>5, <1>6, PlanAssumption DEF Concern
<1> QED
  BY <1>7 DEF About

\* An acceptance node that may close is one about which nothing is found.
LEMMA AcceptanceMeans ==
  ASSUME NEW g, IsFiniteSet(DOMAIN g), DOMAIN g \subseteq Ids
  PROVE  /\ \A f \in AcceptanceFindings(g) : \E n \in DOMAIN g : About(f) = {n}
         /\ \A n \in DOMAIN g :
              (\A f \in AcceptanceFindings(g) : About(f) # {n}) <=>
              (Accepts(g, n) => \A m \in DependencyClosure(g, n) :
                                  Accepts(g, m) \/ Covers(g, DependencyClosure(g, n), m))
<1> DEFINE accepts == {n \in DOMAIN g : Accepts(g, n)}
           U(n) == DependencyClosure(g, n) \ (accepts \cup CoveredBy(g, DependencyClosure(g, n)))
           bad == {m \in accepts : U(m) # {}}
           F(n) == <<n, <<"cannot confer closure", U(n)>>>>
<1>1. AcceptanceFindings(g) = {F(n) : n \in bad}
  BY DEF AcceptanceFindings, Accepts
<1>2. \A n \in DOMAIN g : About(F(n)) = {n}
  <2> SUFFICES ASSUME NEW n \in DOMAIN g PROVE About(F(n)) = {n}
    OBVIOUS
  <2>1. F(n)[1] = n /\ n # "graph"
    BY PlanAssumption
  <2> QED
    BY <2>1 DEF About
<1>3. ASSUME NEW n \in DOMAIN g
      PROVE  n \notin bad <=> (Accepts(g, n) => \A m \in DependencyClosure(g, n) :
                                 Accepts(g, m) \/ Covers(g, DependencyClosure(g, n), m))
  <2>1. DependencyClosure(g, n) \subseteq DOMAIN g
    BY ClosureLaws
  <2>2. U(n) = {} <=> \A m \in DependencyClosure(g, n) :
                        Accepts(g, m) \/ Covers(g, DependencyClosure(g, n), m)
    BY <2>1, CoversMeans
  <2> HIDE DEF U
  <2> QED
    BY <2>2
<1> HIDE DEF F
<1>4. ASSUME NEW n \in DOMAIN g
      PROVE  (\A f \in AcceptanceFindings(g) : About(f) # {n}) <=> n \notin bad
  <2>1. n \in bad => F(n) \in AcceptanceFindings(g) /\ About(F(n)) = {n}
    BY <1>1, <1>2
  <2>2. ASSUME NEW f \in AcceptanceFindings(g), About(f) = {n} PROVE n \in bad
    <3>1. PICK m \in bad : f = F(m)
      BY <1>1
    <3>2. {m} = {n} /\ m \in bad
      BY <1>2, <2>2, <3>1
    <3>3. m = n
      BY <3>2
    <3> QED
      BY <3>2, <3>3
  <2> HIDE DEF bad
  <2> QED
    BY <2>1, <2>2
<1> QED
  BY <1>1, <1>2, <1>3, <1>4

LEMMA SoundMeans ==
  ASSUME NEW g, NEW D, IsFiniteSet(DOMAIN g), DOMAIN g \subseteq Ids, \A n \in DOMAIN g : g[n].claim = None
  PROVE  Excused(Judgement(g), D) <=> SoundBut(g, D) /\ Demanded(g)
<1> DEFINE Overlaps == {a \in UNION {g[n].artifacts : n \in DOMAIN g} : Cardinality(Claimants(g, a)) > 1}
           Unmet == UncoveredACs(g, Source)
           Raw == DOMAIN g \ CoveredBy(g, DOMAIN g)
           ring(c) == <<"graph", <<"cycle", c>>>>
           unmet(p) == <<"graph", <<"no node for", p>>>>
           raw(n) == <<n, <<"covered by no full review gate">>>>
<1>1. Overlaps = {}
  <2>1. \A a : Claimants(g, a) = {}
    BY DEF Claimants
  <2> QED
    BY <2>1, FS_EmptySet
<1>2. GraphFindings(g, Source)
        = {ring(c) : c \in Cycles(g)} \cup {unmet(p) : p \in Unmet}
          \cup {<<"graph", <<"overlap", a, Claimants(g, a)>>>> : a \in Overlaps}
          \cup {raw(n) : n \in Raw} \cup AcceptanceFindings(g)
  BY DEF GraphFindings
<1>3. /\ \A c : About(ring(c)) = c
      /\ \A p : About(unmet(p)) = {}
      /\ \A n \in DOMAIN g : About(raw(n)) = {n}
  <2>1. ASSUME NEW c PROVE About(ring(c)) = c
    BY DEF About
  <2>2. ASSUME NEW p PROVE About(unmet(p)) = {}
    BY DEF About
  <2>3. ASSUME NEW n \in DOMAIN g PROVE About(raw(n)) = {n}
    <3>1. n # "graph"
      BY PlanAssumption
    <3> QED
      BY <3>1 DEF About
  <2> QED
    BY <2>1, <2>2, <2>3
<1>4. Unmet = {} <=> Demanded(g)
  BY DEF UncoveredACs, Demanded
<1>5. \A n \in DOMAIN g : n \notin Raw <=> Covers(g, DOMAIN g, n)
  BY CoversMeans
<1>6. \A f : f \in Judgement(g) <=>
        \/ \E c \in Cycles(g) : f = ring(c)
        \/ \E p \in Unmet : f = unmet(p)
        \/ \E n \in Raw : f = raw(n)
        \/ f \in AcceptanceFindings(g)
        \/ \E n \in DOMAIN g : f \in NodeFindings(g, n, Source)
  <2> HIDE DEF Overlaps, Unmet, Raw, ring, unmet, raw
  <2> QED
    BY <1>1, <1>2 DEF Judgement
<1>7. \A n \in DOMAIN g : \A f \in NodeFindings(g, n, Source) : About(f) = {n}
  BY FindingsOfANode
<1>8. Raw \subseteq DOMAIN g
  OBVIOUS
<1> HIDE DEF Unmet, Raw, ring, unmet, raw
<1>9. ASSUME SoundBut(g, D), Demanded(g)
      PROVE  Excused(Judgement(g), D)
  <2>1. \A n \in DOMAIN g \ D : LocallySound(g, n) /\ Covers(g, DOMAIN g, n)
    BY <1>9 DEF SoundBut, SoundAt
  <2>2. \A c \in Cycles(g) : c # {} /\ c \subseteq D
    BY <2>1, CyclesMean DEF LocallySound
  <2>3. \A n \in Raw : n \in D
    BY <1>5, <1>8, <2>1
  <2>4. ASSUME NEW f \in AcceptanceFindings(g) PROVE About(f) # {} /\ About(f) \subseteq D
    <3>1. PICK n \in DOMAIN g : About(f) = {n}
      BY AcceptanceMeans
    <3>2. n \in D
      BY <2>1, <3>1, AcceptanceMeans DEF LocallySound
    <3> QED
      BY <3>1, <3>2
  <2>5. ASSUME NEW n \in DOMAIN g, NEW f \in NodeFindings(g, n, Source) PROVE About(f) # {} /\ About(f) \subseteq D
    <3>1. n \in D
      BY <2>1, <2>5 DEF LocallySound
    <3> QED
      BY <1>7, <3>1
  <2>6. ASSUME NEW f \in Judgement(g) PROVE About(f) # {} /\ About(f) \subseteq D
    <3>1. CASE \E c \in Cycles(g) : f = ring(c)
      BY <1>3, <2>2, <3>1
    <3>2. CASE \E p \in Unmet : f = unmet(p)
      BY <1>4, <1>9, <3>2
    <3>3. CASE \E n \in Raw : f = raw(n)
      <4>1. PICK n \in Raw : f = raw(n)
        BY <3>3
      <4>2. About(f) = {n} /\ n \in D
        BY <1>3, <1>8, <2>3, <4>1
      <4> QED
        BY <4>2
    <3> QED
      BY <1>6, <2>4, <2>5, <3>1, <3>2, <3>3
  <2> QED
    BY <2>6 DEF Excused
<1>10. ASSUME Excused(Judgement(g), D)
       PROVE  SoundBut(g, D) /\ Demanded(g)
  <2>1. Unmet = {}
    <3> SUFFICES ASSUME NEW p \in Unmet PROVE FALSE
      OBVIOUS
    <3>1. unmet(p) \in Judgement(g)
      BY <1>6
    <3> QED
      BY <1>3, <1>10, <3>1 DEF Excused
  <2>2. ASSUME NEW n \in DOMAIN g \ D PROVE SoundAt(g, n)
    <3>1. \A f \in Judgement(g) : n \notin About(f) /\ About(f) # {n}
      BY <1>10, <2>2 DEF Excused
    <3>2. NodeFindings(g, n, Source) = {}
      BY <1>6, <1>7, <3>1
    <3>3. n \notin DependencyClosure(g, n)
      BY <1>3, <1>6, <3>1, CyclesMean
    <3>4. Covers(g, DOMAIN g, n)
      <4>1. n \in Raw => raw(n) \in Judgement(g) /\ About(raw(n)) = {n}
        BY <1>3, <1>6
      <4> QED
        BY <1>5, <3>1, <4>1
    <3>5. Accepts(g, n) => \A m \in DependencyClosure(g, n) :
                             Accepts(g, m) \/ Covers(g, DependencyClosure(g, n), m)
      BY <1>6, <3>1, AcceptanceMeans
    <3> QED
      BY <3>2, <3>3, <3>4, <3>5 DEF SoundAt, LocallySound
  <2> QED
    BY <1>4, <2>1, <2>2 DEF SoundBut
<1> QED
  BY <1>9, <1>10

LEMMA NothingDangles ==
  ASSUME NEW g, NEW n \in DOMAIN g, NodeFindings(g, n, Source) = {}
  PROVE  g[n].deps \subseteq DOMAIN g
<1>1. {<<n, <<"no such dep", d>>>> : d \in g[n].deps \ DOMAIN g} = {}
  BY DEF NodeFindings
<1> QED
  BY <1>1

\* A node is as sound in a larger graph that adds nothing to what it waits for.
LEMMA SoundWithin ==
  ASSUME NEW f, NEW h, Within(f, h), NEW n \in DOMAIN f
  PROVE  LocallySound(f, n) <=> LocallySound(h, n)
<1> DEFINE C == DependencyClosure(f, n)
<1>1. \A m \in DOMAIN f : /\ DependencyClosure(h, m) = DependencyClosure(f, m)
                          /\ SameContract(f[m], h[m]) /\ m \in DOMAIN h
  BY WithinClosure DEF Within
<1>2. C \in SUBSET DOMAIN f /\ C = DependencyClosure(h, n)
  BY <1>1, WithinClosure, ClosureLaws
<1>3. \A m \in DOMAIN f : /\ Accepts(f, m) <=> Accepts(h, m)
                          /\ f[m].claim = h[m].claim
                          /\ (f[m].gate = "review" /\ f[m].full) <=> (h[m].gate = "review" /\ h[m].full)
  BY <1>1 DEF Accepts, SameContract
<1> HIDE DEF C
<1>4. \A m : Covers(f, C, m) <=> Covers(h, C, m)
  BY <1>1, <1>2, <1>3 DEF Covers
<1>5. NodeFindings(h, n, Source) = NodeFindings(f, n, Source)
  BY WithinFindings
<1> QED
  BY <1>2, <1>3, <1>4, <1>5 DEF LocallySound, C

-----------------------------------------------------------------------------
(***************************************************************************)
(* Graphs that grew.                                                       *)
(***************************************************************************)
\* h has the nodes of b, and what compile looks at is unchanged in them.
Grown(b, h) ==
  /\ IsFiniteSet(DOMAIN h) /\ DOMAIN b \subseteq DOMAIN h
  /\ \A n \in DOMAIN b : SameContract(b[n], h[n])

LEMMA GrownTransitive ==
  ASSUME NEW b, NEW g, NEW h, Grown(b, g), Grown(g, h)
  PROVE  Grown(b, h)
BY DEF Grown, SameContract

LEMMA CoversGrown ==
  ASSUME NEW g, NEW h, Grown(g, h), NEW n, Covers(g, DOMAIN g, n)
  PROVE  Covers(h, DOMAIN h, n)
<1>1. IsFiniteSet(DOMAIN g) /\ IsFiniteSet(DOMAIN h)
  BY FS_Subset DEF Grown
<1>2. \A m \in DOMAIN g : m \in DOMAIN h /\ g[m].deps = h[m].deps /\ g[m].gate = h[m].gate /\ g[m].full = h[m].full
  BY DEF Grown, SameContract
<1>3. \A m \in DOMAIN g : DependencyClosure(g, m) \subseteq DependencyClosure(h, m)
  BY <1>1, <1>2, ClosureMonotone
<1> QED
  BY <1>2, <1>3 DEF Covers

LEMMA DemandsKept ==
  ASSUME NEW g, NEW h, Grown(g, h), Demanded(g)
  PROVE  Demanded(h)
BY DEF Demanded, Grown, SameContract

\* What is sound in part of a graph is sound in it.
LEMMA SoundFrom ==
  ASSUME NEW f, NEW h, Within(f, h), NEW n \in DOMAIN f, SoundAt(f, n)
  PROVE  SoundAt(h, n)
<1>1. Grown(f, h)
  BY DEF Within, Grown
<1> QED
  BY <1>1, SoundWithin, CoversGrown DEF SoundAt

\* A graph that has the same nodes with the same contracts is as sound.
LEMMA SoundAsBefore ==
  ASSUME NEW g, NEW h, NEW D, Grown(g, h), DOMAIN h = DOMAIN g, SoundBut(g, D)
  PROVE  SoundBut(h, D)
<1>1. Within(g, h)
  BY DEF Grown, Within
<1> QED
  BY <1>1, SoundFrom DEF SoundBut

-----------------------------------------------------------------------------
(***************************************************************************)
(* Proposals.                                                              *)
(***************************************************************************)
Distinct(p) == \A i, j \in DOMAIN p : p[i].id = p[j].id => i = j

PlanNode(v) ==
  v = [f \in Fields |-> v[f]] /\ v.deps \subseteq Ids /\ v.claim = None

LEMMA PayloadIndexes ==
  ASSUME NEW p, WellFormed(p)
  PROVE  Len(p) \in Nat /\ DOMAIN p = 1 .. Len(p) /\ Declared(p) \subseteq Ids /\ Declared(p) # {}
<1>1. p \in Seq(Range(p)) /\ p # <<>>
  BY DEF WellFormed
<1> DEFINE R == Range(p)
<1> HIDE DEF R
<1>2. Len(p) \in Nat /\ DOMAIN p = 1 .. Len(p) /\ p # <<>>
  BY <1>1 DEF R
<1>3. Len(p) # 0
  <2> SUFFICES ASSUME Len(p) = 0 PROVE FALSE
    OBVIOUS
  <2>1. p \in Seq(R)
    BY <1>1 DEF R
  <2> QED
    BY <2>1, <1>2
<1>4. 1 \in DOMAIN p
  BY <1>2, <1>3
<1>5. \A i \in DOMAIN p : p[i].id \in Ids
  BY DEF WellFormed
<1> QED
  BY <1>2, <1>4, <1>5 DEF Declared

NewTo(p, R, g) == Distinct(p) /\ Declared(p) \cap (R \cup DOMAIN g) = {}

LEMMA IdsMean ==
  ASSUME NEW g, NEW R, NEW p, WellFormed(p), IdFindings(g, R, p) = {}
  PROVE  NewTo(p, R, g)
<1>1. DOMAIN p = 1 .. Len(p) /\ Len(p) \in Nat
  BY PayloadIndexes
<1> DEFINE again(i) == \E j \in 1 .. i - 1 : p[j].id = p[i].id
<1>2. \A k \in DOMAIN p : ~(again(k) \/ p[k].id \in R \cup DOMAIN g)
  BY DEF IdFindings
<1>3. ASSUME NEW i \in DOMAIN p, NEW j \in DOMAIN p, i < j PROVE p[i].id # p[j].id
  BY <1>1, <1>2, <1>3
<1>4. Distinct(p)
  <2> SUFFICES ASSUME NEW i \in DOMAIN p, NEW j \in DOMAIN p, p[i].id = p[j].id, i # j PROVE FALSE
    BY DEF Distinct
  <2>1. i < j \/ j < i
    BY <1>1
  <2> QED
    BY <2>1, <1>3
<1> QED
  BY <1>2, <1>4 DEF Declared, NewTo

LEMMA NoIds ==
  ASSUME NEW g, NEW R
  PROVE  IdFindings(g, R, <<>>) = {} /\ Declared(<<>>) = {}
BY DEF IdFindings, Declared

\* m is graph g and the nodes of p.
IsMerge(m, g, p) ==
  /\ DOMAIN m = DOMAIN g \cup Declared(p)
  /\ \A n \in DOMAIN g : m[n] = g[n]
  /\ \A i \in DOMAIN p : m[p[i].id] = p[i].node

LEMMA MergedIs ==
  ASSUME NEW g, NEW R, NEW p, WellFormed(p), NewTo(p, R, g)
  PROVE  IsMerge(Merged(g, R, p), g, p)
<1>1. DOMAIN p = 1 .. Len(p) /\ Len(p) \in Nat
  BY PayloadIndexes
<1> DEFINE first(n) == p[CHOOSE i \in DOMAIN p : p[i].id = n /\ \A j \in 1 .. i - 1 : p[j].id # n].node
<1>2. Distinct(p) /\ Declared(p) \ (R \cup DOMAIN g) = Declared(p)
  BY DEF NewTo
<1>3. Merged(g, R, p) = [n \in DOMAIN g \cup Declared(p) |-> IF n \in DOMAIN g THEN g[n] ELSE first(n)]
  BY <1>2 DEF Merged
<1>4. ASSUME NEW i \in DOMAIN p
      PROVE  p[i].id \in Declared(p) /\ p[i].id \notin DOMAIN g /\ first(p[i].id) = p[i].node
  <2> DEFINE Q(k) == p[k].id = p[i].id /\ \A j \in 1 .. k - 1 : p[j].id # p[i].id
  <2>1. Q(i)
    BY <1>1, <1>2 DEF Distinct
  <2>2. \A k \in DOMAIN p : Q(k) => k = i
    BY <1>2 DEF Distinct
  <2> DEFINE c == CHOOSE k \in DOMAIN p : Q(k)
  <2>3. c = i
    <3>1. c \in DOMAIN p /\ Q(c)
      BY <2>1
    <3> HIDE DEF c, Q
    <3> QED
      BY <3>1, <2>2
  <2>4. first(p[i].id) = p[c].node
    OBVIOUS
  <2> HIDE DEF c
  <2> QED
    BY <2>3, <2>4 DEF Declared, NewTo
<1> HIDE DEF first
<1> QED
  BY <1>3, <1>4 DEF IsMerge

LEMMA MergedNothing ==
  ASSUME NEW g, NEW R, g = [n \in DOMAIN g |-> g[n]]
  PROVE  Merged(g, R, <<>>) = g
BY NoIds DEF Merged

\* What is found of the provenance of retired ids, one thing at a time.
Provenance(g, R, K) ==
  /\ \A i \in DOMAIN K : i \in R /\ K[i].verified
  /\ \A i \in DOMAIN K : \A r \in K[i].replacedBy : r # i /\ r \in R \cup DOMAIN g
  /\ ~ \E id \in DOMAIN K :
         id \in Least(DOMAIN K, [S \in SUBSET DOMAIN K |->
                  K[id].replacedBy \cup UNION {K[i].replacedBy : i \in S}])

LEMMA ProvenanceMeans ==
  ASSUME NEW g, NEW R, NEW K, NEW D, DOMAIN K \subseteq R
  PROVE  Excused(RetirementProblems(g, R, K), D) <=> Provenance(g, R, K) /\ DOMAIN K \cap DOMAIN g \subseteq D
<1> DEFINE below == [id \in DOMAIN K |-> K[id].replacedBy]
           chain(id) == Least(DOMAIN K, [S \in SUBSET DOMAIN K |->
                          below[id] \cup UNION {below[i] : i \in S}])
           valid(id, r) == r # id /\ r \in R \cup DOMAIN g
           A == {i \in DOMAIN K : i \notin R \/ i \in DOMAIN g}
           B == {i \in DOMAIN K : ~K[i].verified}
           C == {i \in DOMAIN K : \E r \in below[i] : ~valid(i, r)}
           cyclic == \E id \in DOMAIN K : id \in chain(id)
           fa(i) == <<"graph", <<"not retired", i>>>>
           fb(i) == <<"graph", <<"source unverified", i>>>>
           fc(i) == <<"graph", <<"invalid replacement", i>>>>
           fd == <<"graph", <<"replacement cycle">>>>
<1>1. RetirementProblems(g, R, K)
        = {fa(i) : i \in A} \cup {fb(i) : i \in B} \cup {fc(i) : i \in C} \cup (IF cyclic THEN {fd} ELSE {})
  BY DEF RetirementProblems, When
<1>2. /\ \A i : About(fa(i)) = {i} /\ About(fb(i)) = {} /\ About(fc(i)) = {}
      /\ About(fd) = {}
  <2>1. ASSUME NEW i PROVE About(fa(i)) = {i}
    BY DEF About
  <2>2. ASSUME NEW i PROVE About(fb(i)) = {} /\ About(fc(i)) = {}
    BY DEF About
  <2>3. About(fd) = {}
    BY DEF About
  <2> QED
    BY <2>1, <2>2, <2>3
<1>3. \A S, id \in DOMAIN K : S \subseteq DOMAIN K => UNION {below[i] : i \in S} = UNION {K[i].replacedBy : i \in S}
  OBVIOUS
<1>4. \A id \in DOMAIN K : chain(id) = Least(DOMAIN K, [S \in SUBSET DOMAIN K |->
                                 K[id].replacedBy \cup UNION {K[i].replacedBy : i \in S}])
  <2> SUFFICES ASSUME NEW id \in DOMAIN K
               PROVE  [S \in SUBSET DOMAIN K |-> below[id] \cup UNION {below[i] : i \in S}]
                      = [S \in SUBSET DOMAIN K |-> K[id].replacedBy \cup UNION {K[i].replacedBy : i \in S}]
    OBVIOUS
  <2>1. ASSUME NEW S \in SUBSET DOMAIN K
        PROVE  below[id] \cup UNION {below[i] : i \in S} = K[id].replacedBy \cup UNION {K[i].replacedBy : i \in S}
    OBVIOUS
  <2> HIDE DEF below
  <2> QED
    BY <2>1
<1>5. Provenance(g, R, K) /\ DOMAIN K \cap DOMAIN g \subseteq D
        <=> B = {} /\ C = {} /\ ~cyclic /\ A \subseteq D
  <2>1. C = {} <=> \A i \in DOMAIN K : \A r \in K[i].replacedBy : r # i /\ r \in R \cup DOMAIN g
    OBVIOUS
  <2>2. cyclic <=> \E id \in DOMAIN K :
                     id \in Least(DOMAIN K, [S \in SUBSET DOMAIN K |->
                              K[id].replacedBy \cup UNION {K[i].replacedBy : i \in S}])
    <3> HIDE DEF chain
    <3> QED
      BY <1>4
  <2>3. A = DOMAIN K \cap DOMAIN g
    OBVIOUS
  <2>4. B = {} <=> \A i \in DOMAIN K : K[i].verified
    OBVIOUS
  <2> HIDE DEF A, B, C, cyclic
  <2> QED
    BY <2>1, <2>2, <2>3, <2>4 DEF Provenance
<1> HIDE DEF A, B, C, cyclic, fa, fb, fc, fd
<1>6. \A f : f \in RetirementProblems(g, R, K) <=>
        \/ \E i \in A : f = fa(i)
        \/ \E i \in B : f = fb(i)
        \/ \E i \in C : f = fc(i)
        \/ cyclic /\ f = fd
  BY <1>1
<1>7. Excused(RetirementProblems(g, R, K), D) <=> B = {} /\ C = {} /\ ~cyclic /\ A \subseteq D
  <2>1. ASSUME Excused(RetirementProblems(g, R, K), D) PROVE B = {} /\ C = {} /\ ~cyclic /\ A \subseteq D
    <3>1. \A i \in A : {i} \subseteq D
      BY <1>2, <1>6, <2>1 DEF Excused
    <3> QED
      BY <1>2, <1>6, <2>1, <3>1 DEF Excused
  <2>2. ASSUME B = {}, C = {}, ~cyclic, A \subseteq D PROVE Excused(RetirementProblems(g, R, K), D)
    <3> SUFFICES ASSUME NEW f \in RetirementProblems(g, R, K) PROVE About(f) # {} /\ About(f) \subseteq D
      BY DEF Excused
    <3>1. PICK i \in A : f = fa(i)
      BY <1>6, <2>2
    <3> QED
      BY <1>2, <2>2, <3>1
  <2> QED
    BY <2>1, <2>2
<1> QED
  BY <1>5, <1>7

\* What splits, retirements and additions leave of it.
LEMMA ProvenanceKept ==
  ASSUME NEW g, NEW R, NEW K, NEW h, NEW T, Provenance(g, R, K), R \subseteq T, DOMAIN g \subseteq DOMAIN h \cup T
  PROVE  Provenance(h, T, K)
BY DEF Provenance

-----------------------------------------------------------------------------
(***************************************************************************)
(* What compile judged, and what it appends to.                            *)
(***************************************************************************)
LEMMA FindingsMean ==
  ASSUME NEW g, NEW R, NEW K, NEW p, NEW m, m = Merged(g, R, p), IsFiniteSet(DOMAIN m), DOMAIN m \subseteq Ids,
         \A n \in DOMAIN m : m[n].claim = None, Findings(g, R, K, p, Source) = {}
  PROVE  IdFindings(g, R, p) = {} /\ Sound(m) /\ Demanded(m)
<1>1. Findings(g, R, K, p, Source) = RetirementProblems(g, R, K) \cup IdFindings(g, R, p) \cup Judgement(m)
  BY DEF Findings, Judgement
<1>2. IdFindings(g, R, p) = {} /\ Excused(Judgement(m), {})
  BY <1>1 DEF Excused
<1> QED
  BY <1>2, SoundMeans DEF Sound

LEMMA ValidateMeans ==
  ASSUME NEW g, NEW R, NEW K, NEW D, g = [n \in DOMAIN g |-> g[n]], IsFiniteSet(DOMAIN g), DOMAIN g \subseteq Ids,
         \A n \in DOMAIN g : g[n].claim = None, DOMAIN K \subseteq R
  PROVE  Excused(Validate(g, R, K, Source), D) <=>
           /\ Provenance(g, R, K) /\ DOMAIN K \cap DOMAIN g \subseteq D
           /\ SoundBut(g, D) /\ Demanded(g)
<1>1. g = Merged(g, R, <<>>) /\ IdFindings(g, R, <<>>) = {}
  BY MergedNothing, NoIds
<1>2. Validate(g, R, K, Source) = RetirementProblems(g, R, K) \cup Judgement(g)
  BY <1>1 DEF Validate, Findings, Judgement
<1>3. Excused(Validate(g, R, K, Source), D) <=> Excused(RetirementProblems(g, R, K), D) /\ Excused(Judgement(g), D)
  BY <1>2 DEF Excused
<1> QED
  BY <1>3, SoundMeans, ProvenanceMeans

\* The same proposal, added to a graph and to one it grew into.
LEMMA MergesGrow ==
  ASSUME NEW b, NEW T, NEW g, NEW p, WellFormed(p), NewTo(p, T, b), NewTo(p, {}, g), Grown(b, g), DOMAIN g \subseteq Ids
  PROVE  /\ IsMerge(Merged(b, T, p), b, p) /\ IsMerge(Merged(g, {}, p), g, p)
         /\ Grown(Merged(b, T, p), Merged(g, {}, p))
<1> DEFINE mb == Merged(b, T, p)
           h  == Merged(g, {}, p)
<1>1. IsMerge(mb, b, p) /\ IsMerge(h, g, p)
  BY MergedIs
<1> HIDE DEF mb, h
<1>2. DOMAIN h \subseteq Ids /\ DOMAIN mb \subseteq DOMAIN h /\ IsFiniteSet(DOMAIN h)
  BY <1>1, PayloadIndexes, PlanAssumption, FS_Subset DEF Grown, IsMerge
<1>3. ASSUME NEW n \in DOMAIN b PROVE SameContract(mb[n], h[n])
  BY <1>1 DEF IsMerge, Grown
<1>4. ASSUME NEW n \in Declared(p) PROVE SameContract(mb[n], h[n])
  <2>1. PICK i \in DOMAIN p : n = p[i].id
    BY DEF Declared
  <2>2. mb[n] = h[n]
    BY <1>1, <2>1 DEF IsMerge
  <2> QED
    BY <2>2 DEF SameContract
<1> QED
  BY <1>1, <1>2, <1>3, <1>4 DEF Grown, IsMerge, mb, h

\* What compile accepted is, over the graph that it judged, sound and new.
LEMMA AcceptedMeans ==
  ASSUME NEW b, NEW T, NEW K, NEW p, WellFormed(p), DOMAIN b \subseteq Ids, \A n \in DOMAIN b : b[n].claim = None,
         Findings(b, T, K, p, Source) = {}
  PROVE  /\ NewTo(p, T, b) /\ IsMerge(Merged(b, T, p), b, p)
         /\ Sound(Merged(b, T, p)) /\ Demanded(Merged(b, T, p))
         /\ \A i \in DOMAIN p : p[i].node.deps \subseteq DOMAIN b \cup Declared(p)
<1> DEFINE mb == Merged(b, T, p)
<1>1. NewTo(p, T, b)
  BY IdsMean DEF Findings
<1>2. IsMerge(mb, b, p)
  BY <1>1, MergedIs
<1>3. Findings(b, T, K, p, Source) = {} /\ mb = Merged(b, T, p)
  OBVIOUS
<1> HIDE DEF mb
<1>4. IsFiniteSet(DOMAIN mb) /\ DOMAIN mb \subseteq Ids
  BY <1>2, PayloadIndexes, PlanAssumption, FS_Subset DEF IsMerge
<1>5. \A n \in DOMAIN mb : mb[n].claim = None
  <2>1. \A n \in Declared(p) : \E i \in DOMAIN p : n = p[i].id /\ p[i].node.claim = None
    BY DEF Declared, WellFormed
  <2> QED
    BY <1>2, <2>1 DEF IsMerge
<1>6. Sound(mb) /\ Demanded(mb)
  BY <1>3, <1>4, <1>5, FindingsMean
<1>7. ASSUME NEW i \in DOMAIN p PROVE p[i].node.deps \subseteq DOMAIN b \cup Declared(p)
  <2>1. p[i].id \in DOMAIN mb /\ mb[p[i].id] = p[i].node /\ DOMAIN mb = DOMAIN b \cup Declared(p)
    BY <1>2 DEF IsMerge, Declared
  <2>2. NodeFindings(mb, p[i].id, Source) = {}
    BY <1>6, <2>1 DEF Sound, SoundBut, SoundAt, LocallySound
  <2> QED
    BY <2>1, <2>2, NothingDangles
<1> QED
  BY <1>1, <1>2, <1>6, <1>7 DEF mb

\* Appended to the graph that was judged, grown since but not restructured.
LEMMA AppendInTime ==
  ASSUME NEW g, NEW R, NEW D, SoundBut(g, D), DOMAIN g \subseteq Ids,
         \A n \in DOMAIN g : g[n].deps \subseteq DOMAIN g \cup R,
         NEW b, NEW p, WellFormed(p), NewTo(p, {}, g), Grown(b, g),
         NewTo(p, R, b), Sound(Merged(b, R, p)), Demanded(Merged(b, R, p))
  PROVE  SoundBut(Merged(g, {}, p), D) /\ Demanded(Merged(g, {}, p))
<1> DEFINE mb == Merged(b, R, p)
           h  == Merged(g, {}, p)
<1>1. IsMerge(mb, b, p) /\ IsMerge(h, g, p) /\ Grown(mb, h) /\ Sound(mb) /\ Demanded(mb)
  BY MergesGrow
<1> HIDE DEF mb, h
<1>2. Within(mb, h)
  BY <1>1, NothingDangles DEF Within, Grown, Sound, SoundBut, SoundAt, LocallySound
<1>3. Within(g, h)
  <2>1. \A n \in DOMAIN g : g[n].deps \cap DOMAIN h \subseteq DOMAIN g
    BY <1>1 DEF IsMerge, NewTo
  <2>2. \A n \in DOMAIN g : SameContract(g[n], h[n])
    BY <1>1 DEF IsMerge, SameContract
  <2> QED
    BY <1>1, <2>1, <2>2 DEF Within, Grown, IsMerge
<1>4. ASSUME NEW n \in DOMAIN h \ D PROVE SoundAt(h, n)
  <2>1. CASE n \in DOMAIN g
    BY <1>3, <1>4, <2>1, SoundFrom DEF SoundBut
  <2>2. CASE n \in DOMAIN mb
    BY <1>1, <1>2, <2>2, SoundFrom DEF Sound, SoundBut
  <2> QED
    BY <1>1, <2>1, <2>2 DEF IsMerge
<1> QED
  BY <1>1, <1>4, DemandsKept DEF SoundBut, h, mb

\* Appended to whatever became of it: what the nodes reach may be damaged.
LEMMA AppendOutrun ==
  ASSUME NEW g, NEW D, SoundBut(g, D), DOMAIN g \subseteq Ids, DOMAIN g # {} => Demanded(g),
         NEW b, NEW T, NEW p, WellFormed(p), NewTo(p, {}, g), DOMAIN b # {} => DOMAIN g # {},
         NewTo(p, T, b), Demanded(Merged(b, T, p))
  PROVE  /\ SoundBut(Merged(g, {}, p), D \cup Reached(Merged(g, {}, p), p)) /\ Demanded(Merged(g, {}, p))
         /\ Declared(p) \subseteq Reached(Merged(g, {}, p), p)
<1> DEFINE h == Merged(g, {}, p)
           O == Reached(h, p)
           k == [n \in DOMAIN g \ O |-> g[n]]
<1>1. IsMerge(h, g, p)
  BY MergedIs
<1>2. Demanded(h)
  <2>1. CASE DOMAIN g = {}
    <3>1. IsFiniteSet(DOMAIN g) /\ DOMAIN b = {}
      BY <2>1, FS_EmptySet
    <3>2. Grown(b, g)
      BY <3>1 DEF Grown
    <3>3. Grown(Merged(b, T, p), h)
      BY <3>2, MergesGrow
    <3> QED
      BY <3>3, DemandsKept
  <2>2. CASE DOMAIN g # {}
    <3> HIDE DEF h
    <3>1. DOMAIN h \subseteq Ids /\ IsFiniteSet(DOMAIN h)
      BY <1>1, PayloadIndexes, PlanAssumption, FS_Subset DEF IsMerge
    <3>2. Grown(g, h)
      BY <1>1, <3>1 DEF Grown, IsMerge, SameContract
    <3> QED
      BY <2>2, <3>2, DemandsKept
  <2> QED
    BY <2>1, <2>2
<1> HIDE DEF h
<1>3. DOMAIN h \subseteq Ids /\ IsFiniteSet(DOMAIN h)
  BY <1>1, PayloadIndexes, PlanAssumption, FS_Subset DEF IsMerge
<1>4. Grown(g, h)
  BY <1>1, <1>3 DEF Grown, IsMerge, SameContract
<1>5. Declared(p) \subseteq O
  BY <1>1 DEF Reached, IsMerge
<1>6. ASSUME NEW n \in DOMAIN g \ O PROVE g[n].deps \cap DOMAIN h \subseteq DOMAIN g \ O
  <2> SUFFICES ASSUME NEW d \in g[n].deps \cap DOMAIN h PROVE d \in DOMAIN g \ O
    OBVIOUS
  <2>1. n \in DOMAIN h /\ h[n] = g[n]
    BY <1>1 DEF IsMerge
  <2>2. d \in DependencyClosure(h, n)
    BY <1>3, <2>1, ClosureLaws DEF PresentDeps
  <2>3. DependencyClosure(h, d) \subseteq DependencyClosure(h, n)
    BY <1>3, <2>1, <2>2, ClosureTransitive
  <2>4. ({n} \cup DependencyClosure(h, n)) \cap Declared(p) = {}
    BY <2>1 DEF Reached
  <2>5. d \notin O
    BY <2>2, <2>3, <2>4 DEF Reached
  <2> QED
    BY <1>1, <2>2, <2>4, <2>5 DEF IsMerge
<1> HIDE DEF O
<1>7. DOMAIN k = DOMAIN g \ O /\ \A n \in DOMAIN k : k[n] = g[n] /\ h[n] = g[n]
  BY <1>1 DEF IsMerge
<1> HIDE DEF k
<1>8. Within(k, h)
  BY <1>1, <1>3, <1>6, <1>7 DEF Within, SameContract, IsMerge
<1>9. Within(k, g)
  <2>1. IsFiniteSet(DOMAIN g) /\ DOMAIN g \subseteq DOMAIN h
    BY <1>4, FS_Subset DEF Grown
  <2> QED
    BY <1>6, <1>7, <2>1 DEF Within, SameContract
<1>10. ASSUME NEW n \in DOMAIN h \ (D \cup O) PROVE SoundAt(h, n)
  <2>1. n \in DOMAIN g \ D /\ n \in DOMAIN k
    BY <1>1, <1>5, <1>7, <1>10 DEF IsMerge
  <2>2. LocallySound(g, n) /\ Covers(g, DOMAIN g, n)
    BY <2>1 DEF SoundBut, SoundAt
  <2>3. LocallySound(h, n)
    BY <1>8, <1>9, <2>1, <2>2, SoundWithin
  <2> QED
    BY <1>4, <2>2, <2>3, CoversGrown DEF SoundAt
<1> QED
  BY <1>2, <1>5, <1>10 DEF SoundBut, h, O

-----------------------------------------------------------------------------
(***************************************************************************)
(* What assemble merges.                                                   *)
(***************************************************************************)
\* The declarations sessions stage, and what is made of them.
Items     == UNION {Range(p) : p \in Proposals}
Stageable == Seq(Items) \ {<<>>}

LEMMA ProposalsAreStageable == \A p \in Proposals : p \in Stageable /\ WellFormed(p)
<1> SUFFICES ASSUME NEW p \in Proposals PROVE p \in Stageable /\ WellFormed(p)
  OBVIOUS
<1>1. WellFormed(p)
  BY PlanAssumption
<1> DEFINE R == Range(p)
<1>2. p \in Seq(R) /\ p # <<>>
  BY <1>1 DEF WellFormed
<1>3. R \subseteq Items
  BY DEF Items
<1> HIDE DEF R
<1>4. p \in Seq(Items)
  <2>1. \A i \in 1 .. Len(p) : p[i] \in Items
    BY <1>2, <1>3
  <2> QED
    BY <1>2, <2>1
<1> QED
  BY <1>1, <1>2, <1>4 DEF Stageable

LEMMA StageableIs ==
  ASSUME NEW p \in Stageable
  PROVE  /\ WellFormed(p) /\ Len(p) \in Nat /\ DOMAIN p = 1 .. Len(p)
         /\ \A i \in DOMAIN p : p[i] \in Items
<1>1. p \in Seq(Items) /\ p # <<>>
  BY DEF Stageable
<1>2. Len(p) \in Nat /\ DOMAIN p = 1 .. Len(p) /\ \A i \in DOMAIN p : p[i] \in Items
  <2> HIDE DEF Items
  <2> QED
    BY <1>1
<1> DEFINE R == Range(p)
<1>3. \A i \in DOMAIN p : p[i] \in R
  BY DEF Range
<1>4. p \in Seq(R)
  <2> HIDE DEF R
  <2>1. p = [i \in 1 .. Len(p) |-> p[i]]
    BY <1>1
  <2> QED
    BY <1>2, <1>3, <2>1
<1>5. ASSUME NEW x \in Items
      PROVE  /\ x.id \in Ids /\ x.node = [f \in Fields |-> x.node[f]]
             /\ x.node.deps \subseteq Ids /\ x.node.rev = 1
             /\ x.node.obs = None /\ x.node.claim = None
  <2>1. PICK q \in Proposals : x \in Range(q)
    BY DEF Items
  <2>2. PICK i \in DOMAIN q : x = q[i]
    BY <2>1 DEF Range
  <2>3. WellFormed(q)
    BY PlanAssumption
  <2> QED
    BY <2>2, <2>3 DEF WellFormed
<1>6. WellFormed(p)
  BY <1>1, <1>2, <1>4, <1>5 DEF WellFormed
<1> QED
  BY <1>2, <1>6

LEMMA DeclaredTogether ==
  ASSUME NEW S, NEW x \in Seq(S), NEW y \in Seq(S)
  PROVE  x \o y \in Seq(S) /\ Declared(x \o y) = Declared(x) \cup Declared(y)
<1> DEFINE z == x \o y
<1>1. /\ z \in Seq(S) /\ DOMAIN z = 1 .. Len(x) + Len(y)
      /\ DOMAIN x = 1 .. Len(x) /\ DOMAIN y = 1 .. Len(y) /\ Len(x) \in Nat /\ Len(y) \in Nat
      /\ \A i \in 1 .. Len(x) : z[i] = x[i]
      /\ \A i \in 1 .. Len(y) : z[Len(x) + i] = y[i]
      /\ \A i \in 1 .. Len(x) + Len(y) : i \notin 1 .. Len(x) =>
           i - Len(x) \in 1 .. Len(y) /\ z[i] = y[i - Len(x)]
  OBVIOUS
<1> HIDE DEF z
<1>2. \A i \in DOMAIN x : i \in DOMAIN z /\ z[i] = x[i]
  BY <1>1
<1>3. \A i \in DOMAIN y : Len(x) + i \in DOMAIN z /\ z[Len(x) + i] = y[i]
  BY <1>1
<1>4. \A i \in DOMAIN z : (\E j \in DOMAIN x : z[i] = x[j]) \/ (\E j \in DOMAIN y : z[i] = y[j])
  BY <1>1
<1>5. Declared(z) = Declared(x) \cup Declared(y)
  BY <1>2, <1>3, <1>4 DEF Declared
<1> QED
  BY <1>1, <1>5 DEF z

\* f is what the first k fragments come to, of those in fs.
Merges(f, k, fs) ==
  /\ f \in [0 .. k -> Seq(Items)]
  /\ \A i \in 0 .. k :
       f[i] = IF i = 0 THEN <<>> ELSE f[i - 1] \o (IF i \in fs THEN frag[i] ELSE <<>>)

LEMMA MergesExtend ==
  ASSUME NEW fs, \A i \in fs : frag[i] \in Stageable,
         NEW k \in Nat, \E f : Merges(f, k, fs)
  PROVE  \E f : Merges(f, k + 1, fs)
<1>1. PICK f : Merges(f, k, fs)
  OBVIOUS
<1> DEFINE part == IF k + 1 \in fs THEN frag[k + 1] ELSE <<>>
           next == f[k] \o part
           h    == [i \in 0 .. k + 1 |-> IF i = k + 1 THEN next ELSE f[i]]
<1>2. next \in Seq(Items)
  <2>1. f[k] \in Seq(Items) /\ part \in Seq(Items)
    BY <1>1 DEF Merges, Stageable
  <2> HIDE DEF part
  <2> QED
    BY <2>1, DeclaredTogether
<1>3. h \in [0 .. k + 1 -> Seq(Items)]
  <2> HIDE DEF next
  <2> QED
    BY <1>1, <1>2 DEF Merges
<1>4. ASSUME NEW i \in 0 .. k + 1
      PROVE  h[i] = IF i = 0 THEN <<>> ELSE h[i - 1] \o (IF i \in fs THEN frag[i] ELSE <<>>)
  <2>1. CASE i = k + 1
    <3>1. h[i] = next /\ h[i - 1] = f[k] /\ i # 0
      <4> HIDE DEF next
      <4>1. i - 1 = k /\ i # 0 /\ k \in 0 .. k + 1 /\ k # k + 1
        BY <2>1
      <4> QED
        BY <2>1, <4>1
    <3> QED
      BY <2>1, <3>1
  <2>2. CASE i # k + 1
    <3>1. i \in 0 .. k /\ h[i] = f[i] /\ (i # 0 => h[i - 1] = f[i - 1])
      BY <2>2
    <3> HIDE DEF h
    <3> QED
      BY <1>1, <3>1 DEF Merges
  <2> QED
    BY <2>1, <2>2
<1>5. Merges(h, k + 1, fs)
  <2> HIDE DEF h
  <2> QED
    BY <1>3, <1>4 DEF Merges
<1> QED
  BY <1>5

LEMMA StagedIsMerged ==
  ASSUME NEW fs, \A i \in fs : frag[i] \in Stageable
  PROVE  \E f : Merges(f, MaxFragment, fs) /\ StagedNodes(fs) = f[MaxFragment]
<1> DEFINE N == MaxFragment
           part(i) == IF i \in fs THEN frag[i] ELSE <<>>
           S == {k \in 0 .. N : \E f : Merges(f, k, fs)}
<1>1. N \in Nat
  BY PlanAssumption
<1> HIDE DEF N
<1>2. 0 \in S
  <2>1. Merges([i \in 0 .. 0 |-> <<>>], 0, fs)
    BY DEF Merges
  <2> QED
    BY <1>1, <2>1
<1>3. ASSUME NEW k \in 0 .. N, k \in S, k < N
      PROVE  k + 1 \in S
  BY <1>1, <1>3, MergesExtend
<1>4. N \in S
  <2> HIDE DEF S
  <2>1. 0 .. N \subseteq S
    BY <1>1, <1>2, <1>3, UpTo
  <2> QED
    BY <1>1, <2>1
<1> DEFINE IsUpTo(f) == f = [k \in 0 .. N |-> IF k = 0 THEN <<>> ELSE f[k - 1] \o part(k)]
           upTo == CHOOSE f : IsUpTo(f)
<1>5. PICK f : Merges(f, N, fs)
  BY <1>4
<1>6. IsUpTo(upTo)
  <2>1. f = [k \in 0 .. N |-> f[k]]
    BY <1>5 DEF Merges
  <2>2. \A k \in 0 .. N : f[k] = IF k = 0 THEN <<>> ELSE f[k - 1] \o part(k)
    BY <1>5 DEF Merges
  <2>3. IsUpTo(f)
    BY <2>1, <2>2
  <2> QED
    BY <2>3
<1>7. StagedNodes(fs) = upTo[N]
  BY DEF StagedNodes, N
<1>8. \A k \in 0 .. N : upTo[k] = f[k]
  <2> DEFINE D == {i \in 0 .. N : upTo[i] = f[i]}
  <2> HIDE DEF upTo
  <2>1. 0 \in D
    <3>1. 0 \in 0 .. N
      BY <1>1
    <3>2. upTo[0] = <<>>
      BY <1>6, <3>1
    <3>3. f[0] = <<>>
      BY <1>5, <3>1 DEF Merges
    <3> QED
      BY <3>1, <3>2, <3>3
  <2>2. \A i \in 0 .. N : i \in D /\ i < N => i + 1 \in D
    <3> TAKE i \in 0 .. N
    <3> HAVE i \in D /\ i < N
    <3>1. i + 1 \in 0 .. N /\ i + 1 # 0 /\ (i + 1) - 1 = i
      BY <1>1
    <3>2. upTo[i + 1] = upTo[i] \o part(i + 1)
      BY <1>6, <3>1
    <3>3. f[i + 1] = f[i] \o part(i + 1)
      BY <1>5, <3>1 DEF Merges
    <3> QED
      BY <3>1, <3>2, <3>3
  <2>3. 0 .. N \subseteq D
    <3> HIDE DEF D
    <3> QED
      BY <1>1, <2>1, <2>2, UpTo
  <2> QED
    BY <2>3
<1>9. N \in 0 .. N
  BY <1>1
<1> HIDE DEF upTo
<1> QED
  BY <1>5, <1>7, <1>8, <1>9 DEF N

\* Assembling keeps every declaration of every fragment it merges.
LEMMA AllAreMerged ==
  ASSUME NEW fs \in SUBSET (1 .. MaxFragment), \A i \in fs : frag[i] \in Stageable
  PROVE  /\ StagedNodes(fs) \in Seq(Items)
         /\ \A i \in fs : Declared(frag[i]) \subseteq Declared(StagedNodes(fs))
<1> DEFINE N == MaxFragment
<1>1. N \in Nat
  BY PlanAssumption
<1>2. PICK f : Merges(f, N, fs) /\ StagedNodes(fs) = f[N]
  BY StagedIsMerged
<1> HIDE DEF N
<1> DEFINE D == {k \in 0 .. N : \A i \in fs : i <= k => Declared(frag[i]) \subseteq Declared(f[k])}
<1>3. 0 \in D
  BY <1>1
<1>4. \A k \in 0 .. N : k \in D /\ k < N => k + 1 \in D
  <2> TAKE k \in 0 .. N
  <2> HAVE k \in D /\ k < N
  <2> DEFINE part == IF k + 1 \in fs THEN frag[k + 1] ELSE <<>>
  <2>1. k + 1 \in 0 .. N /\ k + 1 # 0 /\ (k + 1) - 1 = k /\ k \in 0 .. N
    BY <1>1
  <2>2. f[k + 1] = f[k] \o part /\ f[k] \in Seq(Items)
    BY <1>2, <2>1 DEF Merges
  <2>3. part \in Seq(Items)
    BY DEF Stageable
  <2>4. Declared(f[k + 1]) = Declared(f[k]) \cup Declared(part)
    <3> HIDE DEF part
    <3> QED
      BY <2>2, <2>3, DeclaredTogether
  <2>5. ASSUME NEW i \in fs, i <= k + 1
        PROVE  Declared(frag[i]) \subseteq Declared(f[k + 1])
    <3>1. CASE i = k + 1
      BY <2>4, <3>1, <2>5
    <3>2. CASE i # k + 1
      <4>1. i <= k
        BY <1>1, <2>5, <3>2 DEF N
      <4>2. Declared(frag[i]) \subseteq Declared(f[k])
        BY <4>1, <2>5
      <4> QED
        BY <2>4, <4>2
    <3> QED
      BY <3>1, <3>2
  <2> QED
    BY <2>1, <2>5
<1>5. N \in D
  <2> HIDE DEF D
  <2>1. 0 .. N \subseteq D
    BY <1>1, <1>3, <1>4, UpTo
  <2> QED
    BY <1>1, <2>1
<1>6. f[N] \in Seq(Items)
  BY <1>1, <1>2 DEF Merges
<1>7. \A i \in fs : i <= N
  BY <1>1 DEF N
<1> QED
  BY <1>2, <1>5, <1>6, <1>7

-----------------------------------------------------------------------------
(***************************************************************************)
(* The workspace and the commands in progress.                             *)
(***************************************************************************)
JobFields == {"cmd", "payload", "path", "names", "mark", "tries", "candidate", "base", "knew", "read"}
Steps     == {"idle", "reserve", "reserved", "park", "merge", "assemble", "consume",
              "select", "append", "remove", "gc", "gcremove"}
Assembles == {"merge", "assemble", "consume"}
Compiles  == {"select", "append", "remove"}
Collects  == {"gc", "gcremove"}
Consumers == Assembles \cup Compiles \cup Collects

\* The payloads a command takes away, or has still to look at.
Touches(j) == j.names \cup {j.path}

Counted(p) == p \in Stageable /\ Len(p) = Cardinality(Declared(p))

\* A session at step l with data j, while fs is staged and the mark is m.
SessionOK(l, j, fs, m) ==
  /\ l \in Steps /\ j = [x \in JobFields |-> j[x]]
  /\ l \in {"reserve", "reserved", "park"} =>
       j.cmd = "propose" /\ j.payload \in Proposals /\ j.candidate \in 1 .. MaxFragment
  /\ l = "reserved" => j.path \in 1 .. MaxFragment /\ j.mark \in Nat /\ j.mark < j.path
  /\ l = "park" => j.path \in 1 .. m /\ j.path \notin fs
  /\ l \in Consumers => Touches(j) \subseteq 0 .. m
  /\ l \in Assembles => j.cmd = "assemble"
  /\ l = "merge" => j.names # {}
  /\ l \in {"assemble", "consume"} => Counted(j.payload)
  /\ l \in Compiles => j.cmd = "compile"
  /\ l \in {"append", "remove"} => j.payload \in Stageable
  /\ l \in Collects => j.cmd = "gc"

\* A fragment that is about to be written has an id that no other command knows.
Apart(l, j, k, i) ==
  /\ l = "park" /\ k = "park" => j.path # i.path
  /\ l = "park" /\ k \in Consumers => j.path \notin Touches(i)

WorkTyped ==
  /\ mark \in 0 .. MaxFragment /\ DOMAIN frag \subseteq 1 .. mark
  /\ \A f \in DOMAIN frag : frag[f] \in Proposals
  /\ assembled # None => Counted(assembled)

SessionsOK ==
  /\ pc = [s \in Sessions |-> pc[s]] /\ job = [s \in Sessions |-> job[s]]
  /\ \A s \in Sessions : SessionOK(pc[s], job[s], DOMAIN frag, mark)
  /\ \A s, t \in Sessions : s # t => Apart(pc[s], job[s], pc[t], job[t])

Workspace == WorkTyped /\ SessionsOK

\* A step of s to l with data j, whatever it does to the workspace.
Moves(s, l, j) ==
  /\ pc' = [pc EXCEPT ![s] = l] /\ job' = [job EXCEPT ![s] = j]
  /\ mark' \in Nat /\ mark <= mark'
  /\ \A f \in DOMAIN frag' : f \in DOMAIN frag \/ (pc[s] = "park" /\ f = job[s].path)
  /\ SessionOK(l, j, DOMAIN frag', mark')
  /\ l = "park" => j.path > mark
  /\ l \in Consumers => \A f \in Touches(j) :
        f \in DOMAIN frag \cup {0} \/ (pc[s] \in Consumers /\ f \in Touches(job[s]))

\* It leaves the other sessions' data what they were.
LEMMA SessionStep ==
  ASSUME WorkTyped, SessionsOK, NEW s \in Sessions, NEW l, NEW j, Moves(s, l, j)
  PROVE  SessionsOK'
<1>1. /\ pc' = [t \in Sessions |-> pc'[t]] /\ job' = [t \in Sessions |-> job'[t]]
      /\ pc'[s] = l /\ job'[s] = j
      /\ \A t \in Sessions \ {s} : pc'[t] = pc[t] /\ job'[t] = job[t]
  BY DEF SessionsOK, Moves
<1>2. mark \in Nat /\ MaxFragment \in Nat
  BY PlanAssumption DEF WorkTyped
<1>3. ASSUME NEW t \in Sessions \ {s}
      PROVE  SessionOK(pc'[t], job'[t], DOMAIN frag', mark')
  <2>1. SessionOK(pc[t], job[t], DOMAIN frag, mark) /\ Apart(pc[s], job[s], pc[t], job[t])
    BY DEF SessionsOK
  <2>2. pc[t] = "park" => job[t].path \in 1 .. mark' /\ job[t].path \notin DOMAIN frag'
    BY <1>2, <2>1 DEF SessionOK, Apart, Moves
  <2>3. pc[t] \in Consumers => Touches(job[t]) \subseteq 0 .. mark'
    BY <1>2, <2>1 DEF SessionOK, Moves
  <2> QED
    BY <1>1, <2>1, <2>2, <2>3 DEF SessionOK
<1>4. ASSUME NEW t \in Sessions \ {s}
      PROVE  Apart(pc'[t], job'[t], l, j) /\ Apart(l, j, pc'[t], job'[t])
  <2>1. /\ SessionOK(pc[t], job[t], DOMAIN frag, mark)
        /\ Apart(pc[s], job[s], pc[t], job[t]) /\ Apart(pc[t], job[t], pc[s], job[s])
    BY DEF SessionsOK
  <2>2. l = "park" /\ pc[t] = "park" => j.path # job[t].path
    BY <1>2, <2>1 DEF SessionOK, Moves
  <2>3. l = "park" /\ pc[t] \in Consumers => j.path \notin Touches(job[t])
    <3> SUFFICES ASSUME l = "park", pc[t] \in Consumers, j.path \in Touches(job[t]) PROVE FALSE
      OBVIOUS
    <3>1. j.path \in 0 .. mark
      BY <2>1 DEF SessionOK
    <3> QED
      BY <1>2, <3>1 DEF Moves
  <2>4. pc[t] = "park" /\ l \in Consumers => job[t].path \notin Touches(j)
    <3> SUFFICES ASSUME pc[t] = "park", l \in Consumers, job[t].path \in Touches(j) PROVE FALSE
      OBVIOUS
    <3>1. job[t].path \in 1 .. mark /\ job[t].path \notin DOMAIN frag
      BY <2>1 DEF SessionOK
    <3>2. pc[s] \in Consumers /\ job[t].path \in Touches(job[s])
      BY <1>2, <3>1 DEF Moves
    <3> QED
      BY <2>1, <3>2 DEF Apart
  <2> QED
    BY <1>1, <2>2, <2>3, <2>4 DEF Apart
<1> QED
  BY <1>1, <1>3, <1>4 DEF SessionsOK, Moves

LEMMA MinIsIn ==
  ASSUME NEW S \in SUBSET Nat, S # {}
  PROVE  Min(S) \in S /\ \A x \in S : Min(S) <= x
<1>1. PICK x \in S : \A y \in S : ~(<<y, x>> \in OpToRel(<, Nat))
  BY WFMin, NatLessThanWellFounded
<1>2. ASSUME NEW y \in S, y < x PROVE FALSE
  <2>1. <<y, x>> \in OpToRel(<, Nat)
    BY <1>2 DEF OpToRel
  <2> QED
    BY <1>1, <2>1
<1>3. \A y \in S : x <= y
  BY <1>2
<1> QED
  BY <1>3 DEF Min

LEMMA MaxIsIn ==
  ASSUME NEW N \in Nat, NEW S \in SUBSET (0 .. N), S # {}
  PROVE  Max(S) \in S /\ \A x \in S : x <= Max(S)
<1> DEFINE U == {u \in Nat : \A x \in S : x <= u}
<1>1. N \in U
  OBVIOUS
<1>2. Min(U) \in U /\ \A u \in U : Min(U) <= u
  <2>1. U \in SUBSET Nat
    OBVIOUS
  <2> HIDE DEF U
  <2> QED
    BY <1>1, <2>1, MinIsIn
<1> DEFINE k == Min(U)
<1>3. k \in Nat /\ (\A x \in S : x \in Nat /\ x <= k) /\ (\A u \in Nat : (\A x \in S : x <= u) => k <= u)
  BY <1>2
<1> HIDE DEF U, k
<1>4. k \in S
  <2> SUFFICES ASSUME k \notin S PROVE FALSE
    OBVIOUS
  <2>1. \A x \in S : x < k
    BY <1>3
  <2>2. k > 0
    <3>1. PICK x \in S : TRUE
      OBVIOUS
    <3> QED
      BY <1>3, <2>1, <3>1
  <2>3. k - 1 \in Nat /\ \A x \in S : x <= k - 1
    BY <1>3, <2>1, <2>2
  <2> QED
    BY <1>3, <2>3
<1>5. \E m \in S : \A x \in S : m >= x
  BY <1>3, <1>4
<1> QED
  BY <1>5 DEF Max

\* A reserved id is after every fragment there is, and after the mark.
LEMMA NextIsNew ==
  ASSUME NEW c \in Nat, NEW m \in Nat, NEW fs \in SUBSET (1 .. m)
  PROVE  NextFragment(c, m, fs) \in Nat /\ NextFragment(c, m, fs) > m
<1>1. {m} \cup fs \in SUBSET (0 .. m)
  OBVIOUS
<1> DEFINE last == Max({m} \cup fs)
<1>2. last \in 0 .. m /\ m <= last
  BY <1>1, MaxIsIn
<1> HIDE DEF last
<1>3. (IF c > last THEN c ELSE last + 1) \in Nat /\ (IF c > last THEN c ELSE last + 1) > m
  BY <1>2
<1> QED
  BY <1>3 DEF NextFragment, last

LEMMA RefuseKeeps ==
  ASSUME WorkTyped, SessionsOK, NEW s \in Sessions, Refuse(s)
  PROVE  Workspace'
<1>1. /\ pc' = [pc EXCEPT ![s] = "idle"] /\ job' = [job EXCEPT ![s] = NoJob]
      /\ frag' = frag /\ mark' = mark /\ assembled' = assembled
  BY DEF Refuse, Finish, Goto, workspace
<1>2. mark \in Nat
  BY PlanAssumption DEF WorkTyped
<1>3. SessionOK("idle", NoJob, DOMAIN frag', mark')
  BY DEF SessionOK, NoJob, JobFields, Steps, Consumers, Assembles, Compiles, Collects
<1>4. "idle" \notin Consumers
  BY DEF Consumers, Assembles, Compiles, Collects
<1>5. SessionsOK'
  <2>1. PICK l, j : l = "idle" /\ j = NoJob
    OBVIOUS
  <2>2. l # "park" /\ l \notin Consumers /\ SessionOK(l, j, DOMAIN frag', mark')
    BY <1>3, <1>4, <2>1
  <2>3. Moves(s, l, j)
    BY <1>1, <1>2, <2>1, <2>2 DEF Moves
  <2> QED
    BY <2>3, SessionStep, Zenon
<1> QED
  BY <1>1, <1>5 DEF Workspace, WorkTyped

LEMMA WorkspaceMoves ==
  ASSUME Workspace, NEW s \in Sessions, NEW l, NEW j, Moves(s, l, j), WorkTyped'
  PROVE  Workspace'
BY SessionStep, Zenon DEF Workspace

LEMMA WorkTypedKept == WorkTyped /\ UNCHANGED workspace => WorkTyped'
BY DEF WorkTyped, workspace

LEMMA StepsDiffer ==
  /\ \A l \in {"idle", "reserve", "reserved", "park"} : l \notin Consumers
  /\ Consumers = {"merge", "assemble", "consume", "select", "append", "remove", "gc", "gcremove"}
BY DEF Consumers, Assembles, Compiles, Collects

\* A command that begins: what it has to look at is there.
LEMMA Begins ==
  ASSUME Workspace, UNCHANGED workspace, NEW s \in Sessions, NEW l \in Steps, NEW j, SessionOK(l, j, DOMAIN frag, mark), l # "park",
         Touches(j) \subseteq DOMAIN frag \cup {0},
         Goto(s, l), job' = [job EXCEPT ![s] = j]
  PROVE  Workspace'
<1>1. mark \in Nat
  BY PlanAssumption DEF Workspace, WorkTyped
<1>3. Moves(s, l, j)
  BY <1>1 DEF Moves, Goto, workspace
<1>4. WorkTyped'
  BY WorkTypedKept DEF Workspace
<1> QED
  BY <1>3, <1>4, WorkspaceMoves, Zenon

LEMMA ProposeKeeps ==
  ASSUME Workspace, NEW s \in Sessions, NEW p \in Proposals, NEW c \in 1 .. MaxFragment, Propose(s, p, c)
  PROVE  Workspace'
<1>1. PICK j : j = [NoJob EXCEPT !.cmd = "propose", !.payload = p, !.candidate = c]
  OBVIOUS
<1>2. /\ j = [x \in JobFields |-> j[x]] /\ j.cmd = "propose" /\ j.payload = p /\ j.candidate = c
      /\ j.names = {} /\ j.path = 0
  BY <1>1 DEF NoJob, JobFields
<1>3. SessionOK("reserve", j, DOMAIN frag, mark) /\ Touches(j) \subseteq {0}
  BY <1>2, StepsDiffer DEF SessionOK, Touches, Steps, Assembles, Compiles, Collects
<1>4. "reserve" \in Steps /\ "reserve" # "park"
  BY DEF Steps
<1>5. UNCHANGED workspace /\ Goto(s, "reserve") /\ job' = [job EXCEPT ![s] = j]
  BY <1>1 DEF Propose
<1> QED
  BY <1>2, <1>3, <1>4, <1>5, Begins

LEMMA AssembleKeeps ==
  ASSUME Workspace, NEW s \in Sessions, Assemble(s)
  PROVE  Workspace'
<1>1. PICK j : j = [NoJob EXCEPT !.cmd = "assemble", !.names = DOMAIN frag]
  OBVIOUS
<1>2. j = [x \in JobFields |-> j[x]] /\ j.cmd = "assemble" /\ j.names = DOMAIN frag /\ j.path = 0
  BY <1>1 DEF NoJob, JobFields
<1>3. Touches(j) \subseteq DOMAIN frag \cup {0} /\ Touches(j) \subseteq 0 .. mark
  BY <1>2, PlanAssumption DEF Touches, Workspace, WorkTyped
<1>4. UNCHANGED workspace /\ Goto(s, "merge") /\ job' = [job EXCEPT ![s] = j]
  BY <1>1 DEF Assemble
<1>5. SessionOK("merge", j, DOMAIN frag, mark)
  BY <1>2, <1>3 DEF Assemble, SessionOK, Steps, Compiles, Collects
<1>6. "merge" \in Steps /\ "merge" # "park"
  BY DEF Steps
<1> QED
  BY <1>2, <1>3, <1>5, <1>6, <1>4, Begins

LEMMA CompileLoadKeeps ==
  ASSUME Workspace, NEW s \in Sessions, CompileLoad(s)
  PROVE  Workspace'
<1>1. PICK j : j = [NoJob EXCEPT !.cmd = "compile", !.base = ThisGraph, !.knew = restructured]
  OBVIOUS
<1>2. j = [x \in JobFields |-> j[x]] /\ j.cmd = "compile" /\ j.names = {} /\ j.path = 0
  BY <1>1 DEF NoJob, JobFields
<1>3. Touches(j) \subseteq DOMAIN frag \cup {0} /\ Touches(j) \subseteq 0 .. mark
  BY <1>2, PlanAssumption DEF Touches, Workspace, WorkTyped
<1>4. SessionOK("select", j, DOMAIN frag, mark)
  BY <1>2, <1>3 DEF SessionOK, Steps, Assembles, Collects
<1>5. "select" \in Steps /\ "select" # "park"
  BY DEF Steps
<1>6. UNCHANGED workspace /\ Goto(s, "select") /\ job' = [job EXCEPT ![s] = j]
  BY <1>1 DEF CompileLoad
<1> QED
  BY <1>2, <1>3, <1>4, <1>5, <1>6, Begins

LEMMA GCKeeps ==
  ASSUME Workspace, NEW s \in Sessions, GC(s)
  PROVE  Workspace'
<1> DEFINE all == DOMAIN frag \cup (IF assembled # None THEN {0} ELSE {})
<1>1. PICK j : j = [NoJob EXCEPT !.cmd = "gc", !.payload = order, !.names = all]
  OBVIOUS
<1>2. j = [x \in JobFields |-> j[x]] /\ j.cmd = "gc" /\ j.names = all /\ j.path = 0
  BY <1>1 DEF NoJob, JobFields
<1>3. Touches(j) \subseteq DOMAIN frag \cup {0} /\ Touches(j) \subseteq 0 .. mark
  BY <1>2, PlanAssumption DEF Touches, Workspace, WorkTyped
<1>4. SessionOK("gc", j, DOMAIN frag, mark)
  BY <1>2, <1>3 DEF SessionOK, Steps, Assembles, Compiles
<1>5. "gc" \in Steps /\ "gc" # "park"
  BY DEF Steps
<1>6. UNCHANGED workspace /\ Goto(s, "gc") /\ job' = [job EXCEPT ![s] = j]
  BY <1>1 DEF GC
<1> QED
  BY <1>2, <1>3, <1>4, <1>5, <1>6, Begins

\* A command that goes on.
LEMMA Continues ==
  ASSUME Workspace, NEW s \in Sessions, NEW l, NEW j,
         pc[s] # "idle", j.cmd = job[s].cmd, l # "park",
         pc' = [pc EXCEPT ![s] = l], job' = [job EXCEPT ![s] = j],
         DOMAIN frag' \subseteq DOMAIN frag, mark' = mark, WorkTyped',
         SessionOK(l, j, DOMAIN frag', mark),
         l \in Consumers => \A f \in Touches(j) :
           f \in DOMAIN frag \cup {0} \/ (pc[s] \in Consumers /\ f \in Touches(job[s]))
  PROVE  Workspace'
<1>1. mark \in Nat
  BY PlanAssumption DEF Workspace, WorkTyped
<1>2. Moves(s, l, j)
  BY <1>1 DEF Moves
<1> QED
  BY <1>2, WorkspaceMoves, Zenon

\* A command that ends.
LEMMA Ends ==
  ASSUME Workspace, NEW s \in Sessions, Finish(s),
         \A f \in DOMAIN frag' : f \in DOMAIN frag \/ (pc[s] = "park" /\ f = job[s].path),
         mark' = mark, WorkTyped'
  PROVE  Workspace'
<1>1. mark \in Nat
  BY PlanAssumption DEF Workspace, WorkTyped
<1>2. PICK l, j : l = "idle" /\ j = NoJob
  OBVIOUS
<1>3. SessionOK(l, j, DOMAIN frag', mark')
  BY <1>2, StepsDiffer DEF SessionOK, NoJob, JobFields, Steps, Assembles, Compiles, Collects
<1>4. l # "park" /\ l \notin Consumers
  BY <1>2, StepsDiffer
<1>5. Moves(s, l, j)
  BY <1>1, <1>2, <1>3, <1>4 DEF Moves, Finish, Goto
<1> QED
  BY <1>5, WorkspaceMoves, Zenon

LEMMA ReserveReadKeeps ==
  ASSUME Workspace, NEW s \in Sessions, ReserveRead(s)
  PROVE  Workspace'
<1>1. /\ SessionOK(pc[s], job[s], DOMAIN frag, mark) /\ mark \in Nat /\ DOMAIN frag \subseteq 1 .. mark
      /\ pc[s] = "reserve" /\ MaxFragment \in Nat
  BY PlanAssumption DEF Workspace, WorkTyped, SessionsOK, ReserveRead
<1>2. PICK next : next = NextFragment(job[s].candidate, mark, DOMAIN frag)
  OBVIOUS
<1>3. job[s].candidate \in Nat /\ job[s] = [x \in JobFields |-> job[s][x]]
  BY <1>1 DEF SessionOK
<1>4. next \in Nat /\ next > mark /\ next <= MaxFragment
  BY <1>1, <1>2, <1>3, NextIsNew DEF ReserveRead
<1>5. PICK j : j = [job[s] EXCEPT !.path = next, !.mark = mark]
  OBVIOUS
<1>6. /\ j = [x \in JobFields |-> j[x]] /\ j.path = next /\ j.mark = mark
      /\ j.cmd = job[s].cmd /\ j.payload = job[s].payload /\ j.candidate = job[s].candidate
  BY <1>3, <1>5 DEF JobFields
<1>7. job' = [job EXCEPT ![s] = j] /\ pc' = [pc EXCEPT ![s] = "reserved"] /\ UNCHANGED workspace
  BY <1>2, <1>5 DEF ReserveRead, Goto, Workspace, SessionsOK
<1>8. SessionOK("reserved", j, DOMAIN frag, mark)
  BY <1>1, <1>4, <1>6, StepsDiffer DEF SessionOK, Steps, Assembles, Compiles, Collects
<1>9. WorkTyped'
  BY <1>7, WorkTypedKept DEF Workspace
<1>10. frag' = frag /\ mark' = mark /\ "reserved" \notin Consumers /\ "reserved" # "park"
  BY <1>7, StepsDiffer DEF workspace
<1> QED
  BY <1>1, <1>6, <1>7, <1>8, <1>9, <1>10, Continues

LEMMA ReserveWriteKeeps ==
  ASSUME Workspace, NEW s \in Sessions, ReserveWrite(s)
  PROVE  Workspace'
<1>1. /\ SessionOK(pc[s], job[s], DOMAIN frag, mark) /\ mark \in Nat /\ DOMAIN frag \subseteq 1 .. mark
      /\ pc[s] = "reserved" /\ MaxFragment \in Nat /\ frag' = frag /\ assembled' = assembled
      /\ job = [t \in Sessions |-> job[t]]
  BY PlanAssumption DEF Workspace, WorkTyped, SessionsOK, ReserveWrite
<1>2. PICK j : j = job[s]
  OBVIOUS
<1>3. /\ j = [x \in JobFields |-> j[x]] /\ j.path \in 1 .. MaxFragment /\ j.mark \in Nat /\ j.mark < j.path
      /\ j.cmd = "propose" /\ j.payload \in Proposals /\ j.candidate \in 1 .. MaxFragment
  BY <1>1, <1>2 DEF SessionOK
<1>4. CASE MarkExpected(s)
  <2>1. mark' = j.path /\ mark < j.path /\ pc' = [pc EXCEPT ![s] = "park"] /\ job' = [job EXCEPT ![s] = j]
    BY <1>1, <1>2, <1>3, <1>4 DEF ReserveWrite, MarkExpected, Goto
  <2>2. SessionOK("park", j, DOMAIN frag', mark')
    BY <1>1, <1>3, <2>1, StepsDiffer DEF SessionOK, Steps, Assembles, Compiles, Collects
  <2>3. PICK l : l = "park"
    OBVIOUS
  <2>4. Moves(s, l, j)
    <3>1. SessionOK(l, j, DOMAIN frag', mark') /\ l \notin Consumers
      BY <2>2, <2>3, StepsDiffer
    <3>2. mark' \in Nat /\ mark <= mark' /\ j.path > mark
      BY <1>1, <1>3, <2>1
    <3>3. /\ pc' = [pc EXCEPT ![s] = l] /\ job' = [job EXCEPT ![s] = j] /\ frag' = frag
          /\ pc[s] # "idle" /\ j.cmd = job[s].cmd
      BY <1>1, <1>2, <2>1, <2>3
    <3> QED
      BY <3>1, <3>2, <3>3 DEF Moves
  <2>5. WorkTyped'
    BY <1>1, <1>3, <2>1 DEF Workspace, WorkTyped
  <2> QED
    BY <2>4, <2>5, WorkspaceMoves, Zenon
<1>5. CASE ~MarkExpected(s)
  <2>1. mark' = mark /\ UNCHANGED workspace
    BY <1>1, <1>5 DEF ReserveWrite, workspace
  <2>2. WorkTyped'
    BY <2>1, WorkTypedKept DEF Workspace
  <2>3. CASE Finish(s)
    BY <1>1, <2>1, <2>2, <2>3, Ends
  <2>4. CASE Goto(s, "reserve") /\ job' = [job EXCEPT ![s].tries = @ + 1]
    <3>1. PICK k : k = [j EXCEPT !.tries = @ + 1]
      OBVIOUS
    <3>2. /\ k = [x \in JobFields |-> k[x]] /\ k.cmd = j.cmd /\ k.payload = j.payload
          /\ k.candidate = j.candidate
      BY <1>3, <3>1 DEF JobFields
    <3>3. job' = [job EXCEPT ![s] = k] /\ pc' = [pc EXCEPT ![s] = "reserve"]
      BY <1>1, <1>2, <2>4, <3>1 DEF Goto
    <3>4. SessionOK("reserve", k, DOMAIN frag', mark)
      BY <1>3, <3>2, StepsDiffer DEF SessionOK, Steps, Assembles, Compiles, Collects
    <3>5. "reserve" \notin Consumers /\ "reserve" # "park" /\ k.cmd = job[s].cmd
      BY <1>2, <3>2, StepsDiffer
    <3> QED
      BY <1>1, <2>1, <2>2, <3>3, <3>4, <3>5, Continues
  <2> QED
    BY <1>5, <2>3, <2>4 DEF ReserveWrite
<1> QED
  BY <1>4, <1>5

LEMMA ParkKeeps ==
  ASSUME Workspace, NEW s \in Sessions, Park(s)
  PROVE  Workspace'
<1>1. /\ SessionOK(pc[s], job[s], DOMAIN frag, mark) /\ mark \in Nat /\ pc[s] = "park"
  BY PlanAssumption DEF Workspace, WorkTyped, SessionsOK, Park
<1>2. PICK path, p : path = job[s].path /\ p = job[s].payload
  OBVIOUS
<1>3. path \in 1 .. mark /\ path \notin DOMAIN frag /\ p \in Proposals
  BY <1>1, <1>2 DEF SessionOK
<1>4. frag' = [f \in DOMAIN frag \cup {path} |-> IF f = path THEN p ELSE frag[f]]
  BY <1>2 DEF Park, With
<1>5. Finish(s) /\ mark' = mark /\ assembled' = assembled
  BY DEF Park
<1>6. WorkTyped'
  BY <1>3, <1>4, <1>5 DEF Workspace, WorkTyped
<1> QED
  BY <1>1, <1>2, <1>4, <1>5, <1>6, Ends

LEMMA StagedCounted ==
  ASSUME WorkTyped, NEW fs \in SUBSET DOMAIN frag, fs # {}, MergedFragments(fs) # None
  PROVE  /\ Counted(MergedFragments(fs))
         /\ \A f \in fs : Declared(frag[f]) \subseteq Declared(MergedFragments(fs))
<1>1. MergedFragments(fs) = StagedNodes(fs) /\ Cardinality(Declared(StagedNodes(fs))) = Len(StagedNodes(fs))
  BY DEF MergedFragments
<1>2. \A f \in fs : frag[f] \in Stageable /\ frag[f] \in Proposals /\ WellFormed(frag[f])
  BY ProposalsAreStageable DEF WorkTyped
<1>3. fs \in SUBSET (1 .. MaxFragment)
  BY PlanAssumption DEF WorkTyped
<1>4. /\ StagedNodes(fs) \in Seq(Items)
      /\ \A f \in fs : Declared(frag[f]) \subseteq Declared(StagedNodes(fs))
  BY <1>2, <1>3, AllAreMerged
<1>5. StagedNodes(fs) # <<>>
  <2>1. PICK f \in fs : TRUE
    OBVIOUS
  <2>2. Declared(frag[f]) # {}
    BY <1>2, PayloadIndexes
  <2>3. Declared(StagedNodes(fs)) # {}
    BY <1>4, <2>2
  <2> QED
    BY <2>3, NoIds
<1> QED
  BY <1>1, <1>4, <1>5 DEF Counted, Stageable

LEMMA AssembleMergeKeeps ==
  ASSUME Workspace, NEW s \in Sessions, AssembleMerge(s)
  PROVE  Workspace'
<1>1. /\ SessionOK(pc[s], job[s], DOMAIN frag, mark) /\ pc[s] = "merge"
      /\ job = [t \in Sessions |-> job[t]]
  BY DEF Workspace, SessionsOK, AssembleMerge
<1>2. PICK m : m = MergedFragments(job[s].names)
  OBVIOUS
<1>3. PICK j : j = [job[s] EXCEPT !.payload = m]
  OBVIOUS
<1>4. CASE job[s].names \subseteq DOMAIN frag /\ m # None
  <2>1. /\ job' = [job EXCEPT ![s] = j] /\ pc' = [pc EXCEPT ![s] = "assemble"] /\ UNCHANGED workspace
    BY <1>1, <1>2, <1>3, <1>4 DEF AssembleMerge, Goto
  <2>2. /\ j = [x \in JobFields |-> j[x]] /\ j.payload = m /\ j.cmd = job[s].cmd
        /\ j.names = job[s].names /\ j.path = job[s].path
    BY <1>1, <1>3 DEF SessionOK, JobFields
  <2>3. Counted(m)
    BY <1>1, <1>2, <1>4, StagedCounted DEF SessionOK, Workspace
  <2>4. Touches(j) = Touches(job[s]) /\ pc[s] \in Consumers
    BY <1>1, <2>2, StepsDiffer DEF Touches
  <2>5. SessionOK("assemble", j, DOMAIN frag, mark)
    BY <1>1, <2>2, <2>3, <2>4 DEF SessionOK, Steps, Assembles, Compiles, Collects
  <2>6. WorkTyped'
    BY <2>1, WorkTypedKept DEF Workspace
  <2>7. frag' = frag /\ mark' = mark /\ "assemble" # "park" /\ pc[s] # "idle"
    BY <1>1, <2>1 DEF workspace
  <2> QED
    BY <2>1, <2>2, <2>4, <2>5, <2>6, <2>7, Continues
<1>5. CASE ~(job[s].names \subseteq DOMAIN frag /\ m # None)
  BY <1>2, <1>5, RefuseKeeps DEF AssembleMerge, Workspace
<1> QED
  BY <1>4, <1>5

LEMMA AssembleWriteKeeps ==
  ASSUME Workspace, NEW s \in Sessions, AssembleWrite(s)
  PROVE  Workspace'
<1>1. /\ SessionOK(pc[s], job[s], DOMAIN frag, mark) /\ pc[s] = "assemble"
      /\ job = [t \in Sessions |-> job[t]] /\ job' = job /\ frag' = frag /\ mark' = mark
      /\ assembled' = job[s].payload
  BY DEF Workspace, SessionsOK, AssembleWrite
<1>2. PICK j : j = job[s]
  OBVIOUS
<1>3. job' = [job EXCEPT ![s] = j] /\ pc' = [pc EXCEPT ![s] = "consume"] /\ j.cmd = job[s].cmd
  BY <1>1, <1>2 DEF AssembleWrite, Goto
<1>4. Touches(j) = Touches(job[s]) /\ pc[s] \in Consumers
  BY <1>1, <1>2, StepsDiffer
<1>5. SessionOK("consume", j, DOMAIN frag, mark) /\ Counted(j.payload)
  BY <1>1, <1>2, <1>4 DEF SessionOK, Steps, Assembles, Compiles, Collects
<1>6. WorkTyped'
  BY <1>1, <1>2, <1>5 DEF Workspace, WorkTyped
<1>7. "consume" # "park" /\ pc[s] # "idle"
  BY <1>1
<1> QED
  BY <1>1, <1>3, <1>4, <1>5, <1>6, <1>7, Continues

LEMMA Removed ==
  ASSUME WorkTyped, NEW f, frag' = Without(frag, f), mark' = mark,
         assembled' = assembled \/ assembled' = None
  PROVE  WorkTyped' /\ DOMAIN frag' = DOMAIN frag \ {f} /\ \A g \in DOMAIN frag' : frag'[g] = frag[g]
BY DEF WorkTyped, Without

LEMMA AssembleConsumeKeeps ==
  ASSUME Workspace, NEW s \in Sessions, AssembleConsume(s)
  PROVE  Workspace'
<1>1. /\ SessionOK(pc[s], job[s], DOMAIN frag, mark) /\ pc[s] = "consume"
      /\ job = [t \in Sessions |-> job[t]] /\ pc = [t \in Sessions |-> pc[t]]
  BY DEF Workspace, SessionsOK, AssembleConsume
<1>2. PICK f : f = Min(job[s].names)
  OBVIOUS
<1>3. CASE job[s].names = {} \/ f \notin DOMAIN frag
  BY <1>2, <1>3, RefuseKeeps DEF AssembleConsume, Workspace
<1>4. CASE ~(job[s].names = {} \/ f \notin DOMAIN frag)
  <2>1. PICK j : j = [job[s] EXCEPT !.names = @ \ {f}]
    OBVIOUS
  <2>2. /\ frag' = Without(frag, f) /\ job' = [job EXCEPT ![s] = j] /\ pc' = [pc EXCEPT ![s] = "consume"]
        /\ mark' = mark /\ assembled' = assembled
    BY <1>1, <1>2, <1>4, <2>1 DEF AssembleConsume
  <2>3. /\ j = [x \in JobFields |-> j[x]] /\ j.payload = job[s].payload /\ j.cmd = job[s].cmd
        /\ j.names = job[s].names \ {f} /\ j.path = job[s].path
    BY <1>1, <2>1 DEF SessionOK, JobFields
  <2>4. WorkTyped' /\ DOMAIN frag' \subseteq DOMAIN frag
    BY <2>2, Removed DEF Workspace
  <2>5. Touches(j) \subseteq Touches(job[s]) /\ pc[s] \in Consumers
    BY <1>1, <2>3, StepsDiffer DEF Touches
  <2>6. SessionOK("consume", j, DOMAIN frag', mark)
    BY <1>1, <2>3, <2>5 DEF SessionOK, Steps, Assembles, Compiles, Collects
  <2>7. "consume" # "park" /\ pc[s] # "idle"
    BY <1>1
  <2> QED
    BY <2>2, <2>3, <2>4, <2>5, <2>6, <2>7, Continues
<1> QED
  BY <1>3, <1>4

\* What compile selects is staged.
LEMMA SelectedIsStaged ==
  ASSUME WorkTyped, NEW path \in Selected
  PROVE  Payload(path) \in Stageable /\ Present(path) /\ path \in DOMAIN frag \cup {0}
<1>1. CASE assembled # None
  BY <1>1 DEF Selected, Payload, Present, WorkTyped, Counted
<1>2. CASE assembled = None
  <2>1. path \in DOMAIN frag
    BY <1>2 DEF Selected
  <2>2. path # 0 /\ frag[path] \in Stageable
    BY <2>1, ProposalsAreStageable, PlanAssumption DEF WorkTyped
  <2> QED
    BY <2>1, <2>2 DEF Payload, Present
<1> QED
  BY <1>1, <1>2

LEMMA CompileKeeps ==
  ASSUME Workspace, NEW s \in Sessions, Compile(s)
  PROVE  Workspace'
<1>1. /\ SessionOK(pc[s], job[s], DOMAIN frag, mark) /\ pc[s] = "select"
      /\ job = [t \in Sessions |-> job[t]] /\ WorkTyped
      /\ DOMAIN frag \cup {0} \subseteq 0 .. mark
  BY PlanAssumption DEF Workspace, WorkTyped, SessionsOK, Compile
<1>2. PICK chosen : chosen = {path \in Selected : Acceptable(job[s].base, Payload(path))}
  OBVIOUS
<1>3. CASE chosen = {}
  BY <1>2, <1>3, RefuseKeeps DEF Compile, Workspace
<1>4. CASE chosen # {}
  <2>1. PICK path : path = CHOOSE x \in chosen : TRUE
    OBVIOUS
  <2>2. path \in Selected
    BY <1>2, <1>4, <2>1
  <2>3. Payload(path) \in Stageable /\ path \in DOMAIN frag \cup {0}
    BY <1>1, <2>2, SelectedIsStaged
  <2>4. PICK j : j = [job[s] EXCEPT !.path = path, !.payload = Payload(path), !.base = None]
    OBVIOUS
  <2>5. /\ job' = [job EXCEPT ![s] = j] /\ pc' = [pc EXCEPT ![s] = "append"] /\ UNCHANGED workspace
    BY <1>1, <1>2, <1>4, <2>1, <2>4 DEF Compile, Goto
  <2>6. /\ j = [x \in JobFields |-> j[x]] /\ j.cmd = job[s].cmd /\ j.payload = Payload(path)
        /\ j.path = path /\ j.names = job[s].names
    BY <1>1, <2>4 DEF SessionOK, JobFields
  <2>7. WorkTyped' /\ frag' = frag /\ mark' = mark
    BY <1>1, <2>5, WorkTypedKept DEF workspace
  <2>8. job[s].cmd = "compile" /\ job[s].names \subseteq 0 .. mark /\ pc[s] \in Consumers
    BY <1>1, StepsDiffer DEF SessionOK, Touches, Compiles
  <2>9. SessionOK("append", j, DOMAIN frag, mark)
    BY <1>1, <2>3, <2>6, <2>8 DEF SessionOK, Steps, Assembles, Collects, Touches
  <2>10. \A f \in Touches(j) : f \in DOMAIN frag \cup {0} \/ f \in Touches(job[s])
    BY <2>3, <2>6 DEF Touches
  <2>11. pc[s] # "idle" /\ "append" # "park"
    BY <1>1
  <2> QED
    BY <2>5, <2>6, <2>7, <2>8, <2>9, <2>10, <2>11, Continues
<1> QED
  BY <1>3, <1>4

LEMMA RemovePayloadKeeps ==
  ASSUME WorkTyped, NEW path, NEW read, RemovePayload(path, read), mark' = mark
  PROVE  WorkTyped' /\ DOMAIN frag' \subseteq DOMAIN frag
<1>1. CASE path = 0
  BY <1>1 DEF RemovePayload, WorkTyped
<1>2. CASE path # 0
  BY <1>2, Removed DEF RemovePayload
<1> QED
  BY <1>1, <1>2

LEMMA CompileConsumeKeeps ==
  ASSUME Workspace, NEW s \in Sessions, CompileConsume(s)
  PROVE  Workspace'
<1>1. CASE Present(job[s].path)
  <2>1. RemovePayload(job[s].path, Declared(job[s].payload)) /\ Finish(s) /\ mark' = mark
    BY <1>1 DEF CompileConsume
  <2> QED
    BY <2>1, RemovePayloadKeeps, Ends DEF Workspace
<1>2. CASE ~Present(job[s].path)
  BY <1>2, RefuseKeeps DEF CompileConsume, Workspace
<1> QED
  BY <1>1, <1>2

LEMMA CompileAppendKeeps ==
  ASSUME Workspace, NEW s \in Sessions, CompileAppend(s)
  PROVE  Workspace'
<1>1. CASE AllNew(job[s].payload)
  <2>1. /\ SessionOK(pc[s], job[s], DOMAIN frag, mark) /\ pc[s] = "append"
        /\ job = [t \in Sessions |-> job[t]] /\ job' = job /\ WorkTyped
        /\ UNCHANGED workspace /\ frag' = frag /\ mark' = mark
    BY <1>1 DEF Workspace, SessionsOK, CompileAppend, workspace
  <2>2. PICK j : j = job[s]
    OBVIOUS
  <2>3. job' = [job EXCEPT ![s] = j] /\ pc' = [pc EXCEPT ![s] = "remove"] /\ j.cmd = job[s].cmd
    BY <1>1, <2>1, <2>2 DEF CompileAppend, Goto
  <2>4. Touches(j) = Touches(job[s]) /\ pc[s] \in Consumers
    BY <2>1, <2>2, StepsDiffer
  <2>5. SessionOK("remove", j, DOMAIN frag, mark)
    BY <2>1, <2>2, <2>4 DEF SessionOK, Steps, Assembles, Compiles, Collects
  <2>6. WorkTyped' /\ "remove" # "park" /\ pc[s] # "idle"
    BY <2>1, WorkTypedKept
  <2> QED
    BY <2>1, <2>3, <2>4, <2>5, <2>6, Continues
<1>2. CASE ~AllNew(job[s].payload)
  BY <1>2, RefuseKeeps DEF CompileAppend, Workspace
<1> QED
  BY <1>1, <1>2

\* What gc looks at next.
GCPath(names) == IF names = {0} THEN 0 ELSE Min(names \ {0})

LEMMA GCPathIsIn ==
  ASSUME NEW names, names \subseteq 0 .. mark, mark \in Nat, names # {}
  PROVE  GCPath(names) \in names
<1>1. CASE names = {0}
  BY <1>1 DEF GCPath
<1>2. CASE names # {0}
  <2> DEFINE S == names \ {0}
  <2>1. S \in SUBSET Nat /\ S # {}
    BY <1>2
  <2> HIDE DEF S
  <2>2. Min(S) \in S
    BY <2>1, MinIsIn
  <2> QED
    BY <1>2, <2>2 DEF GCPath, S
<1> QED
  BY <1>1, <1>2

\* What gc keeps of the payload at the path: its nodes, when it is stale.
\* gc read the payload at the path, and goes to l with the nodes seen there.
GCLooks(s, path, l, seen) ==
  /\ pc' = [pc EXCEPT ![s] = l] /\ UNCHANGED <<graphFile, workspace, bounds, history>>
  /\ job' = [job EXCEPT ![s] = [job[s] EXCEPT !.names = @ \ {path}, !.path = path, !.read = seen]]
  /\ l = "gcremove" => /\ Present(path) /\ seen = Declared(Payload(path))
                      /\ Stale(Payload(path), job[s].payload)

LEMMA GCReads ==
  ASSUME NEW s \in Sessions, GCRead(s), job[s].names # {}, SessionsOK,
         NEW path, path = GCPath(job[s].names)
  PROVE  \E l \in {"gc", "gcremove"} : \E seen : GCLooks(s, path, l, seen)
<1>1. /\ pc = [t \in Sessions |-> pc[t]] /\ job = [t \in Sessions |-> job[t]] /\ pc[s] = "gc"
      /\ UNCHANGED <<graphFile, workspace, bounds, history>>
  BY DEF SessionsOK, GCRead
<1>2. CASE Present(path) /\ Stale(Payload(path), job[s].payload)
  <2>1. /\ job' = [job EXCEPT ![s].names = @ \ {path}, ![s].path = path, ![s].read = Declared(Payload(path))]
        /\ Goto(s, "gcremove")
    BY <1>2 DEF GCRead, GCPath
  <2> QED
    BY <1>1, <1>2, <2>1 DEF Goto, GCLooks
<1>3. CASE ~(Present(path) /\ Stale(Payload(path), job[s].payload))
  <2>1. /\ job' = [job EXCEPT ![s].names = @ \ {path}, ![s].path = path, ![s].read = {}]
        /\ pc' = pc
    BY <1>3 DEF GCRead, GCPath
  <2>2. pc' = [pc EXCEPT ![s] = "gc"]
    BY <1>1, <2>1
  <2> QED
    BY <1>1, <2>1, <2>2 DEF GCLooks
<1> QED
  BY <1>2, <1>3

LEMMA GCReadKeeps ==
  ASSUME Workspace, NEW s \in Sessions, GCRead(s)
  PROVE  Workspace'
<1>1. /\ SessionOK(pc[s], job[s], DOMAIN frag, mark) /\ pc[s] = "gc"
      /\ job = [t \in Sessions |-> job[t]] /\ WorkTyped /\ mark \in Nat
  BY PlanAssumption DEF Workspace, WorkTyped, SessionsOK, GCRead
<1>2. CASE job[s].names = {}
  BY <1>2, RefuseKeeps DEF GCRead, Workspace
<1>3. CASE job[s].names # {}
  <2>1. PICK path : path = GCPath(job[s].names)
    OBVIOUS
  <2>2. job[s].names \subseteq 0 .. mark
    BY <1>1, StepsDiffer DEF SessionOK, Touches
  <2>3. path \in job[s].names
    BY <1>1, <1>3, <2>1, <2>2, GCPathIsIn
  <2>4. PICK l \in {"gc", "gcremove"} : \E seen : GCLooks(s, path, l, seen)
    BY <1>3, <2>1, GCReads DEF Workspace
  <2>5. PICK seen :
          /\ UNCHANGED workspace /\ pc' = [pc EXCEPT ![s] = l]
          /\ job' = [job EXCEPT ![s] = [job[s] EXCEPT !.names = @ \ {path}, !.path = path, !.read = seen]]
    BY <2>4 DEF GCLooks
  <2>6. PICK j : j = [job[s] EXCEPT !.names = @ \ {path}, !.path = path, !.read = seen]
    OBVIOUS
  <2>7. /\ j = [x \in JobFields |-> j[x]] /\ j.cmd = job[s].cmd /\ j.path = path
        /\ j.names = job[s].names \ {path}
    BY <1>1, <2>6 DEF SessionOK, JobFields
  <2>8. Touches(j) \subseteq Touches(job[s]) /\ Touches(j) \subseteq 0 .. mark /\ pc[s] \in Consumers
    BY <1>1, <2>2, <2>3, <2>7, StepsDiffer DEF Touches
  <2>9. job[s].cmd = "gc"
    BY <1>1 DEF SessionOK, Collects
  <2>10. SessionOK(l, j, DOMAIN frag, mark)
    BY <2>4, <2>7, <2>8, <2>9 DEF SessionOK, Steps, Assembles, Compiles
  <2>11. WorkTyped' /\ frag' = frag /\ mark' = mark /\ l # "park" /\ pc[s] # "idle"
    BY <1>1, <2>5, WorkTypedKept DEF workspace
  <2>12. job' = [job EXCEPT ![s] = j]
    BY <2>6, <2>5
  <2> QED
    BY <2>7, <2>8, <2>10, <2>11, <2>12, <2>5, Continues
<1> QED
  BY <1>2, <1>3

LEMMA GCRemoveKeeps ==
  ASSUME Workspace, NEW s \in Sessions, GCRemove(s)
  PROVE  Workspace'
<1>1. CASE Present(job[s].path)
  <2>1. /\ SessionOK(pc[s], job[s], DOMAIN frag, mark) /\ pc[s] = "gcremove"
        /\ job = [t \in Sessions |-> job[t]] /\ job' = job /\ WorkTyped /\ mark' = mark
        /\ RemovePayload(job[s].path, job[s].read) /\ pc' = [pc EXCEPT ![s] = "gc"]
    BY <1>1 DEF Workspace, SessionsOK, GCRemove, Goto
  <2>2. PICK j : j = job[s]
    OBVIOUS
  <2>3. job' = [job EXCEPT ![s] = j] /\ j.cmd = job[s].cmd
    BY <2>1, <2>2
  <2>4. Touches(j) = Touches(job[s]) /\ pc[s] \in Consumers
    BY <2>1, <2>2, StepsDiffer
  <2>5. WorkTyped' /\ DOMAIN frag' \subseteq DOMAIN frag /\ "gc" # "park" /\ pc[s] # "idle"
    BY <2>1, RemovePayloadKeeps
  <2>6. SessionOK("gc", j, DOMAIN frag', mark)
    BY <2>1, <2>2, <2>4 DEF SessionOK, Steps, Assembles, Compiles, Collects
  <2> QED
    BY <2>1, <2>3, <2>4, <2>5, <2>6, Continues
<1>2. CASE ~Present(job[s].path)
  BY <1>2, RefuseKeeps DEF GCRemove, Workspace
<1> QED
  BY <1>1, <1>2

LEMMA WorkspaceUnread ==
  Workspace /\ UNCHANGED <<workspace, pc, job>> => Workspace'
<1> SUFFICES ASSUME Workspace, UNCHANGED <<workspace, pc, job>> PROVE Workspace'
  OBVIOUS
<1>1. frag' = frag /\ mark' = mark /\ assembled' = assembled /\ pc' = pc /\ job' = job
  BY DEF workspace
<1>2. WorkTyped'
  BY WorkTypedKept DEF Workspace
<1>3. SessionsOK'
  BY <1>1 DEF Workspace, SessionsOK
<1> QED
  BY <1>2, <1>3 DEF Workspace

THEOREM WorkspaceInit == Init => Workspace
<1> SUFFICES ASSUME Init PROVE Workspace
  OBVIOUS
<1>1. WorkTyped
  BY PlanAssumption DEF Init, WorkTyped
<1>2. \A s \in Sessions : pc[s] = "idle" /\ job[s] = NoJob
  BY DEF Init
<1>3. SessionOK("idle", NoJob, DOMAIN frag, mark)
  BY StepsDiffer DEF SessionOK, NoJob, JobFields, Steps, Assembles, Compiles, Collects
<1>4. Apart("idle", NoJob, "idle", NoJob)
  BY StepsDiffer DEF Apart
<1>5. pc = [s \in Sessions |-> pc[s]] /\ job = [s \in Sessions |-> job[s]]
  BY DEF Init
<1> QED
  BY <1>1, <1>2, <1>3, <1>4, <1>5 DEF Workspace, SessionsOK

THEOREM WorkspaceStep == Workspace /\ [Next]_vars => Workspace'
<1> SUFFICES ASSUME Workspace, [Next]_vars PROVE Workspace'
  OBVIOUS
<1>1. CASE UNCHANGED vars
  BY <1>1, WorkspaceUnread DEF vars, workspace
<1>2. ASSUME NEW n \in DOMAIN node, Observe(n) PROVE Workspace'
  BY <1>2, WorkspaceUnread DEF Observe
<1>3. ASSUME NEW s \in Sessions, Killed(s) PROVE Workspace'
  <2>1. Finish(s) /\ UNCHANGED workspace /\ frag' = frag /\ mark' = mark
    BY <1>3 DEF Killed, workspace
  <2>2. WorkTyped'
    BY <2>1, WorkTypedKept DEF Workspace
  <2> QED
    BY <2>1, <2>2, Ends
<1>4. ASSUME NEW s \in Sessions, Step(s) PROVE Workspace'
  <2>1. ASSUME NEW p \in Proposals, NEW c \in 1 .. MaxFragment, Propose(s, p, c) PROVE Workspace'
    BY <2>1, ProposeKeeps
  <2>2. ASSUME NEW n \in DOMAIN Splits, NEW p \in Splits[n], Split(s, n, p) PROVE Workspace'
    BY <2>2, WorkspaceUnread DEF Split
  <2>3. ASSUME NEW id \in DOMAIN Records, Retire(s, id) PROVE Workspace'
    BY <2>3, WorkspaceUnread DEF Retire
  <2>4. ASSUME NEW id \in DOMAIN Records, NEW r \in Records[id], RetireWithSource(s, id, r) PROVE Workspace'
    BY <2>4, WorkspaceUnread DEF RetireWithSource
  <2>5. ReserveRead(s) \/ ReserveWrite(s) \/ Park(s) => Workspace'
    BY ReserveReadKeeps, ReserveWriteKeeps, ParkKeeps
  <2>6. Assemble(s) \/ AssembleMerge(s) \/ AssembleWrite(s) \/ AssembleConsume(s) => Workspace'
    BY AssembleKeeps, AssembleMergeKeeps, AssembleWriteKeeps, AssembleConsumeKeeps
  <2>7. CompileLoad(s) \/ Compile(s) \/ CompileAppend(s) \/ CompileConsume(s) => Workspace'
    BY CompileLoadKeeps, CompileKeeps, CompileAppendKeeps, CompileConsumeKeeps
  <2>8. GC(s) \/ GCRead(s) \/ GCRemove(s) => Workspace'
    BY GCKeeps, GCReadKeeps, GCRemoveKeeps
  <2> QED
    BY <1>4, <2>1, <2>2, <2>3, <2>4, <2>5, <2>6, <2>7, <2>8 DEF Step,
      ProposeCommand, AssembleCommand, CompileCommand, SplitCommand, RetireCommand
<1> QED
  BY <1>1, <1>2, <1>3, <1>4 DEF Next

THEOREM WorkspaceSound == Spec => []Workspace
BY WorkspaceInit, WorkspaceStep, PTL DEF Spec

-----------------------------------------------------------------------------
(***************************************************************************)
(* The graph file.                                                         *)
(***************************************************************************)
ObsFields == {"result", "seq", "rev", "clean", "reviewed"}

ObsOK(o, m) == o = None \/ (o = [x \in ObsFields |-> o[x]] /\ o.seq \in 0 .. m)

NodesTyped(g, m) ==
  /\ g = [n \in DOMAIN g |-> g[n]] /\ DOMAIN g \subseteq Ids
  /\ \A n \in DOMAIN g : PlanNode(g[n]) /\ ObsOK(g[n].obs, m)

\* o lists the ids in D, each once.
Lists(o, D) == o \in Seq(Ids) /\ Range(o) = D /\ IsInjective(o)

GraphTyped ==
  /\ NodesTyped(node, seq) /\ Lists(order, DOMAIN node) /\ seq \in 0 .. MaxSeq /\ restructured \in Nat
  /\ retired \cap DOMAIN node \subseteq outrun /\ outrun \subseteq DOMAIN node \cup retired
  /\ DOMAIN records \subseteq retired
  /\ \A n \in DOMAIN node : node[n].deps \subseteq DOMAIN node \cup retired

\* z is o, and then the ids that p declares.
Appended(z, o, p) ==
  /\ z \in Seq(Ids)
  /\ \A i \in DOMAIN z : \/ i \in DOMAIN o /\ z[i] = o[i]
                        \/ \E x \in DOMAIN p : i = Len(o) + x /\ z[i] = p[x].id
  /\ \A i \in DOMAIN o : i \in DOMAIN z /\ z[i] = o[i]
  /\ \A x \in DOMAIN p : Len(o) + x \in DOMAIN z /\ z[Len(o) + x] = p[x].id

LEMMA AppendedIds ==
  ASSUME NEW o \in Seq(Ids), NEW p, WellFormed(p)
  PROVE  Appended(o \o [i \in DOMAIN p |-> p[i].id], o, p)
<1> DEFINE ids == [i \in DOMAIN p |-> p[i].id]
           z   == o \o ids
<1>1. ids \in Seq(Ids) /\ DOMAIN ids = DOMAIN p /\ \A i \in DOMAIN p : ids[i] = p[i].id
  <2>1. DOMAIN p = 1 .. Len(p) /\ Len(p) \in Nat /\ \A i \in DOMAIN p : p[i].id \in Ids
    BY PayloadIndexes DEF WellFormed
  <2> QED
    BY <2>1
<1> HIDE DEF ids
<1>2. /\ z \in Seq(Ids) /\ DOMAIN z = 1 .. Len(o) + Len(ids)
      /\ DOMAIN o = 1 .. Len(o) /\ DOMAIN ids = 1 .. Len(ids) /\ Len(o) \in Nat /\ Len(ids) \in Nat
      /\ \A i \in 1 .. Len(o) : z[i] = o[i]
      /\ \A i \in 1 .. Len(ids) : z[Len(o) + i] = ids[i]
      /\ \A i \in 1 .. Len(o) + Len(ids) : i \notin 1 .. Len(o) =>
           i - Len(o) \in 1 .. Len(ids) /\ z[i] = ids[i - Len(o)]
  BY <1>1
<1> HIDE DEF z
<1>3. ASSUME NEW i \in DOMAIN z
      PROVE  \/ i \in DOMAIN o /\ z[i] = o[i]
             \/ \E x \in DOMAIN p : i = Len(o) + x /\ z[i] = p[x].id
  <2>1. CASE i \in 1 .. Len(o)
    BY <1>2, <2>1
  <2>2. CASE i \notin 1 .. Len(o)
    <3>1. PICK x : x = i - Len(o)
      OBVIOUS
    <3>2. x \in DOMAIN ids /\ z[i] = ids[x]
      BY <1>2, <2>2, <3>1
    <3>3. i = Len(o) + x
      BY <1>2, <3>1
    <3> QED
      BY <1>1, <3>2, <3>3
  <2> QED
    BY <2>1, <2>2
<1>4. \A i \in DOMAIN o : i \in DOMAIN z /\ z[i] = o[i]
  BY <1>2
<1>5. \A x \in DOMAIN p : Len(o) + x \in DOMAIN z /\ z[Len(o) + x] = p[x].id
  BY <1>1, <1>2
<1> QED
  BY <1>2, <1>3, <1>4, <1>5 DEF Appended, z, ids

LEMMA ListsMore ==
  ASSUME NEW o, NEW D, Lists(o, D), NEW p, WellFormed(p), Distinct(p), Declared(p) \cap D = {}
  PROVE  Lists(o \o [i \in DOMAIN p |-> p[i].id], D \cup Declared(p))
<1> DEFINE z == o \o [i \in DOMAIN p |-> p[i].id]
<1>1. o \in Seq(Ids) /\ (\A i \in DOMAIN o : o[i] \in D) /\ (\A n \in D : \E i \in DOMAIN o : o[i] = n)
  BY DEF Lists, Range
<1>2. Appended(z, o, p)
  BY <1>1, AppendedIds
<1> HIDE DEF z
<1>3. ASSUME NEW n \in D \cup Declared(p)
      PROVE  \E i \in DOMAIN z : z[i] = n
  BY <1>1, <1>2 DEF Appended, Declared
<1>4. Range(z) = D \cup Declared(p)
  BY <1>1, <1>2, <1>3 DEF Appended, Range, Declared
<1>5. ASSUME NEW i \in DOMAIN z, NEW j \in DOMAIN z, z[i] = z[j]
      PROVE  i = j
  <2>1. CASE i \in DOMAIN o /\ z[i] = o[i]
    <3>1. z[j] \notin Declared(p)
      BY <1>1, <1>5, <2>1
    <3>2. j \in DOMAIN o /\ z[j] = o[j]
      BY <1>2, <3>1 DEF Appended, Declared
    <3> QED
      BY <1>5, <2>1, <3>2 DEF Lists, IsInjective
  <2>2. CASE \E x \in DOMAIN p : i = Len(o) + x /\ z[i] = p[x].id
    <3>1. PICK x \in DOMAIN p : i = Len(o) + x /\ z[i] = p[x].id
      BY <2>2
    <3>2. z[j] \notin D
      BY <1>5, <3>1 DEF Declared
    <3>3. PICK y \in DOMAIN p : j = Len(o) + y /\ z[j] = p[y].id
      BY <1>1, <1>2, <3>2 DEF Appended
    <3>4. x = y
      BY <1>5, <3>1, <3>3 DEF Distinct
    <3> QED
      BY <3>1, <3>3, <3>4
  <2> QED
    BY <1>2, <2>1, <2>2 DEF Appended
<1> QED
  BY <1>2, <1>4, <1>5 DEF Appended, Lists, IsInjective, z

LEMMA RemovedAt ==
  ASSUME NEW o \in Seq(Ids), NEW k \in DOMAIN o
  PROVE  LET z == RemoveAt(o, k)
         IN  /\ z \in Seq(Ids) /\ DOMAIN z = 1 .. Len(o) - 1
             /\ Len(o) \in Nat /\ DOMAIN o = 1 .. Len(o)
             /\ \A i \in 1 .. Len(o) - 1 : z[i] = IF i < k THEN o[i] ELSE o[i + 1]
<1> DEFINE z == RemoveAt(o, k)
<1>0. o \in Seq(Ids) /\ DOMAIN o = 1 .. Len(o) /\ Len(o) \in Nat /\ k \in DOMAIN o
  OBVIOUS
<1> DEFINE x == SubSeq(o, 1, k - 1)
           y == SubSeq(o, k + 1, Len(o))
<1>1. /\ x \in Seq(Ids) /\ Len(x) = k - 1 /\ DOMAIN x = 1 .. k - 1
      /\ \A i \in 1 .. k - 1 : x[i] = o[i]
  BY <1>0
<1>2. /\ y \in Seq(Ids) /\ Len(y) = Len(o) - k /\ DOMAIN y = 1 .. Len(o) - k
      /\ \A i \in 1 .. Len(o) - k : y[i] = o[k + i]
  BY <1>0
<1>3. z = x \o y
  BY DEF RemoveAt
<1> HIDE DEF x, y, z
<1>4. /\ z \in Seq(Ids) /\ DOMAIN z = 1 .. Len(x) + Len(y)
      /\ \A i \in 1 .. Len(x) : z[i] = x[i]
      /\ \A i \in 1 .. Len(x) + Len(y) : i \notin 1 .. Len(x) =>
           i - Len(x) \in 1 .. Len(y) /\ z[i] = y[i - Len(x)]
  BY <1>1, <1>2, <1>3
<1>5. k \in 1 .. Len(o) /\ Len(x) + Len(y) = Len(o) - 1
  BY <1>0, <1>1, <1>2
<1>6. ASSUME NEW i \in 1 .. Len(o) - 1
      PROVE  z[i] = IF i < k THEN o[i] ELSE o[i + 1]
  <2>1. CASE i < k
    BY <1>0, <1>1, <1>4, <1>5, <2>1
  <2>2. CASE ~(i < k)
    <3>1. i - Len(x) \in 1 .. Len(o) - k /\ z[i] = y[i - Len(x)] /\ k + (i - Len(x)) = i + 1
      BY <1>0, <1>1, <1>2, <1>4, <1>5, <2>2
    <3> QED
      BY <1>2, <3>1, <2>2
  <2> QED
    BY <2>1, <2>2
<1> QED
  BY <1>0, <1>4, <1>5, <1>6 DEF z

LEMMA ListsFewer ==
  ASSUME NEW o, NEW D, Lists(o, D), NEW n \in D
  PROVE  Lists(RemoveAt(o, CHOOSE i \in DOMAIN o : o[i] = n), D \ {n})
<1> DEFINE k == CHOOSE i \in DOMAIN o : o[i] = n
           z == RemoveAt(o, k)
<1>1. k \in DOMAIN o /\ o[k] = n
  BY DEF Lists, Range
<1> HIDE DEF k
<1>2. o \in Seq(Ids) /\ DOMAIN o = 1 .. Len(o) /\ Len(o) \in Nat
  BY DEF Lists
<1>3. /\ z \in Seq(Ids) /\ DOMAIN z = 1 .. Len(o) - 1
      /\ \A i \in 1 .. Len(o) - 1 : z[i] = IF i < k THEN o[i] ELSE o[i + 1]
  BY <1>1, <1>2, RemovedAt
<1> HIDE DEF z
<1>4. \A i, j \in DOMAIN o : o[i] = o[j] => i = j
  BY DEF Lists, IsInjective
<1>5. Range(o) = D
  BY DEF Lists
<1>6. Range(z) = D \ {n}
  <2>1. ASSUME NEW i \in DOMAIN z PROVE z[i] \in D /\ z[i] # n
    <3>1. PICK j \in DOMAIN o : z[i] = o[j] /\ j # k
      BY <1>1, <1>2, <1>3
    <3> QED
      BY <1>1, <1>4, <1>5, <3>1 DEF Range
  <2>2. ASSUME NEW m \in D, m # n PROVE \E i \in DOMAIN z : z[i] = m
    <3>1. PICK j \in DOMAIN o : o[j] = m
      BY <1>5 DEF Range
    <3>2. j # k
      BY <1>1, <2>2, <3>1
    <3>3. CASE j < k
      BY <1>1, <1>2, <1>3, <3>1, <3>3
    <3>4. CASE j > k
      <4>1. j - 1 \in DOMAIN z /\ z[j - 1] = o[j]
        BY <1>1, <1>2, <1>3, <3>4
      <4> QED
        BY <3>1, <4>1
    <3> QED
      BY <1>1, <1>2, <3>2, <3>3, <3>4
  <2> QED
    BY <2>1, <2>2 DEF Range
<1>7. ASSUME NEW i \in DOMAIN z, NEW j \in DOMAIN z, z[i] = z[j]
      PROVE  i = j
  <2> DEFINE at(x) == IF x < k THEN x ELSE x + 1
  <2>1. at(i) \in DOMAIN o /\ at(j) \in DOMAIN o /\ o[at(i)] = z[i] /\ o[at(j)] = z[j]
    BY <1>1, <1>2, <1>3
  <2>2. at(i) = at(j)
    <3> HIDE DEF at
    <3> QED
      BY <1>4, <1>7, <2>1
  <2> QED
    BY <1>1, <1>2, <1>3, <2>2
<1> QED
  BY <1>3, <1>6, <1>7 DEF Lists, IsInjective, z, k

\* A payload that has as many ids as declarations declares each once.
LEMMA CountedMeans ==
  ASSUME NEW p, WellFormed(p), Cardinality(Declared(p)) = Len(p)
  PROVE  Distinct(p)
<1>1. DOMAIN p = 1 .. Len(p) /\ Len(p) \in Nat
  BY PayloadIndexes
<1> DEFINE f == [i \in 1 .. Len(p) |-> p[i].id]
<1>2. IsFiniteSet(1 .. Len(p)) /\ Cardinality(1 .. Len(p)) = Len(p)
  <2>1. PICK k \in Nat : k = Len(p)
    BY <1>1
  <2>2. IsFiniteSet(1 .. k) /\ Cardinality(1 .. k) = IF 1 > k THEN 0 ELSE k - 1 + 1
    BY FS_Interval
  <2> QED
    BY <2>1, <2>2
<1>3. f \in Surjection(1 .. Len(p), Declared(p))
  BY <1>1 DEF Surjection, Declared
<1>4. f \in Injection(1 .. Len(p), Declared(p))
  <2> HIDE DEF f
  <2> QED
    BY <1>2, <1>3, FS_Surjection
<1> QED
  BY <1>1, <1>4 DEF Injection, IsInjective, Distinct

LEMMA MergedTyped ==
  ASSUME NEW g, NEW m, NodesTyped(g, m), NEW p, WellFormed(p), NewTo(p, {}, g)
  PROVE  NodesTyped(Merged(g, {}, p), m)
<1> DEFINE h == Merged(g, {}, p)
<1>1. IsMerge(h, g, p)
  BY MergedIs
<1>2. h = [n \in DOMAIN h |-> h[n]]
  BY DEF Merged
<1> HIDE DEF h
<1>3. ASSUME NEW n \in DOMAIN h PROVE n \in Ids /\ PlanNode(h[n]) /\ ObsOK(h[n].obs, m)
  <2>1. CASE n \in DOMAIN g
    BY <1>1, <2>1 DEF IsMerge, NodesTyped
  <2>2. CASE n \in Declared(p)
    <3>1. PICK i \in DOMAIN p : n = p[i].id
      BY <2>2 DEF Declared
    <3>2. h[n] = p[i].node
      BY <1>1, <3>1 DEF IsMerge
    <3> QED
      BY <3>1, <3>2 DEF WellFormed, PlanNode, ObsOK
  <2> QED
    BY <1>1, <2>1, <2>2 DEF IsMerge
<1> QED
  BY <1>2, <1>3 DEF NodesTyped, h

LEMMA InheritsTyped ==
  ASSUME NEW c, PlanNode(c), c.obs = None, NEW v, PlanNode(v)
  PROVE  PlanNode(Inherits(c, v)) /\ Inherits(c, v).obs = None
<1>1. PICK w : w = Inherits(c, v)
  OBVIOUS
<1>2. /\ w = [f \in Fields |-> w[f]] /\ w.obs = c.obs /\ w.claim = c.claim
      /\ w.deps = IF c.deps = {} THEN v.deps ELSE c.deps
  BY <1>1 DEF Inherits, PlanNode, Fields
<1> QED
  BY <1>1, <1>2 DEF PlanNode

LEMMA PinnedTyped ==
  ASSUME NEW g, NEW m, NodesTyped(g, m), NEW r \in DOMAIN g, NEW n
  PROVE  ObsOK(PinnedReview(g, r, n), m)
<1>1. PICK o : o = g[r].obs
  OBVIOUS
<1>2. ObsOK(o, m)
  BY <1>1 DEF NodesTyped
<1>3. PICK x : x = LegacyReviewedSet(g, r, ReviewScopeFromStates(g, r, Derive(g)))
  OBVIOUS
<1>4. PinnedReview(g, r, n) = o \/ (o # None /\ PinnedReview(g, r, n) = [o EXCEPT !.reviewed = x])
  BY <1>1, <1>3 DEF PinnedReview
<1>5. ASSUME o # None, NEW q, q = [o EXCEPT !.reviewed = x] PROVE ObsOK(q, m)
  <2>1. o = [y \in ObsFields |-> o[y]] /\ o.seq \in 0 .. m
    BY <1>2, <1>5 DEF ObsOK
  <2>2. q = [y \in ObsFields |-> q[y]] /\ q.seq = o.seq
    BY <1>5, <2>1 DEF ObsFields
  <2> QED
    BY <2>1, <2>2 DEF ObsOK
<1> QED
  BY <1>2, <1>4, <1>5

LEMMA AfterSplitTyped ==
  ASSUME NEW m, NodesTyped(node, m), NEW n, NEW p, WellFormed(p), SplitAllowed(n, p)
  PROVE  /\ NodesTyped(AfterSplit(n, p), m) /\ Distinct(p)
         /\ DOMAIN AfterSplit(n, p) = (DOMAIN node \ {n}) \cup Declared(p)
<1>1. /\ n \in DOMAIN node /\ Distinct(p) /\ Declared(p) \cap DOMAIN node = {} /\ Declared(p) \subseteq Ids
  BY CountedMeans, PayloadIndexes DEF SplitAllowed
<1> DEFINE none == [x \in {} |-> None]
           ch   == Merged(none, {}, p)
           h    == AfterSplit(n, p)
<1>2. IsMerge(ch, none, p)
  BY <1>1, MergedIs DEF NewTo
<1>3. h = [x \in (DOMAIN node \ {n}) \cup Declared(p) |->
             IF x \in Declared(p) THEN Inherits(ch[x], node[n])
             ELSE [node[x] EXCEPT !.obs  = PinnedReview(node, x, n),
                                  !.deps = Rewired(@, n, Declared(p))]]
  BY DEF AfterSplit
<1> HIDE DEF none, ch, h
<1>4. ASSUME NEW x \in Declared(p)
      PROVE  PlanNode(h[x]) /\ ObsOK(h[x].obs, m)
  <2>1. PICK i \in DOMAIN p : x = p[i].id
    BY DEF Declared
  <2>2. ch[x] = p[i].node
    BY <1>2, <2>1 DEF IsMerge
  <2>3. PlanNode(ch[x]) /\ ch[x].obs = None /\ PlanNode(node[n])
    BY <1>1, <2>1, <2>2 DEF WellFormed, PlanNode, NodesTyped
  <2>4. h[x] = Inherits(ch[x], node[n])
    BY <1>3
  <2>5. PlanNode(h[x]) /\ h[x].obs = None
    BY <2>3, <2>4, InheritsTyped
  <2> QED
    BY <2>5 DEF ObsOK
<1>5. ASSUME NEW x \in DOMAIN node \ {n}
      PROVE  PlanNode(h[x]) /\ ObsOK(h[x].obs, m)
  <2>1. PICK v, o, D, w : v = node[x] /\ o = PinnedReview(node, x, n) /\ D = Rewired(node[x].deps, n, Declared(p)) /\ w = h[x]
    OBVIOUS
  <2>2. w = [v EXCEPT !.obs = o, !.deps = D]
    BY <1>1, <1>3, <2>1
  <2>3. PlanNode(v) /\ ObsOK(o, m)
    BY <2>1, PinnedTyped DEF NodesTyped
  <2>4. D \subseteq Ids
    BY <1>1, <2>1, <2>3 DEF Rewired, PlanNode
  <2>5. w = [f \in Fields |-> w[f]] /\ w.obs = o /\ w.deps = D /\ w.claim = v.claim
    BY <2>2, <2>3 DEF PlanNode, Fields
  <2> QED
    BY <2>1, <2>3, <2>4, <2>5 DEF PlanNode
<1>6. DOMAIN h = (DOMAIN node \ {n}) \cup Declared(p) /\ h = [x \in DOMAIN h |-> h[x]]
  BY <1>3
<1>7. DOMAIN h \subseteq Ids
  BY <1>1, <1>6 DEF NodesTyped
<1> QED
  BY <1>1, <1>4, <1>5, <1>6, <1>7 DEF NodesTyped, h

-----------------------------------------------------------------------------
(***************************************************************************)
(* One session steps, the others' commands stay where they are.            *)
(***************************************************************************)
\* A step that leaves the other sessions' commands alone.
Alone(s) == \A t \in Sessions \ {s} : pc'[t] = pc[t] /\ job'[t] = job[t]

LEMMA AloneMeans ==
  ASSUME SessionsOK, NEW s \in Sessions, NEW l, NEW j,
         pc' = [pc EXCEPT ![s] = l], job' = [job EXCEPT ![s] = j]
  PROVE  Alone(s) /\ pc'[s] = l /\ job'[s] = j
BY DEF SessionsOK, Alone

LEMMA AloneHere ==
  ASSUME SessionsOK, NEW s \in Sessions, NEW l, Goto(s, l)
  PROVE  /\ pc'[s] = l /\ \A t \in Sessions \ {s} : pc'[t] = pc[t]
         /\ job' = job => Alone(s)
BY DEF SessionsOK, Goto, Alone

LEMMA FinishAlone ==
  ASSUME SessionsOK, NEW s \in Sessions, Finish(s)
  PROVE  Alone(s) /\ pc'[s] = "idle"
<1>1. PICK j : j = NoJob
  OBVIOUS
<1>2. pc' = [pc EXCEPT ![s] = "idle"] /\ job' = [job EXCEPT ![s] = j]
  BY <1>1 DEF Finish, Goto
<1> QED
  BY <1>2, AloneMeans

-----------------------------------------------------------------------------
(***************************************************************************)
(* The graph stays one that compile accepts, but for what outran it.       *)
(***************************************************************************)
\* An empty graph meets no demand, and need not.
Judged(g, R, K, D) ==
  /\ Provenance(g, R, K) /\ DOMAIN K \cap DOMAIN g \subseteq D
  /\ SoundBut(g, D) /\ (DOMAIN g # {} => Demanded(g))

\* Graph b with register T, read when k restructurings were done, and what
\* became of it after r.
Behind(b, T, k, g, R, r) ==
  /\ DOMAIN b \subseteq Ids /\ \A n \in DOMAIN b : b[n].claim = None
  /\ DOMAIN b \subseteq DOMAIN g \cup R /\ (DOMAIN b # {} => DOMAIN g # {})
  /\ k \in Nat /\ k <= r
  /\ k = r => T = R /\ Grown(b, g)

\* What a compile at step l with data j knows of graph g: what it read is
\* behind g, and once it has judged, it found nothing against what it read.
CompileSees(l, j, g, R, r) ==
  /\ l = "select" => Behind(j.base.node, j.base.retired, j.knew, g, R, r)
  /\ l = "append" => \E b, T, K : /\ Behind(b, T, j.knew, g, R, r)
                                  /\ Findings(b, T, K, j.payload, Source) = {}

CompilesSee == \A s \in Sessions : CompileSees(pc[s], job[s], node, retired, restructured)

Clean == Workspace /\ GraphTyped /\ Judged(node, retired, records, outrun) /\ CompilesSee

LEMMA PlanFinite ==
  ASSUME NEW g, NEW m, NodesTyped(g, m)
  PROVE  /\ IsFiniteSet(DOMAIN g) /\ g = [n \in DOMAIN g |-> g[n]] /\ DOMAIN g \subseteq Ids
         /\ \A n \in DOMAIN g : g[n].claim = None
BY PlanAssumption, FS_Subset DEF NodesTyped, PlanNode

\* A graph that grew, or was restructured once more.
Later(g, R, r, h, T, q) ==
  /\ r \in Nat /\ DOMAIN g \cup R \subseteq DOMAIN h \cup T /\ (DOMAIN g # {} => DOMAIN h # {})
  /\ (q = r /\ T = R /\ Grown(g, h)) \/ q = r + 1

LEMMA BehindLater ==
  ASSUME NEW b, NEW S, NEW k, NEW g, NEW R, NEW r, Behind(b, S, k, g, R, r),
         NEW h, NEW T, NEW q, Later(g, R, r, h, T, q)
  PROVE  Behind(b, S, k, h, T, q)
<1>1. CASE q = r + 1
  <2>1. k <= q /\ k # q /\ k \in Nat
    BY <1>1 DEF Behind, Later
  <2> QED
    BY <2>1 DEF Behind, Later
<1>2. CASE q = r /\ T = R /\ Grown(g, h)
  <2>1. k = q => S = T /\ Grown(b, h)
    BY <1>2, GrownTransitive DEF Behind
  <2> QED
    BY <1>2, <2>1 DEF Behind, Later
<1> QED
  BY <1>1, <1>2 DEF Later

LEMMA SeesLater ==
  ASSUME NEW l, NEW j, NEW g, NEW R, NEW r, CompileSees(l, j, g, R, r),
         NEW h, NEW T, NEW q, Later(g, R, r, h, T, q)
  PROVE  CompileSees(l, j, h, T, q)
<1>1. l = "select" => Behind(j.base.node, j.base.retired, j.knew, h, T, q)
  BY BehindLater DEF CompileSees
<1>2. ASSUME l = "append"
      PROVE  \E b, S, K : Behind(b, S, j.knew, h, T, q) /\ Findings(b, S, K, j.payload, Source) = {}
  <2>1. PICK b, S, K : Behind(b, S, j.knew, g, R, r) /\ Findings(b, S, K, j.payload, Source) = {}
    BY <1>2 DEF CompileSees
  <2>2. Behind(b, S, j.knew, h, T, q)
    BY <2>1, BehindLater
  <2> QED
    BY <2>1, <2>2
<1> QED
  BY <1>1, <1>2 DEF CompileSees

\* What GraphTyped says of a file with these contents.
FileTyped(g, o, R, K, D) ==
  /\ NodesTyped(g, seq) /\ Lists(o, DOMAIN g)
  /\ R \cap DOMAIN g \subseteq D /\ D \subseteq DOMAIN g \cup R /\ DOMAIN K \subseteq R
  /\ \A n \in DOMAIN g : g[n].deps \subseteq DOMAIN g \cup R

LEMMA FileOf ==
  ASSUME Clean
  PROVE  /\ FileTyped(node, order, retired, records, outrun) /\ Judged(node, retired, records, outrun)
         /\ seq \in 0 .. MaxSeq /\ restructured \in Nat
         /\ IsFiniteSet(DOMAIN node) /\ node = [n \in DOMAIN node |-> node[n]] /\ DOMAIN node \subseteq Ids
         /\ \A n \in DOMAIN node : node[n].claim = None
BY PlanFinite DEF Clean, GraphTyped, FileTyped

\* The nodes that compile marks.
Marks(k, h, p) == IF k = restructured THEN {} ELSE Reached(h, p)

\* An append, of what was judged against a graph read before.
LEMMA AppendKeeps ==
  ASSUME Clean, NEW p, WellFormed(p), AllNew(p),
         NEW b, NEW T, NEW K, NEW k, Behind(b, T, k, node, retired, restructured),
         Findings(b, T, K, p, Source) = {}
  PROVE  LET h == Merged(node, {}, p)
             o == order \o [i \in DOMAIN p |-> p[i].id]
             D == outrun \cup Marks(k, h, p)
         IN  /\ FileTyped(h, o, retired, records, D) /\ Judged(h, retired, records, D)
             /\ Later(node, retired, restructured, h, retired, restructured)
<1> DEFINE h == Merged(node, {}, p)
           o == order \o [i \in DOMAIN p |-> p[i].id]
           D == outrun \cup Marks(k, h, p)
<1>1. /\ FileTyped(node, order, retired, records, outrun) /\ Judged(node, retired, records, outrun)
      /\ restructured \in Nat /\ IsFiniteSet(DOMAIN node) /\ DOMAIN node \subseteq Ids
  BY FileOf
<1>2. /\ NewTo(p, T, b) /\ Sound(Merged(b, T, p)) /\ Demanded(Merged(b, T, p))
      /\ \A i \in DOMAIN p : p[i].node.deps \subseteq DOMAIN b \cup Declared(p)
  BY AcceptedMeans DEF Behind
<1>3. NewTo(p, {}, node)
  BY <1>1, <1>2 DEF AllNew, FileTyped, Lists, NewTo
<1>4. IsMerge(h, node, p) /\ NodesTyped(h, seq)
  BY <1>1, <1>3, MergedIs, MergedTyped DEF FileTyped
<1>5. Lists(o, DOMAIN h)
  BY <1>1, <1>3, <1>4, ListsMore DEF FileTyped, IsMerge, NewTo
<1>6. /\ SoundBut(h, D) /\ Demanded(h) /\ D \subseteq DOMAIN h \cup retired
      /\ retired \cap DOMAIN h \subseteq D /\ outrun \subseteq D
  <2>1. CASE k = restructured
    <3>1. T = retired /\ Grown(b, node) /\ D = outrun
      BY <2>1 DEF Behind, Marks
    <3>2. SoundBut(h, outrun) /\ Demanded(h)
      BY <1>1, <1>2, <1>3, <3>1, AppendInTime DEF FileTyped, Judged
    <3> HIDE DEF h
    <3>3. Declared(p) \cap retired = {}
      BY <1>2, <3>1 DEF NewTo
    <3>4. retired \cap DOMAIN h \subseteq outrun /\ outrun \subseteq DOMAIN h \cup retired
      BY <1>1, <1>4, <3>3 DEF FileTyped, IsMerge
    <3> QED
      BY <3>1, <3>2, <3>4
  <2>2. CASE k # restructured
    <3>1. D = outrun \cup Reached(h, p)
      BY <2>2 DEF Marks
    <3>2. /\ SoundBut(h, outrun \cup Reached(h, p)) /\ Demanded(h)
          /\ Declared(p) \subseteq Reached(h, p)
      BY <1>1, <1>2, <1>3, AppendOutrun DEF FileTyped, Judged, Behind
    <3> HIDE DEF h
    <3>3. Reached(h, p) \subseteq DOMAIN h
      BY DEF Reached
    <3>4. retired \cap DOMAIN h \subseteq D /\ D \subseteq DOMAIN h \cup retired
      BY <1>1, <1>4, <3>1, <3>2, <3>3 DEF FileTyped, IsMerge
    <3> QED
      BY <3>1, <3>2, <3>4
  <2> QED
    BY <2>1, <2>2
<1> HIDE DEF h, o, D
<1>7. \A n \in DOMAIN h : h[n].deps \subseteq DOMAIN h \cup retired
  <2>1. \A n \in DOMAIN node : h[n].deps \subseteq DOMAIN h \cup retired
    BY <1>1, <1>4 DEF FileTyped, IsMerge
  <2>2. ASSUME NEW n \in Declared(p) PROVE h[n].deps \subseteq DOMAIN h \cup retired
    <3>1. PICK i \in DOMAIN p : n = p[i].id
      BY DEF Declared
    <3>2. h[n].deps \subseteq DOMAIN b \cup Declared(p)
      BY <1>2, <1>4, <3>1 DEF IsMerge
    <3> QED
      BY <1>4, <3>2 DEF Behind, IsMerge
  <2> QED
    BY <1>4, <2>1, <2>2 DEF IsMerge
<1>8. FileTyped(h, o, retired, records, D)
  BY <1>1, <1>4, <1>5, <1>6, <1>7 DEF FileTyped
<1>9. Judged(h, retired, records, D)
  <2>1. Provenance(h, retired, records)
    BY <1>1, <1>4, ProvenanceKept DEF Judged, IsMerge
  <2>2. DOMAIN records \cap DOMAIN h \subseteq D
    BY <1>6, <1>8 DEF FileTyped
  <2> QED
    BY <1>6, <2>1, <2>2 DEF Judged
<1>10. Later(node, retired, restructured, h, retired, restructured)
  <2>1. IsFiniteSet(DOMAIN h)
    BY <1>4, PlanFinite
  <2>2. Grown(node, h)
    BY <1>4, <2>1 DEF Grown, SameContract, IsMerge
  <2> QED
    BY <1>1, <1>4, <2>2 DEF Later, IsMerge
<1> QED
  BY <1>8, <1>9, <1>10 DEF h, o, D

LEMMA SplitKeeps ==
  ASSUME Clean, NEW n, NEW p, WellFormed(p), SplitAllowed(n, p), SplitClean(n, p)
  PROVE  LET h == AfterSplit(n, p)
             o == RemoveAt(order, CHOOSE i \in DOMAIN order : order[i] = n) \o [i \in DOMAIN p |-> p[i].id]
         IN  /\ FileTyped(h, o, retired \cup {n}, records, outrun)
             /\ Judged(h, retired \cup {n}, records, outrun)
             /\ Later(node, retired, restructured, h, retired \cup {n}, restructured + 1)
<1>1. /\ FileTyped(node, order, retired, records, outrun) /\ Judged(node, retired, records, outrun)
      /\ restructured \in Nat
      /\ IsFiniteSet(DOMAIN node) /\ node = [x \in DOMAIN node |-> node[x]] /\ DOMAIN node \subseteq Ids
      /\ \A x \in DOMAIN node : node[x].claim = None
  BY FileOf
<1>2. n \in DOMAIN node /\ Declared(p) \cap (retired \cup DOMAIN node) = {}
  BY DEF SplitAllowed
<1> DEFINE h == AfterSplit(n, p)
           rest == RemoveAt(order, CHOOSE i \in DOMAIN order : order[i] = n)
           o == rest \o [i \in DOMAIN p |-> p[i].id]
<1>3. NodesTyped(h, seq) /\ Distinct(p) /\ DOMAIN h = (DOMAIN node \ {n}) \cup Declared(p)
  BY <1>1, AfterSplitTyped DEF FileTyped
<1>4. Lists(rest, DOMAIN node \ {n})
  BY <1>1, <1>2, ListsFewer DEF FileTyped
<1>5. \A x \in DOMAIN node \ {n} : h[x].deps = Rewired(node[x].deps, n, Declared(p))
  <2> SUFFICES ASSUME NEW x \in DOMAIN node \ {n} PROVE h[x].deps = Rewired(node[x].deps, n, Declared(p))
    OBVIOUS
  <2>1. PICK v, w, q : v = node[x] /\ w = PinnedReview(node, x, n) /\ q = Rewired(node[x].deps, n, Declared(p))
    OBVIOUS
  <2>2. h[x] = [v EXCEPT !.obs = w, !.deps = q]
    BY <1>2, <2>1 DEF AfterSplit
  <2>3. v = [f \in Fields |-> v[f]]
    BY <1>1, <2>1 DEF FileTyped, NodesTyped, PlanNode
  <2> QED
    BY <2>1, <2>2, <2>3 DEF Fields
<1>6. Validate(h, retired \cup {n}, records, Source) \subseteq Validate(node, retired, records, Source)
  BY DEF SplitClean, Introduced
<1> HIDE DEF h, rest
<1>7. Lists(o, DOMAIN h)
  BY <1>2, <1>3, <1>4, ListsMore
<1> HIDE DEF o
<1>8. Excused(Validate(node, retired, records, Source), outrun)
  BY <1>1, <1>2, ValidateMeans DEF FileTyped, Judged
<1>9. Excused(Validate(h, retired \cup {n}, records, Source), outrun)
  BY <1>6, <1>8 DEF Excused
<1>10. Judged(h, retired \cup {n}, records, outrun)
  <2>1. /\ IsFiniteSet(DOMAIN h) /\ h = [x \in DOMAIN h |-> h[x]] /\ DOMAIN h \subseteq Ids
        /\ \A x \in DOMAIN h : h[x].claim = None
    BY <1>3, PlanFinite
  <2>2. DOMAIN records \subseteq retired \cup {n}
    BY <1>1 DEF FileTyped
  <2> QED
    BY <1>9, <2>1, <2>2, ValidateMeans DEF Judged
<1>11. ASSUME NEW x \in DOMAIN h PROVE h[x].deps \subseteq DOMAIN h \cup (retired \cup {n})
  <2>1. CASE x \in Declared(p)
    <3>1. x \notin outrun
      BY <1>1, <1>2, <2>1 DEF FileTyped
    <3>2. NodeFindings(h, x, Source) = {}
      BY <1>10, <1>11, <3>1 DEF Judged, SoundBut, SoundAt, LocallySound
    <3> QED
      BY <1>11, <3>2, NothingDangles
  <2>2. CASE x \in DOMAIN node \ {n}
    <3>1. node[x].deps \subseteq DOMAIN node \cup retired
      BY <1>1, <2>2 DEF FileTyped
    <3> QED
      BY <1>3, <1>5, <2>2, <3>1 DEF Rewired
  <2> QED
    BY <1>3, <2>1, <2>2
<1>12. FileTyped(h, o, retired \cup {n}, records, outrun)
  BY <1>1, <1>2, <1>3, <1>7, <1>11 DEF FileTyped
<1>13. Later(node, retired, restructured, h, retired \cup {n}, restructured + 1)
  BY <1>1, <1>3, PayloadIndexes DEF Later
<1> QED
  BY <1>10, <1>12, <1>13 DEF h, o, rest

LEMMA ObserveKeeps ==
  ASSUME Clean, NEW n \in DOMAIN node, Observe(n)
  PROVE  NodesTyped(node', seq') /\ Grown(node, node') /\ DOMAIN node' = DOMAIN node /\ seq' \in 0 .. MaxSeq
<1>1. NodesTyped(node, seq) /\ seq \in 0 .. MaxSeq /\ MaxSeq \in Nat /\ seq < MaxSeq /\ seq' = seq + 1
  BY PlanAssumption, FileOf DEF FileTyped, Observe
<1>2. PICK rv : node' = [node EXCEPT ![n].obs =
                 [result |-> "pass", seq |-> seq + 1, rev |-> node[n].rev, clean |-> TRUE, reviewed |-> rv]]
  BY DEF Observe
<1>3. PICK o, m : o = [result |-> "pass", seq |-> seq + 1, rev |-> node[n].rev, clean |-> TRUE, reviewed |-> rv]
                  /\ m = seq + 1
  OBVIOUS
<1>4. PICK h : h = node'
  OBVIOUS
<1>5. DOMAIN h = DOMAIN node /\ h = [x \in DOMAIN h |-> h[x]] /\ h[n] = [node[n] EXCEPT !.obs = o]
      /\ \A x \in DOMAIN node \ {n} : h[x] = node[x]
  BY <1>1, <1>2, <1>3, <1>4 DEF NodesTyped
<1>6. ObsOK(o, m) /\ m \in Nat
  BY <1>1, <1>3 DEF ObsOK, ObsFields
<1>7. PICK v, w : v = node[n] /\ w = h[n]
  OBVIOUS
<1>8. v = [f \in Fields |-> v[f]] /\ PlanNode(v) /\ w = [v EXCEPT !.obs = o]
  BY <1>1, <1>5, <1>7 DEF NodesTyped, PlanNode
<1>9. w = [f \in Fields |-> w[f]] /\ w.obs = o /\ \A f \in Fields \ {"obs"} : w[f] = v[f]
  BY <1>8 DEF Fields
<1>10. PlanNode(w) /\ ObsOK(w.obs, m) /\ SameContract(v, w)
  BY <1>6, <1>8, <1>9 DEF PlanNode, SameContract, Fields
<1>11. ASSUME NEW x \in DOMAIN node \ {n} PROVE PlanNode(h[x]) /\ ObsOK(h[x].obs, m) /\ SameContract(node[x], h[x])
  <2>1. PlanNode(node[x]) /\ ObsOK(node[x].obs, seq) /\ h[x] = node[x]
    BY <1>1, <1>5 DEF NodesTyped
  <2>2. PICK q : q = node[x].obs
    OBVIOUS
  <2>3. ObsOK(q, m)
    BY <1>1, <1>3, <2>1, <2>2 DEF ObsOK
  <2> QED
    BY <2>1, <2>2, <2>3 DEF SameContract
<1>12. NodesTyped(h, m) /\ Grown(node, h)
  <2>1. IsFiniteSet(DOMAIN node)
    BY <1>1, PlanFinite
  <2>2. \A x \in DOMAIN node : PlanNode(h[x]) /\ ObsOK(h[x].obs, m) /\ SameContract(node[x], h[x])
    BY <1>7, <1>10, <1>11
  <2> QED
    BY <1>1, <1>5, <2>1, <2>2 DEF NodesTyped, Grown
<1> QED
  BY <1>1, <1>3, <1>4, <1>5, <1>12

\* A step that leaves the graph file, and what outran it, alone.
LEMMA FileUntouched ==
  ASSUME Clean, UNCHANGED <<graphFile, outrun, restructured>>
  PROVE  GraphTyped' /\ Judged(node, retired, records, outrun)'
<1>1. /\ node' = node /\ order' = order /\ retired' = retired /\ records' = records /\ seq' = seq
      /\ outrun' = outrun /\ restructured' = restructured
  BY DEF graphFile
<1> QED
  BY <1>1 DEF Clean, GraphTyped, Judged

LEMMA SameIsLater ==
  ASSUME Clean
  PROVE  Later(node, retired, restructured, node, retired, restructured)
<1>1. Grown(node, node)
  BY FileOf DEF Grown, SameContract
<1> QED
  BY <1>1, FileOf DEF Later

\* A step that changes the graph file: what compiles know stays true of it.
LEMMA FileChanged ==
  ASSUME Clean, Workspace', seq' = seq,
         FileTyped(node', order', retired', records', outrun'),
         Judged(node', retired', records', outrun'),
         Later(node, retired, restructured, node', retired', restructured'),
         \A t \in Sessions : \/ pc'[t] = pc[t] /\ job'[t] = job[t]
                             \/ pc'[t] \notin {"select", "append"}
  PROVE  Clean'
<1>1. restructured' \in Nat
  BY FileOf DEF Later
<1>2. GraphTyped'
  BY <1>1, FileOf DEF GraphTyped, FileTyped
<1>3. ASSUME NEW t \in Sessions PROVE CompileSees(pc'[t], job'[t], node', retired', restructured')
  <2>1. CASE pc'[t] \notin {"select", "append"}
    BY <2>1 DEF CompileSees
  <2>2. CASE pc'[t] = pc[t] /\ job'[t] = job[t]
    BY <2>2, SeesLater DEF Clean, CompilesSee
  <2> QED
    BY <2>1, <2>2
<1>4. CompilesSee'
  BY <1>3 DEF CompilesSee
<1> QED
  BY <1>2, <1>4 DEF Clean

\* A step of a session that leaves the graph file alone.
LEMMA SessionSees ==
  ASSUME Clean, UNCHANGED <<graphFile, outrun, restructured>>, NEW s \in Sessions, Alone(s), Workspace',
         pc'[s] \in {"select", "append"} => CompileSees(pc'[s], job'[s], node, retired, restructured)
  PROVE  Clean'
<1>1. node' = node /\ retired' = retired /\ restructured' = restructured
  BY DEF graphFile
<1>2. CompileSees(pc'[s], job'[s], node, retired, restructured)
  BY DEF CompileSees
<1>3. \A t \in Sessions : CompileSees(pc'[t], job'[t], node, retired, restructured)
  BY <1>2 DEF Alone, Clean, CompilesSee
<1>4. CompilesSee'
  BY <1>1, <1>3 DEF CompilesSee
<1> QED
  BY <1>4, FileUntouched DEF Clean

\* The steps of the other commands.
LEMMA OthersClean ==
  ASSUME Clean, Workspace', NEW s \in Sessions,
         \/ \E p \in Proposals, c \in 1 .. MaxFragment : Propose(s, p, c)
         \/ ReserveRead(s) \/ ReserveWrite(s) \/ Park(s)
         \/ Assemble(s) \/ AssembleMerge(s) \/ AssembleWrite(s) \/ AssembleConsume(s)
         \/ CompileConsume(s) \/ GC(s) \/ GCRead(s) \/ GCRemove(s) \/ Killed(s)
  PROVE  Clean'
<1>1. UNCHANGED <<graphFile, outrun, restructured>>
  BY DEF history, Propose, ReserveRead, ReserveWrite, Park, Assemble, AssembleMerge, AssembleWrite,
         AssembleConsume, CompileConsume, GC, GCRead, GCRemove, Killed, Refuse
<1>2. /\ pc = [t \in Sessions |-> pc[t]] /\ job = [t \in Sessions |-> job[t]] /\ SessionsOK
  BY DEF Clean, Workspace, SessionsOK
<1>3. CASE Finish(s)
  BY <1>1, <1>2, <1>3, FinishAlone, SessionSees
<1>4. CASE /\ ~Finish(s)
           /\ \E l \in Steps \ {"select", "append"} : Goto(s, l)
           /\ \A t \in Sessions \ {s} : job'[t] = job[t]
  <2>1. PICK l \in Steps \ {"select", "append"} : Goto(s, l)
    BY <1>4
  <2>2. Alone(s) /\ pc'[s] = l
    BY <1>2, <1>4, <2>1, AloneHere DEF Alone
  <2> QED
    BY <1>1, <2>1, <2>2, SessionSees
<1>5. ASSUME NEW p \in Proposals, NEW c \in 1 .. MaxFragment, Propose(s, p, c)
      PROVE  Goto(s, "reserve") /\ \A t \in Sessions \ {s} : job'[t] = job[t]
  BY <1>2, <1>5 DEF Propose
<1>6. ReserveRead(s) => Goto(s, "reserved") /\ \A t \in Sessions \ {s} : job'[t] = job[t]
  BY <1>2 DEF ReserveRead
<1>7. ReserveWrite(s) =>
        Finish(s) \/ ((\E l \in {"reserve", "park"} : Goto(s, l)) /\ \A t \in Sessions \ {s} : job'[t] = job[t])
  BY <1>2 DEF ReserveWrite
<1>8. Park(s) \/ Killed(s) => Finish(s)
  BY DEF Park, Killed
<1>9. Assemble(s) => Goto(s, "merge") /\ \A t \in Sessions \ {s} : job'[t] = job[t]
  BY <1>2 DEF Assemble
<1>10. AssembleMerge(s) => Finish(s) \/ (Goto(s, "assemble") /\ \A t \in Sessions \ {s} : job'[t] = job[t])
  BY <1>2 DEF AssembleMerge, Refuse
<1>11. AssembleWrite(s) => Goto(s, "consume") /\ \A t \in Sessions \ {s} : job'[t] = job[t]
  BY <1>2 DEF AssembleWrite
<1>12. AssembleConsume(s) => Finish(s) \/ (Goto(s, "consume") /\ \A t \in Sessions \ {s} : job'[t] = job[t])
  BY <1>2 DEF AssembleConsume, Refuse, Goto
<1>13. CompileConsume(s) => Finish(s)
  BY DEF CompileConsume, Refuse
<1>14. GC(s) => Goto(s, "gc") /\ \A t \in Sessions \ {s} : job'[t] = job[t]
  BY <1>2 DEF GC
<1>15. GCRead(s) => Finish(s) \/ ((\E l \in {"gc", "gcremove"} : Goto(s, l)) /\ \A t \in Sessions \ {s} : job'[t] = job[t])
  <2>1. job[s].names = {} => (GCRead(s) => Finish(s))
    BY DEF GCRead, Refuse
  <2>2. ASSUME GCRead(s), job[s].names # {}
        PROVE  (\E l \in {"gc", "gcremove"} : Goto(s, l)) /\ \A t \in Sessions \ {s} : job'[t] = job[t]
    <3>1. PICK path : path = GCPath(job[s].names)
      OBVIOUS
    <3>2. PICK l \in {"gc", "gcremove"} : \E seen : GCLooks(s, path, l, seen)
      BY <1>2, <2>2, <3>1, GCReads
    <3> QED
      BY <1>2, <3>2 DEF GCLooks, Goto
  <2> QED
    BY <2>1, <2>2
<1>16. GCRemove(s) => Finish(s) \/ (Goto(s, "gc") /\ \A t \in Sessions \ {s} : job'[t] = job[t])
  BY <1>2 DEF GCRemove, Refuse
<1>17. {"reserve", "reserved", "park", "merge", "assemble", "consume", "gc", "gcremove"} \subseteq Steps \ {"select", "append"}
  BY DEF Steps
<1>18. \/ Finish(s)
       \/ /\ \E l \in Steps \ {"select", "append"} : Goto(s, l)
          /\ \A t \in Sessions \ {s} : job'[t] = job[t]
  BY <1>5, <1>6, <1>7, <1>8, <1>9, <1>10, <1>11, <1>12, <1>13, <1>14, <1>15, <1>16, <1>17
<1> QED
  BY <1>3, <1>4, <1>18

LEMMA CompileLoadClean ==
  ASSUME Clean, Workspace', NEW s \in Sessions, CompileLoad(s)
  PROVE  Clean'
<1>1. PICK b : b = ThisGraph
  OBVIOUS
<1>2. PICK j : j = [NoJob EXCEPT !.cmd = "compile", !.base = b, !.knew = restructured]
  OBVIOUS
<1>3. j.base = b /\ j.knew = restructured /\ b.node = node /\ b.retired = retired
  BY <1>1, <1>2 DEF NoJob, ThisGraph
<1>4. /\ pc' = [pc EXCEPT ![s] = "select"] /\ job' = [job EXCEPT ![s] = j]
      /\ UNCHANGED <<graphFile, outrun, restructured>>
  BY <1>1, <1>2 DEF CompileLoad, Goto, history
<1>5. Alone(s) /\ pc'[s] = "select" /\ job'[s] = j
  BY <1>4, AloneMeans DEF Clean, Workspace
<1>6. Grown(node, node)
  BY FileOf DEF Grown, SameContract
<1>7. Behind(node, retired, restructured, node, retired, restructured)
  BY <1>6, FileOf DEF Behind
<1>8. CompileSees("select", j, node, retired, restructured)
  BY <1>3, <1>7 DEF CompileSees
<1> QED
  BY <1>4, <1>5, <1>8, SessionSees

LEMMA CompileClean ==
  ASSUME Clean, Workspace', NEW s \in Sessions, Compile(s)
  PROVE  Clean'
<1>1. /\ job = [t \in Sessions |-> job[t]] /\ pc[s] = "select" /\ SessionsOK
      /\ job[s] = [x \in JobFields |-> job[s][x]]
      /\ CompileSees(pc[s], job[s], node, retired, restructured)
  BY DEF Clean, CompilesSee, Workspace, SessionsOK, SessionOK, Compile
<1>2. PICK b, chosen : b = job[s].base /\ chosen = {path \in Selected : Acceptable(b, Payload(path))}
  OBVIOUS
<1>3. CASE chosen = {}
  <2>1. Finish(s) /\ UNCHANGED <<graphFile, outrun, restructured>>
    BY <1>2, <1>3 DEF Compile, Refuse, history
  <2> QED
    BY <1>1, <2>1, FinishAlone, SessionSees
<1>4. CASE chosen # {}
  <2>1. PICK path : path = CHOOSE x \in chosen : TRUE
    OBVIOUS
  <2>2. PICK p : p = Payload(path)
    OBVIOUS
  <2>3. PICK j : j = [job[s] EXCEPT !.path = path, !.payload = p, !.base = None]
    OBVIOUS
  <2>4. /\ job' = [job EXCEPT ![s] = j] /\ pc' = [pc EXCEPT ![s] = "append"]
        /\ UNCHANGED <<graphFile, outrun, restructured>>
    BY <1>1, <1>2, <1>4, <2>1, <2>2, <2>3 DEF Compile, Goto, history
  <2>5. Alone(s) /\ pc'[s] = "append" /\ job'[s] = j
    BY <1>1, <2>4, AloneMeans
  <2>6. j.payload = p /\ j.knew = job[s].knew
    BY <1>1, <2>3 DEF JobFields
  <2>7. Acceptable(b, p)
    BY <1>2, <1>4, <2>1, <2>2
  <2>8. /\ Behind(b.node, b.retired, j.knew, node, retired, restructured)
        /\ Findings(b.node, b.retired, b.records, j.payload, Source) = {}
    BY <1>1, <1>2, <2>6, <2>7 DEF CompileSees, Acceptable
  <2>9. CompileSees("append", j, node, retired, restructured)
    BY <2>8 DEF CompileSees
  <2> QED
    BY <2>4, <2>5, <2>9, SessionSees
<1> QED
  BY <1>3, <1>4

LEMMA CompileAppendClean ==
  ASSUME Clean, Workspace', NEW s \in Sessions, CompileAppend(s)
  PROVE  Clean'
<1>1. /\ SessionsOK /\ SessionOK(pc[s], job[s], DOMAIN frag, mark) /\ pc[s] = "append"
      /\ CompileSees(pc[s], job[s], node, retired, restructured)
  BY DEF Clean, CompilesSee, Workspace, SessionsOK, CompileAppend
<1>2. PICK p, k : p = job[s].payload /\ k = job[s].knew
  OBVIOUS
<1>3. CASE ~AllNew(p)
  <2>1. Finish(s) /\ UNCHANGED <<graphFile, outrun, restructured>>
    BY <1>2, <1>3 DEF CompileAppend, Refuse, history
  <2> QED
    BY <1>1, <2>1, FinishAlone, SessionSees
<1>4. CASE AllNew(p)
  <2>1. WellFormed(p)
    BY <1>1, <1>2, StageableIs DEF SessionOK
  <2>2. PICK b, T, K : Behind(b, T, k, node, retired, restructured) /\ Findings(b, T, K, p, Source) = {}
    BY <1>1, <1>2 DEF CompileSees
  <2>3. PICK h, o, D : /\ h = Merged(node, {}, p) /\ o = order \o [i \in DOMAIN p |-> p[i].id]
                       /\ D = outrun \cup Marks(k, h, p)
    OBVIOUS
  <2>4. /\ FileTyped(h, o, retired, records, D) /\ Judged(h, retired, records, D)
        /\ Later(node, retired, restructured, h, retired, restructured)
    BY <1>4, <2>1, <2>2, <2>3, AppendKeeps
  <2>5. /\ node' = h /\ order' = o /\ retired' = retired /\ records' = records /\ seq' = seq
        /\ restructured' = restructured /\ Goto(s, "remove") /\ job' = job
    BY <1>2, <1>4, <2>3 DEF CompileAppend
  <2>6. outrun' = D
    BY <1>2, <1>4, <2>3, <2>5 DEF CompileAppend, Marks
  <2>7. Alone(s) /\ pc'[s] = "remove"
    BY <1>1, <2>5, AloneHere
  <2>8. /\ FileTyped(node', order', retired', records', outrun') /\ Judged(node', retired', records', outrun')
        /\ Later(node, retired, restructured, node', retired', restructured')
    BY <2>4, <2>5, <2>6
  <2>9. \A t \in Sessions : (pc'[t] = pc[t] /\ job'[t] = job[t]) \/ pc'[t] \notin {"select", "append"}
    BY <2>7 DEF Alone
  <2> QED
    BY <2>5, <2>8, <2>9, FileChanged
<1> QED
  BY <1>2, <1>3, <1>4

LEMMA SplitStepClean ==
  ASSUME Clean, Workspace', NEW s \in Sessions, NEW n \in DOMAIN Splits, NEW p \in Splits[n], Split(s, n, p)
  PROVE  Clean'
<1>1. WellFormed(p)
  BY PlanAssumption
<1>2. PICK h, o : /\ h = AfterSplit(n, p)
                  /\ o = RemoveAt(order, CHOOSE i \in DOMAIN order : order[i] = n) \o [i \in DOMAIN p |-> p[i].id]
  OBVIOUS
<1>3. /\ SplitAllowed(n, p) /\ SplitClean(n, p) /\ pc' = pc /\ job' = job
      /\ node' = h /\ order' = o /\ retired' = retired \cup {n} /\ records' = records /\ seq' = seq
      /\ restructured' = restructured + 1 /\ outrun' = outrun
  BY <1>2 DEF Split, Restructure
<1>4. /\ FileTyped(h, o, retired \cup {n}, records, outrun) /\ Judged(h, retired \cup {n}, records, outrun)
      /\ Later(node, retired, restructured, h, retired \cup {n}, restructured + 1)
  BY <1>1, <1>2, <1>3, SplitKeeps
<1>5. /\ FileTyped(node', order', retired', records', outrun') /\ Judged(node', retired', records', outrun')
      /\ Later(node, retired, restructured, node', retired', restructured')
  BY <1>3, <1>4
<1>6. \A t \in Sessions : (pc'[t] = pc[t] /\ job'[t] = job[t]) \/ pc'[t] \notin {"select", "append"}
  BY <1>3
<1> QED
  BY <1>3, <1>5, <1>6, FileChanged

\* An id is retired that no node has.
LEMMA RetiredClean ==
  ASSUME Clean, Workspace', NEW id, id \notin DOMAIN node, UNCHANGED <<node, order, seq, pc, job, outrun>>,
         retired' = retired \cup {id}, restructured' = restructured + 1,
         DOMAIN records' \subseteq retired', Provenance(node, retired', records')
  PROVE  Clean'
<1>1. /\ FileTyped(node, order, retired, records, outrun) /\ Judged(node, retired, records, outrun)
      /\ seq \in 0 .. MaxSeq /\ restructured \in Nat
  BY FileOf
<1>2. FileTyped(node, order, retired', records', outrun)
  BY <1>1 DEF FileTyped
<1>3. Judged(node, retired', records', outrun)
  BY <1>1, <1>2 DEF Judged, FileTyped
<1>4. Later(node, retired, restructured, node, retired', restructured')
  BY <1>1 DEF Later
<1>5. /\ FileTyped(node', order', retired', records', outrun') /\ Judged(node', retired', records', outrun')
      /\ Later(node, retired, restructured, node', retired', restructured')
  BY <1>2, <1>3, <1>4
<1>6. \A t \in Sessions : (pc'[t] = pc[t] /\ job'[t] = job[t]) \/ pc'[t] \notin {"select", "append"}
  OBVIOUS
<1> QED
  BY <1>5, <1>6, FileChanged

LEMMA RetireClean ==
  ASSUME Clean, Workspace', NEW s \in Sessions, NEW id, Retire(s, id)
  PROVE  Clean'
<1>1. /\ id \notin DOMAIN node /\ UNCHANGED <<node, order, seq, pc, job, outrun>>
      /\ retired' = retired \cup {id} /\ records' = records /\ restructured' = restructured + 1
  BY DEF Retire, RetireAllowed, Restructure
<1>2. DOMAIN records' \subseteq retired'
  BY <1>1, FileOf DEF FileTyped
<1>3. Provenance(node, retired', records')
  BY <1>1, FileOf, ProvenanceKept DEF Judged
<1> QED
  BY <1>1, <1>2, <1>3, RetiredClean

LEMMA RetireWithSourceClean ==
  ASSUME Clean, Workspace', NEW s \in Sessions, NEW id, NEW r, RetireWithSource(s, id, r)
  PROVE  Clean'
<1>1. PICK R, K : R = retired \cup {id} /\ K = With(records, id, r)
  OBVIOUS
<1>2. /\ id \notin DOMAIN node /\ UNCHANGED <<node, order, seq, pc, job, outrun>>
      /\ retired' = R /\ records' = K /\ restructured' = restructured + 1
      /\ RetirementProblems(node, R, K) = {}
  BY <1>1 DEF RetireWithSource, Restructure
<1>3. DOMAIN K \subseteq R
  BY <1>1, FileOf DEF FileTyped, With
<1>4. Excused(RetirementProblems(node, R, K), {})
  BY <1>2 DEF Excused
<1>5. Provenance(node, R, K)
  BY <1>3, <1>4, ProvenanceMeans
<1> QED
  BY <1>1, <1>2, <1>3, <1>5, RetiredClean

LEMMA ObserveClean ==
  ASSUME Clean, Workspace', NEW n \in DOMAIN node, Observe(n)
  PROVE  Clean'
<1>1. PICK h, m : h = node' /\ m = seq'
  OBVIOUS
<1>2. NodesTyped(h, m) /\ Grown(node, h) /\ DOMAIN h = DOMAIN node /\ m \in 0 .. MaxSeq
  BY <1>1, ObserveKeeps
<1>3. UNCHANGED <<order, retired, records, pc, job, outrun, restructured>>
  BY DEF Observe, history
<1>4. /\ FileTyped(node, order, retired, records, outrun) /\ Judged(node, retired, records, outrun)
      /\ restructured \in Nat
  BY FileOf
<1>5. GraphTyped'
  <2>1. \A x \in DOMAIN h : h[x].deps \subseteq DOMAIN h \cup retired
    BY <1>2, <1>4 DEF FileTyped, Grown, SameContract
  <2> QED
    BY <1>1, <1>2, <1>3, <1>4, <2>1 DEF GraphTyped, FileTyped
<1>6. Judged(h, retired, records, outrun)
  <2>1. SoundBut(h, outrun)
    BY <1>2, <1>4, SoundAsBefore DEF Judged
  <2>2. Demanded(node) => Demanded(h)
    BY <1>2, DemandsKept
  <2>3. Provenance(h, retired, records)
    BY <1>2, <1>4, ProvenanceKept DEF Judged
  <2> QED
    BY <1>2, <1>4, <2>1, <2>2, <2>3 DEF Judged
<1>7. Later(node, retired, restructured, h, retired, restructured)
  BY <1>2, <1>4 DEF Later
<1>8. \A t \in Sessions : CompileSees(pc[t], job[t], h, retired, restructured)
  BY <1>7, SeesLater DEF Clean, CompilesSee
<1>9. CompilesSee'
  BY <1>1, <1>3, <1>8 DEF CompilesSee
<1>10. Judged(node', retired', records', outrun')
  BY <1>1, <1>3, <1>6
<1> QED
  BY <1>5, <1>9, <1>10 DEF Clean

LEMMA CleanInit == Init => Clean
<1> SUFFICES ASSUME Init PROVE Clean
  OBVIOUS
<1>1. /\ node = [n \in {} |-> None] /\ order = <<>> /\ retired = {} /\ seq = 0
      /\ records = [n \in {} |-> None] /\ outrun = {} /\ restructured = 0 /\ \A s \in Sessions : pc[s] = "idle"
  BY DEF Init
<1>2. DOMAIN node = {} /\ DOMAIN records = {} /\ MaxSeq \in Nat
  BY <1>1, PlanAssumption
<1>3. NodesTyped(node, seq)
  BY <1>1, <1>2 DEF NodesTyped
<1>4. Lists(order, DOMAIN node)
  <2>1. order \in Seq(Ids) /\ DOMAIN order = {}
    BY <1>1
  <2> QED
    BY <1>2, <2>1 DEF Lists, Range, IsInjective
<1>5. GraphTyped
  BY <1>1, <1>2, <1>3, <1>4 DEF GraphTyped
<1>6. Judged(node, retired, records, outrun)
  BY <1>2 DEF Judged, SoundBut, Provenance
<1>7. CompilesSee
  BY <1>1 DEF CompilesSee, CompileSees
<1> QED
  BY <1>5, <1>6, <1>7, WorkspaceInit DEF Clean

LEMMA CleanStep == Clean /\ [Next]_vars => Clean'
<1> SUFFICES ASSUME Clean, [Next]_vars PROVE Clean'
  OBVIOUS
<1>1. Workspace'
  BY WorkspaceStep DEF Clean
<1>2. CASE UNCHANGED vars
  <2>1. UNCHANGED <<graphFile, outrun, restructured>> /\ pc' = pc /\ job' = job
    BY <1>2 DEF vars, graphFile
  <2>2. node' = node /\ retired' = retired /\ restructured' = restructured
    BY <2>1 DEF graphFile
  <2>3. CompilesSee'
    BY <2>1, <2>2 DEF Clean, CompilesSee
  <2> QED
    BY <1>1, <2>1, <2>3, FileUntouched DEF Clean
<1>3. ASSUME NEW n \in DOMAIN node, Observe(n) PROVE Clean'
  BY <1>1, <1>3, ObserveClean
<1>4. ASSUME NEW s \in Sessions, Killed(s) PROVE Clean'
  BY <1>1, <1>4, OthersClean
<1>5. ASSUME NEW s \in Sessions, Step(s) PROVE Clean'
  <2>1. ASSUME NEW n \in DOMAIN Splits, NEW p \in Splits[n], Split(s, n, p) PROVE Clean'
    BY <1>1, <2>1, SplitStepClean
  <2>2. ASSUME NEW id \in DOMAIN Records, Retire(s, id) PROVE Clean'
    BY <1>1, <2>2, RetireClean
  <2>3. ASSUME NEW id \in DOMAIN Records, NEW r \in Records[id], RetireWithSource(s, id, r) PROVE Clean'
    BY <1>1, <2>3, RetireWithSourceClean
  <2>4. CompileLoad(s) \/ Compile(s) \/ CompileAppend(s) => Clean'
    BY <1>1, CompileLoadClean, CompileClean, CompileAppendClean
  <2>5. (\E p \in Proposals, c \in 1 .. MaxFragment : Propose(s, p, c)) \/
        ReserveRead(s) \/ ReserveWrite(s) \/ Park(s) \/
        Assemble(s) \/ AssembleMerge(s) \/ AssembleWrite(s) \/ AssembleConsume(s) \/
        CompileConsume(s) \/ GC(s) \/ GCRead(s) \/ GCRemove(s) => Clean'
    BY <1>1, OthersClean
  <2> QED
    BY <1>5, <2>1, <2>2, <2>3, <2>4, <2>5 DEF Step,
      ProposeCommand, AssembleCommand, CompileCommand, SplitCommand, RetireCommand
<1> QED
  BY <1>2, <1>3, <1>4, <1>5 DEF Next

LEMMA CleanMeans == Clean => CompiledGraphIsClean
<1> SUFFICES ASSUME Clean PROVE CompiledGraphIsClean
  OBVIOUS
<1>1. /\ NodesTyped(node, seq) /\ Lists(order, DOMAIN node) /\ seq \in 0 .. MaxSeq
      /\ retired \cap DOMAIN node \subseteq outrun /\ DOMAIN records \subseteq retired
      /\ WorkTyped /\ SessionsOK
  BY DEF Clean, GraphTyped, Workspace
<1>2. ASSUME NEW n \in DOMAIN node
      PROVE  node[n].deps \subseteq Ids /\ (node[n].obs # None => node[n].obs.seq <= seq)
  <2>1. PlanNode(node[n]) /\ ObsOK(node[n].obs, seq)
    BY <1>1 DEF NodesTyped
  <2>2. PICK o : o = node[n].obs
    OBVIOUS
  <2> QED
    BY <1>1, <2>1, <2>2 DEF PlanNode, ObsOK
<1>3. mark \in 0 .. MaxFragment /\ DOMAIN frag \subseteq 1 .. MaxFragment
  BY <1>1, PlanAssumption DEF WorkTyped
<1>4. Range(frag) \subseteq Proposals /\ (assembled # None => Len(assembled) = Cardinality(Declared(assembled)))
  BY <1>1 DEF WorkTyped, Range, Counted
<1>5. pc \in [Sessions -> Steps]
  BY <1>1 DEF SessionsOK, SessionOK
<1>6. DOMAIN node \subseteq Ids /\ Range(order) = DOMAIN node /\ IsInjective(order)
  BY <1>1 DEF NodesTyped, Lists
<1>7. TypeOK
  BY <1>1, <1>2, <1>3, <1>4, <1>5, <1>6 DEF TypeOK, Steps
<1>8. ASSUME DOMAIN node # {} PROVE Excused(Validate(node, retired, records, Source), outrun)
  BY <1>8, FileOf, ValidateMeans DEF FileTyped, Judged
<1>9. DOMAIN node # {} => \A f \in Validate(node, retired, records, Source) :
                            About(f) # {} /\ About(f) \subseteq outrun
  BY <1>8 DEF Excused
<1> QED
  BY <1>1, <1>6, <1>7, <1>9 DEF CompiledGraphIsClean, IdentifiersAreStable

\* The graph that compile, split and retire leave, with whatever other sessions
\* did to it meanwhile, is one that compile accepts, in which an id names one
\* node.  What is found in it is about nodes that compile appended itself to a
\* graph that was split, or had ids retired, since it judged them, or about nodes
\* that wait for one of these (compile.Run, ops.Split, ops.Retire).
THEOREM GraphStaysClean == Spec => []CompiledGraphIsClean
<1>1. Clean /\ [Next]_vars => Clean'
  BY CleanStep
<1> QED
  BY <1>1, CleanInit, CleanMeans, PTL DEF Spec

-----------------------------------------------------------------------------
(***************************************************************************)
(* No staged work is lost.                                                 *)
(***************************************************************************)
\* The ids that a node has or had; and those with what is or was assembled.
Done == DOMAIN node \cup retired
Safe == Done \cup InAssembled \cup replaced

\* The ids in S are safe, or declared in fragments F.
KeptIn(S, F, T) == \A n \in S : n \in T \/ \E f \in DOMAIN F : n \in Declared(F[f])

\* The fragment at the path, if it is one and there is one, declares only D.
Only(path, F, D) == path # 0 /\ path \in DOMAIN F => Declared(F[path]) \subseteq D

\* What a command at step l with data j may rely on when it takes away what
\* it has merged, compiled or found landed.
HoldsAt(l, j, F, D, T) ==
  /\ l = "assemble" => /\ j.payload # None
                       /\ \A f \in j.names \cap DOMAIN F : Declared(F[f]) \subseteq Declared(j.payload)
  /\ l = "consume" => \A f \in j.names \cap DOMAIN F : Declared(F[f]) \subseteq T
  /\ l \in {"append", "remove"} => Only(j.path, F, Declared(j.payload))
  /\ l = "remove" => Declared(j.payload) \subseteq D
  /\ l \in Collects => Range(j.payload) \subseteq D
  /\ l = "gcremove" => j.read \subseteq D /\ Only(j.path, F, D)

AllHold == \A s \in Sessions : HoldsAt(pc[s], job[s], frag, Done, Safe)

Listed == order \in Seq(Ids) /\ DOMAIN node \subseteq Range(order) /\ Range(order) \subseteq Done

Held == Workspace /\ Listed /\ KeptIn(offered, frag, Safe) /\ AllHold

LEMMA KeptMeans == KeptIn(offered, frag, Safe) => StagedWorkNotLost
BY DEF KeptIn, StagedWorkNotLost, Done, Safe

\* What a command relies on, after others changed what it does not touch.
LEMMA StillHolds ==
  ASSUME NEW l, NEW j, NEW F, NEW D, NEW T, HoldsAt(l, j, F, D, T),
         NEW G, NEW E, NEW U, D \subseteq E, T \subseteq U,
         \A f \in DOMAIN G : (f \in DOMAIN F /\ G[f] = F[f]) \/ (l \in Consumers => f \notin Touches(j))
  PROVE  HoldsAt(l, j, G, E, U)
<1>1. CASE l \notin Consumers
  BY <1>1, StepsDiffer DEF HoldsAt, Collects
<1>2. CASE l \in Consumers
  <2>1. /\ \A f \in DOMAIN G : f \in Touches(j) => f \in DOMAIN F /\ G[f] = F[f]
        /\ j.path \in Touches(j) /\ j.names \subseteq Touches(j)
    BY <1>2 DEF Touches
  <2>2. \A f \in j.names \cap DOMAIN G : f \in DOMAIN F /\ G[f] = F[f]
    BY <2>1
  <2>3. j.path \in DOMAIN G => j.path \in DOMAIN F /\ G[j.path] = F[j.path]
    BY <2>1
  <2>4. \A X, Y : X \subseteq Y /\ Only(j.path, F, X) => Only(j.path, G, Y)
    BY <2>3 DEF Only
  <2>5. (l = "assemble" => j.payload # None /\ \A f \in j.names \cap DOMAIN G : Declared(G[f]) \subseteq Declared(j.payload))
        /\ (l = "consume" => \A f \in j.names \cap DOMAIN G : Declared(G[f]) \subseteq U)
    BY <2>2 DEF HoldsAt
  <2>6. l \in {"append", "remove"} => Only(j.path, G, Declared(j.payload))
    BY <2>4 DEF HoldsAt
  <2>7. l = "gcremove" => j.read \subseteq E /\ Only(j.path, G, E)
    BY <2>4 DEF HoldsAt
  <2>8. (l = "remove" => Declared(j.payload) \subseteq E) /\ (l \in Collects => Range(j.payload) \subseteq E)
    BY DEF HoldsAt
  <2> QED
    BY <2>5, <2>6, <2>7, <2>8 DEF HoldsAt
<1> QED
  BY <1>1, <1>2

LEMMA HoldsNothing ==
  ASSUME NEW l, l \notin Consumers \/ l \in {"select", "merge"}, NEW j, NEW F, NEW D, NEW T
  PROVE  HoldsAt(l, j, F, D, T)
BY StepsDiffer DEF HoldsAt, Collects

LEMMA HeldStep ==
  ASSUME Held, NEW s \in Sessions, Alone(s), Workspace', Listed', Done \subseteq Done', Safe \subseteq Safe',
         KeptIn(offered', frag', Safe'),
         \A f \in DOMAIN frag' : \/ f \in DOMAIN frag /\ frag'[f] = frag[f]
                                 \/ pc[s] = "park" /\ f = job[s].path,
         HoldsAt(pc'[s], job'[s], frag', Done', Safe')
  PROVE  Held'
<1>1. PICK F, D, T : F = frag' /\ D = Done' /\ T = Safe'
  OBVIOUS
<1>2. ASSUME NEW t \in Sessions \ {s}
      PROVE  HoldsAt(pc[t], job[t], F, D, T)
  <2>1. /\ SessionOK(pc[s], job[s], DOMAIN frag, mark) /\ SessionOK(pc[t], job[t], DOMAIN frag, mark)
        /\ Apart(pc[s], job[s], pc[t], job[t]) /\ HoldsAt(pc[t], job[t], frag, Done, Safe)
    BY DEF Held, Workspace, SessionsOK, AllHold
  <2>2. \A f \in DOMAIN F : \/ f \in DOMAIN frag /\ F[f] = frag[f]
                            \/ pc[t] \in Consumers => f \notin Touches(job[t])
    BY <1>1, <2>1 DEF Apart
  <2> QED
    BY <1>1, <2>1, <2>2, StillHolds
<1>3. AllHold'
  BY <1>1, <1>2 DEF AllHold, Alone
<1> QED
  BY <1>3 DEF Held

\* A command that goes on, or ends, and takes nothing away.
LEMMA HeldOn ==
  ASSUME Held, NEW s \in Sessions, Alone(s), Workspace',
         UNCHANGED <<graphFile, frag, assembled, offered, replaced>>,
         HoldsAt(pc'[s], job'[s], frag, Done, Safe)
  PROVE  Held'
<1>1. /\ node' = node /\ order' = order /\ retired' = retired /\ frag' = frag /\ assembled' = assembled
      /\ offered' = offered /\ replaced' = replaced
  BY DEF graphFile
<1>2. Listed' /\ Done' = Done /\ Safe' = Safe /\ KeptIn(offered', frag', Safe')
  BY <1>1 DEF Held, Listed, Done, Safe, InAssembled
<1>3. HoldsAt(pc'[s], job'[s], frag', Done', Safe')
  BY <1>1, <1>2
<1> QED
  BY <1>1, <1>2, <1>3, HeldStep

\* A command that ends, or has not begun to take anything away.
LEMMA HeldIdly ==
  ASSUME Held, NEW s \in Sessions, Alone(s), Workspace',
         UNCHANGED <<graphFile, frag, assembled, offered, replaced>>,
         pc'[s] \notin Consumers \/ pc'[s] \in {"select", "merge"}
  PROVE  Held'
<1>1. HoldsAt(pc'[s], job'[s], frag, Done, Safe)
  BY HoldsNothing
<1> QED
  BY <1>1, HeldOn

\* A step elsewhere, on the graph file.
LEMMA HeldElsewhere ==
  ASSUME Held, Workspace', Listed', Done \subseteq Done', UNCHANGED <<workspace, pc, job, offered, replaced>>
  PROVE  Held'
<1>1. /\ frag' = frag /\ assembled' = assembled /\ pc' = pc /\ job' = job /\ offered' = offered
      /\ replaced' = replaced
  BY DEF workspace
<1>2. PICK E, U : E = Done' /\ U = Safe'
  OBVIOUS
<1>3. Safe \subseteq U
  BY <1>1, <1>2 DEF Safe, InAssembled
<1>4. ASSUME NEW s \in Sessions PROVE HoldsAt(pc[s], job[s], frag, E, U)
  <2>1. HoldsAt(pc[s], job[s], frag, Done, Safe)
    BY DEF Held, AllHold
  <2> QED
    BY <1>2, <1>3, <2>1, StillHolds
<1>5. AllHold'
  BY <1>1, <1>2, <1>4 DEF AllHold
<1>6. KeptIn(offered, frag, U)
  BY <1>3 DEF Held, KeptIn
<1> QED
  BY <1>1, <1>2, <1>5, <1>6 DEF Held

LEMMA SessionFacts ==
  ASSUME Held, NEW s \in Sessions
  PROVE  /\ SessionsOK /\ WorkTyped /\ SessionOK(pc[s], job[s], DOMAIN frag, mark)
         /\ job[s] = [x \in JobFields |-> job[s][x]]
         /\ job = [t \in Sessions |-> job[t]] /\ pc = [t \in Sessions |-> pc[t]]
         /\ HoldsAt(pc[s], job[s], frag, Done, Safe)
BY DEF Held, AllHold, Workspace, SessionsOK, SessionOK

LEMMA RefuseHeld ==
  ASSUME Held, Workspace', NEW s \in Sessions, Refuse(s)
  PROVE  Held'
<1>1. Finish(s) /\ UNCHANGED <<graphFile, frag, assembled, offered, replaced>>
  BY DEF Refuse, workspace, history
<1>2. Alone(s) /\ pc'[s] = "idle"
  BY <1>1, SessionFacts, FinishAlone
<1> QED
  BY <1>1, <1>2, HeldIdly, StepsDiffer

\* The steps that neither stage nor take anything away.
LEMMA IdleStepsHeld ==
  ASSUME Held, Workspace', NEW s \in Sessions,
         \/ \E p \in Proposals, c \in 1 .. MaxFragment : Propose(s, p, c)
         \/ ReserveRead(s) \/ ReserveWrite(s) \/ Assemble(s) \/ CompileLoad(s) \/ Killed(s)
  PROVE  Held'
<1>1. UNCHANGED <<graphFile, frag, assembled, offered, replaced>>
  BY DEF Propose, ReserveRead, ReserveWrite, Assemble, CompileLoad, Killed, workspace, history
<1>2. CASE Finish(s)
  BY <1>1, <1>2, SessionFacts, FinishAlone, HeldIdly, StepsDiffer
<1>3. CASE /\ \E l \in {"reserve", "reserved", "park", "merge", "select"} : Goto(s, l)
           /\ \A t \in Sessions \ {s} : job'[t] = job[t]
  <2>1. PICK l \in {"reserve", "reserved", "park", "merge", "select"} : Goto(s, l)
    BY <1>3
  <2>2. Alone(s) /\ pc'[s] = l
    BY <1>3, <2>1, SessionFacts, AloneHere DEF Alone
  <2> QED
    BY <1>1, <2>1, <2>2, HeldIdly, StepsDiffer
<1>4. ASSUME NEW p \in Proposals, NEW c \in 1 .. MaxFragment, Propose(s, p, c)
      PROVE  Goto(s, "reserve") /\ \A t \in Sessions \ {s} : job'[t] = job[t]
  BY <1>4, SessionFacts DEF Propose
<1>5. ReserveRead(s) => Goto(s, "reserved") /\ \A t \in Sessions \ {s} : job'[t] = job[t]
  BY SessionFacts DEF ReserveRead
<1>6. ReserveWrite(s) =>
        Finish(s) \/ ((\E l \in {"reserve", "park"} : Goto(s, l)) /\ \A t \in Sessions \ {s} : job'[t] = job[t])
  BY SessionFacts DEF ReserveWrite
<1>7. CompileLoad(s) => Goto(s, "select") /\ \A t \in Sessions \ {s} : job'[t] = job[t]
  BY SessionFacts DEF CompileLoad
<1>8. Assemble(s) => Goto(s, "merge") /\ \A t \in Sessions \ {s} : job'[t] = job[t]
  BY SessionFacts DEF Assemble
<1>9. Killed(s) => Finish(s)
  BY DEF Killed
<1> QED
  BY <1>2, <1>3, <1>4, <1>5, <1>6, <1>7, <1>8, <1>9

LEMMA ParkHeld ==
  ASSUME Held, Workspace', NEW s \in Sessions, Park(s)
  PROVE  Held'
<1>1. SessionOK(pc[s], job[s], DOMAIN frag, mark) /\ SessionsOK /\ pc[s] = "park"
  BY SessionFacts DEF Park
<1>2. PICK path, p : path = job[s].path /\ p = job[s].payload
  OBVIOUS
<1>3. path \notin DOMAIN frag
  BY <1>1, <1>2 DEF SessionOK
<1>4. frag' = [f \in DOMAIN frag \cup {path} |-> IF f = path THEN p ELSE frag[f]]
  BY <1>2 DEF Park, With
<1>5. Finish(s) /\ assembled' = assembled /\ UNCHANGED graphFile /\ offered' = offered \cup Declared(p)
      /\ replaced' = replaced
  BY <1>2 DEF Park
<1>6. Alone(s) /\ pc'[s] = "idle"
  BY <1>1, <1>5, FinishAlone
<1>7. Listed' /\ Done' = Done /\ Safe' = Safe
  BY <1>5 DEF Held, Listed, Done, Safe, InAssembled, graphFile
<1>8. KeptIn(offered', frag', Safe')
  <2>1. KeptIn(offered, frag, Safe)
    BY DEF Held
  <2>2. DOMAIN frag' = DOMAIN frag \cup {path} /\ frag'[path] = p /\ \A f \in DOMAIN frag : frag'[f] = frag[f]
    BY <1>3, <1>4
  <2> QED
    BY <1>5, <1>7, <2>1, <2>2 DEF KeptIn
<1>9. HoldsAt(pc'[s], job'[s], frag', Done', Safe')
  BY <1>6, HoldsNothing, StepsDiffer
<1>10. \A f \in DOMAIN frag' : (f \in DOMAIN frag /\ frag'[f] = frag[f]) \/ (pc[s] = "park" /\ f = job[s].path)
  BY <1>1, <1>2, <1>4
<1> QED
  BY <1>6, <1>7, <1>8, <1>9, <1>10, HeldStep

LEMMA AssembleMergeHeld ==
  ASSUME Held, Workspace', NEW s \in Sessions, AssembleMerge(s)
  PROVE  Held'
<1>1. /\ SessionOK(pc[s], job[s], DOMAIN frag, mark) /\ SessionsOK /\ WorkTyped /\ pc[s] = "merge"
      /\ job = [t \in Sessions |-> job[t]] /\ job[s] = [x \in JobFields |-> job[s][x]]
  BY SessionFacts DEF AssembleMerge
<1>2. PICK m : m = MergedFragments(job[s].names)
  OBVIOUS
<1>3. PICK j : j = [job[s] EXCEPT !.payload = m]
  OBVIOUS
<1>4. CASE job[s].names \subseteq DOMAIN frag /\ m # None
  <2>1. /\ job' = [job EXCEPT ![s] = j] /\ pc' = [pc EXCEPT ![s] = "assemble"]
        /\ UNCHANGED <<graphFile, frag, assembled, offered, replaced>>
    BY <1>1, <1>2, <1>3, <1>4 DEF AssembleMerge, Goto, workspace, history
  <2>2. j.payload = m /\ j.names = job[s].names
    BY <1>1, <1>3 DEF JobFields
  <2>3. \A f \in j.names : Declared(frag[f]) \subseteq Declared(m)
    BY <1>1, <1>2, <1>4, <2>2, StagedCounted DEF SessionOK
  <2>4. HoldsAt("assemble", j, frag, Done, Safe)
    BY <1>4, <2>2, <2>3 DEF HoldsAt, Collects
  <2>5. Alone(s) /\ pc'[s] = "assemble" /\ job'[s] = j
    BY <1>1, <2>1, AloneMeans
  <2> QED
    BY <2>1, <2>4, <2>5, HeldOn
<1>5. CASE ~(job[s].names \subseteq DOMAIN frag /\ m # None)
  BY <1>2, <1>5, RefuseHeld DEF AssembleMerge
<1> QED
  BY <1>4, <1>5

LEMMA AssembleWriteHeld ==
  ASSUME Held, Workspace', NEW s \in Sessions, AssembleWrite(s)
  PROVE  Held'
<1>0. PICK p : p = job[s].payload
  OBVIOUS
<1>1. /\ SessionsOK /\ pc[s] = "assemble" /\ HoldsAt(pc[s], job[s], frag, Done, Safe)
      /\ SessionOK(pc[s], job[s], DOMAIN frag, mark)
      /\ assembled' = p /\ frag' = frag /\ job' = job /\ offered' = offered
      /\ replaced' = replaced \cup (InAssembled \ Declared(p))
      /\ UNCHANGED graphFile /\ Goto(s, "consume")
  BY <1>0, SessionFacts DEF AssembleWrite
<1>2. Alone(s) /\ pc'[s] = "consume"
  BY <1>1, AloneHere
<1>3. Listed' /\ Done' = Done
  BY <1>1 DEF Held, Listed, Done, graphFile
<1>4. p # None
  BY <1>0, <1>1 DEF HoldsAt
<1>5. Safe \subseteq Safe' /\ Declared(p) \subseteq Safe'
  BY <1>1, <1>3, <1>4 DEF Safe, InAssembled
<1>6. KeptIn(offered', frag', Safe')
  BY <1>1, <1>5 DEF Held, KeptIn
<1>7. HoldsAt(pc'[s], job'[s], frag', Done', Safe')
  BY <1>0, <1>1, <1>2, <1>5 DEF HoldsAt, Collects
<1> QED
  BY <1>1, <1>2, <1>3, <1>5, <1>6, <1>7, HeldStep

LEMMA AssembleConsumeHeld ==
  ASSUME Held, Workspace', NEW s \in Sessions, AssembleConsume(s)
  PROVE  Held'
<1>1. /\ SessionsOK /\ pc[s] = "consume" /\ HoldsAt(pc[s], job[s], frag, Done, Safe)
      /\ job = [t \in Sessions |-> job[t]] /\ pc = [t \in Sessions |-> pc[t]]
      /\ job[s] = [x \in JobFields |-> job[s][x]] /\ SessionOK(pc[s], job[s], DOMAIN frag, mark)
  BY SessionFacts DEF AssembleConsume
<1>2. PICK f : f = Min(job[s].names)
  OBVIOUS
<1>3. CASE job[s].names = {} \/ f \notin DOMAIN frag
  BY <1>2, <1>3, RefuseHeld DEF AssembleConsume
<1>4. CASE ~(job[s].names = {} \/ f \notin DOMAIN frag)
  <2>1. PICK j : j = [job[s] EXCEPT !.names = @ \ {f}]
    OBVIOUS
  <2>2. /\ frag' = Without(frag, f) /\ job' = [job EXCEPT ![s] = j] /\ pc' = [pc EXCEPT ![s] = "consume"]
        /\ assembled' = assembled /\ UNCHANGED graphFile /\ offered' = offered /\ replaced' = replaced
    BY <1>1, <1>2, <1>4, <2>1 DEF AssembleConsume, history
  <2>3. j.names = job[s].names \ {f}
    BY <1>1, <2>1 DEF JobFields
  <2>4. DOMAIN frag' = DOMAIN frag \ {f} /\ \A g \in DOMAIN frag' : frag'[g] = frag[g]
    BY <2>2 DEF Without
  <2>5. f \in job[s].names
    <3>1. job[s].names \subseteq Nat
      BY <1>1, PlanAssumption, StepsDiffer, SessionFacts DEF SessionOK, Touches, WorkTyped
    <3> QED
      BY <1>2, <1>4, <3>1, MinIsIn
  <2>6. Alone(s) /\ pc'[s] = "consume" /\ job'[s] = j
    BY <1>1, <2>2, AloneMeans
  <2>7. Listed' /\ Done' = Done /\ Safe' = Safe
    BY <2>2 DEF Held, Listed, Done, Safe, InAssembled, graphFile
  <2>8. KeptIn(offered, frag', Safe)
    <3>1. Declared(frag[f]) \subseteq Safe
      BY <1>1, <1>4, <2>5 DEF HoldsAt
    <3> QED
      BY <2>4, <3>1 DEF Held, KeptIn
  <2>9. HoldsAt("consume", j, frag', Done, Safe)
    BY <1>1, <2>3, <2>4 DEF HoldsAt, Collects
  <2> QED
    BY <2>2, <2>4, <2>6, <2>7, <2>8, <2>9, HeldStep
<1> QED
  BY <1>3, <1>4

LEMMA CompileHeld ==
  ASSUME Held, Workspace', NEW s \in Sessions, Compile(s)
  PROVE  Held'
<1>1. /\ job = [t \in Sessions |-> job[t]] /\ pc[s] = "select" /\ SessionsOK /\ WorkTyped
      /\ job[s] = [x \in JobFields |-> job[s][x]]
  BY SessionFacts DEF Compile
<1>2. PICK chosen : chosen = {path \in Selected : Acceptable(job[s].base, Payload(path))}
  OBVIOUS
<1>3. CASE chosen = {}
  BY <1>2, <1>3, RefuseHeld DEF Compile
<1>4. CASE chosen # {}
  <2>1. PICK path, p : path = (CHOOSE x \in chosen : TRUE) /\ p = Payload(path)
    OBVIOUS
  <2>2. PICK j : j = [job[s] EXCEPT !.path = path, !.payload = p, !.base = None]
    OBVIOUS
  <2>3. /\ job' = [job EXCEPT ![s] = j] /\ pc' = [pc EXCEPT ![s] = "append"]
        /\ UNCHANGED <<graphFile, frag, assembled, offered, replaced>>
    BY <1>1, <1>2, <1>4, <2>1, <2>2 DEF Compile, Goto, workspace, history
  <2>4. Alone(s) /\ pc'[s] = "append" /\ job'[s] = j
    BY <1>1, <2>3, AloneMeans
  <2>5. j.payload = p /\ j.path = path
    BY <1>1, <2>2 DEF JobFields
  <2>6. Only(path, frag, Declared(p))
    BY <2>1 DEF Only, Payload
  <2>7. HoldsAt("append", j, frag, Done, Safe)
    BY <2>5, <2>6 DEF HoldsAt, Collects
  <2> QED
    BY <2>3, <2>4, <2>7, HeldOn
<1> QED
  BY <1>3, <1>4

\* What the order lists once p is appended.
LEMMA AppendedListed ==
  ASSUME NEW o \in Seq(Ids), NEW p, WellFormed(p)
  PROVE  LET z == o \o [i \in DOMAIN p |-> p[i].id]
         IN  z \in Seq(Ids) /\ Range(z) = Range(o) \cup Declared(p)
<1> DEFINE z == o \o [i \in DOMAIN p |-> p[i].id]
<1>1. Appended(z, o, p)
  BY AppendedIds
<1> HIDE DEF z
<1>2. ASSUME NEW n \in Range(o) \cup Declared(p) PROVE n \in Range(z)
  BY <1>1 DEF Appended, Range, Declared
<1>3. ASSUME NEW n \in Range(z) PROVE n \in Range(o) \cup Declared(p)
  BY <1>1 DEF Appended, Range, Declared
<1> QED
  BY <1>1, <1>2, <1>3 DEF Appended, z

LEMMA CompileAppendHeld ==
  ASSUME Held, Workspace', NEW s \in Sessions, CompileAppend(s)
  PROVE  Held'
<1>1. /\ SessionsOK /\ SessionOK(pc[s], job[s], DOMAIN frag, mark) /\ pc[s] = "append"
      /\ HoldsAt(pc[s], job[s], frag, Done, Safe)
  BY SessionFacts DEF CompileAppend
<1>2. PICK p : p = job[s].payload
  OBVIOUS
<1>3. CASE ~AllNew(p)
  BY <1>2, <1>3, RefuseHeld DEF CompileAppend
<1>4. CASE AllNew(p)
  <2>1. WellFormed(p)
    BY <1>1, <1>2, StageableIs DEF SessionOK
  <2>2. PICK z : z = order \o [i \in DOMAIN p |-> p[i].id]
    OBVIOUS
  <2>3. z \in Seq(Ids) /\ Range(z) = Range(order) \cup Declared(p)
    BY <2>1, <2>2, AppendedListed DEF Held, Listed
  <2>4. /\ order' = z /\ node' = Merged(node, {}, p) /\ retired' = retired /\ frag' = frag
        /\ assembled' = assembled /\ offered' = offered /\ replaced' = replaced /\ job' = job
        /\ Goto(s, "remove")
    BY <1>2, <1>4, <2>2 DEF CompileAppend, workspace
  <2>5. DOMAIN node' = DOMAIN node \cup Declared(p)
    BY <2>4 DEF Merged
  <2>6. Done' = Done \cup Declared(p) /\ Safe \subseteq Safe'
    BY <2>4, <2>5 DEF Done, Safe, InAssembled
  <2>7. Listed'
    BY <2>3, <2>4, <2>5, <2>6 DEF Held, Listed
  <2>8. KeptIn(offered', frag', Safe')
    BY <2>4, <2>6 DEF Held, KeptIn
  <2>9. Alone(s) /\ pc'[s] = "remove"
    BY <1>1, <2>4, AloneHere
  <2>10. HoldsAt(pc'[s], job'[s], frag', Done', Safe')
    BY <1>1, <1>2, <2>4, <2>6, <2>9 DEF HoldsAt, Collects
  <2> QED
    BY <2>4, <2>6, <2>7, <2>8, <2>9, <2>10, HeldStep
<1> QED
  BY <1>2, <1>3, <1>4

\* What was read of a payload landed: it may go, and what took its place is
\* replaced if it is an assembled set.
LEMMA RemovedHeld ==
  ASSUME Held, NEW path, NEW read, RemovePayload(path, read), UNCHANGED <<graphFile, offered>>,
         read \subseteq Done, Only(path, frag, Done)
  PROVE  /\ Listed' /\ Done' = Done /\ Safe \subseteq Safe'
         /\ KeptIn(offered', frag', Safe')
         /\ \A f \in DOMAIN frag' : f \in DOMAIN frag /\ frag'[f] = frag[f]
<1>1. Listed' /\ Done' = Done
  BY DEF Held, Listed, Done, graphFile
<1>2. KeptIn(offered, frag, Safe)
  BY DEF Held
<1>3. CASE path = 0
  <2>1. assembled' = None /\ frag' = frag /\ replaced' = replaced \cup (InAssembled \ read)
    BY <1>3 DEF RemovePayload
  <2>2. Safe \subseteq Safe'
    BY <1>1, <2>1 DEF Safe
  <2> QED
    BY <1>1, <1>2, <2>1, <2>2 DEF KeptIn
<1>4. CASE path # 0
  <2>1. /\ assembled' = assembled /\ replaced' = replaced
        /\ DOMAIN frag' = DOMAIN frag \ {path} /\ \A f \in DOMAIN frag' : frag'[f] = frag[f]
    BY <1>4 DEF RemovePayload, Without
  <2>2. path \in DOMAIN frag => Declared(frag[path]) \subseteq Done
    BY <1>4 DEF Only
  <2>3. Safe' = Safe /\ Done \subseteq Safe
    BY <1>1, <2>1 DEF Safe, InAssembled
  <2> QED
    BY <1>1, <1>2, <2>1, <2>2, <2>3 DEF KeptIn
<1> QED
  BY <1>3, <1>4

LEMMA CompileConsumeHeld ==
  ASSUME Held, Workspace', NEW s \in Sessions, CompileConsume(s)
  PROVE  Held'
<1>1. /\ SessionsOK /\ WorkTyped /\ pc[s] = "remove" /\ HoldsAt(pc[s], job[s], frag, Done, Safe)
  BY SessionFacts DEF CompileConsume
<1>2. PICK path, p : path = job[s].path /\ p = job[s].payload
  OBVIOUS
<1>3. CASE ~Present(path)
  BY <1>2, <1>3, RefuseHeld DEF CompileConsume
<1>4. CASE Present(path)
  <2>1. RemovePayload(path, Declared(p)) /\ Finish(s) /\ UNCHANGED <<graphFile, offered>>
    BY <1>2, <1>4 DEF CompileConsume
  <2>2. Declared(p) \subseteq Done /\ Only(path, frag, Done)
    BY <1>1, <1>2 DEF HoldsAt, Only
  <2>3. /\ Listed' /\ Done' = Done /\ Safe \subseteq Safe' /\ KeptIn(offered', frag', Safe')
        /\ \A f \in DOMAIN frag' : f \in DOMAIN frag /\ frag'[f] = frag[f]
    BY <2>1, <2>2, RemovedHeld
  <2>4. Alone(s) /\ pc'[s] = "idle"
    BY <1>1, <2>1, FinishAlone
  <2>5. HoldsAt(pc'[s], job'[s], frag', Done', Safe')
    BY <2>4, HoldsNothing, StepsDiffer
  <2> QED
    BY <2>3, <2>4, <2>5, HeldStep
<1> QED
  BY <1>3, <1>4

LEMMA GCHeld ==
  ASSUME Held, Workspace', NEW s \in Sessions, GC(s)
  PROVE  Held'
<1> DEFINE all == DOMAIN frag \cup (IF assembled # None THEN {0} ELSE {})
<1>1. PICK j : j = [NoJob EXCEPT !.cmd = "gc", !.payload = order, !.names = all]
  OBVIOUS
<1>2. pc' = [pc EXCEPT ![s] = "gc"] /\ job' = [job EXCEPT ![s] = j]
      /\ UNCHANGED <<graphFile, frag, assembled, offered, replaced>>
  BY <1>1 DEF GC, Goto, workspace, history
<1>3. Alone(s) /\ pc'[s] = "gc" /\ job'[s] = j
  BY <1>2, SessionFacts, AloneMeans
<1>4. j.payload = order
  BY <1>1 DEF NoJob
<1>5. HoldsAt("gc", j, frag, Done, Safe)
  BY <1>4 DEF HoldsAt, Held, Listed
<1> QED
  BY <1>2, <1>3, <1>5, HeldOn

LEMMA GCReadHeld ==
  ASSUME Held, Workspace', NEW s \in Sessions, GCRead(s)
  PROVE  Held'
<1>1. /\ SessionsOK /\ pc[s] = "gc" /\ HoldsAt(pc[s], job[s], frag, Done, Safe)
      /\ job = [t \in Sessions |-> job[t]] /\ job[s] = [x \in JobFields |-> job[s][x]]
  BY SessionFacts DEF GCRead
<1>2. CASE job[s].names = {}
  BY <1>2, RefuseHeld DEF GCRead
<1>3. CASE job[s].names # {}
  <2>1. PICK path : path = GCPath(job[s].names)
    OBVIOUS
  <2>2. PICK l \in {"gc", "gcremove"} : \E seen : GCLooks(s, path, l, seen)
    BY <1>1, <1>3, <2>1, GCReads
  <2>3. PICK seen :
          /\ pc' = [pc EXCEPT ![s] = l] /\ UNCHANGED <<graphFile, workspace, bounds, history>>
          /\ job' = [job EXCEPT ![s] = [job[s] EXCEPT !.names = @ \ {path}, !.path = path, !.read = seen]]
          /\ l = "gcremove" => /\ Present(path) /\ seen = Declared(Payload(path))
                              /\ Stale(Payload(path), job[s].payload)
    BY <2>2 DEF GCLooks
  <2>4. PICK j : j = [job[s] EXCEPT !.names = @ \ {path}, !.path = path, !.read = seen]
    OBVIOUS
  <2>5. /\ pc' = [pc EXCEPT ![s] = l] /\ job' = [job EXCEPT ![s] = j]
        /\ UNCHANGED <<graphFile, frag, assembled, offered, replaced>>
    BY <2>3, <2>4 DEF workspace, history
  <2>6. Alone(s) /\ pc'[s] = l /\ job'[s] = j
    BY <1>1, <2>5, AloneMeans
  <2>7. j.path = path /\ j.payload = job[s].payload /\ j.read = seen
    BY <1>1, <2>4 DEF JobFields
  <2>8. Range(job[s].payload) \subseteq Done
    BY <1>1 DEF HoldsAt, Collects
  <2>9. l = "gcremove" => seen \subseteq Done /\ Only(path, frag, Done)
    BY <2>3, <2>8 DEF Stale, Payload, Only
  <2>10. HoldsAt(l, j, frag, Done, Safe)
    BY <2>7, <2>8, <2>9 DEF HoldsAt
  <2> QED
    BY <2>5, <2>6, <2>10, HeldOn
<1> QED
  BY <1>2, <1>3

LEMMA GCRemoveHeld ==
  ASSUME Held, Workspace', NEW s \in Sessions, GCRemove(s)
  PROVE  Held'
<1>1. /\ SessionsOK /\ WorkTyped /\ pc[s] = "gcremove" /\ HoldsAt(pc[s], job[s], frag, Done, Safe)
  BY SessionFacts DEF GCRemove
<1>2. PICK path, seen : path = job[s].path /\ seen = job[s].read
  OBVIOUS
<1>3. CASE ~Present(path)
  BY <1>2, <1>3, RefuseHeld DEF GCRemove
<1>4. CASE Present(path)
  <2>1. RemovePayload(path, seen) /\ Goto(s, "gc") /\ UNCHANGED <<graphFile, offered>> /\ job' = job
    BY <1>2, <1>4 DEF GCRemove
  <2>2. seen \subseteq Done /\ Only(path, frag, Done) /\ Range(job[s].payload) \subseteq Done
    BY <1>1, <1>2 DEF HoldsAt, Collects
  <2>3. /\ Listed' /\ Done' = Done /\ Safe \subseteq Safe' /\ KeptIn(offered', frag', Safe')
        /\ \A f \in DOMAIN frag' : f \in DOMAIN frag /\ frag'[f] = frag[f]
    BY <2>1, <2>2, RemovedHeld
  <2>4. Alone(s) /\ pc'[s] = "gc" /\ job'[s] = job[s]
    BY <1>1, <2>1, AloneHere
  <2>5. HoldsAt(pc'[s], job'[s], frag', Done', Safe')
    BY <2>2, <2>3, <2>4 DEF HoldsAt
  <2> QED
    BY <2>3, <2>4, <2>5, HeldStep
<1> QED
  BY <1>3, <1>4

LEMMA SplitHeld ==
  ASSUME Held, Workspace', NEW s \in Sessions, NEW n \in DOMAIN Splits, NEW p \in Splits[n], Split(s, n, p)
  PROVE  Held'
<1>1. WellFormed(p)
  BY PlanAssumption
<1>2. /\ order \in Seq(Ids) /\ DOMAIN node \subseteq Range(order) /\ Range(order) \subseteq Done
  BY DEF Held, Listed
<1>3. n \in DOMAIN node /\ UNCHANGED <<workspace, pc, job, offered, replaced>>
      /\ DOMAIN node' = (DOMAIN node \ {n}) \cup Declared(p) /\ retired' = retired \cup {n}
  BY DEF Split, SplitAllowed, AfterSplit, Restructure
<1>4. PICK k : k = CHOOSE i \in DOMAIN order : order[i] = n
  OBVIOUS
<1>5. k \in DOMAIN order /\ order[k] = n
  BY <1>2, <1>3, <1>4 DEF Range
<1>6. PICK z : z = RemoveAt(order, k)
  OBVIOUS
<1>7. z \in Seq(Ids) /\ Range(z) \subseteq Range(order) /\ Range(order) \ {n} \subseteq Range(z)
  <2>1. /\ z \in Seq(Ids) /\ DOMAIN z = 1 .. Len(order) - 1 /\ Len(order) \in Nat /\ DOMAIN order = 1 .. Len(order)
        /\ \A i \in 1 .. Len(order) - 1 : z[i] = IF i < k THEN order[i] ELSE order[i + 1]
    BY <1>2, <1>5, <1>6, RemovedAt
  <2>2. ASSUME NEW i \in DOMAIN z PROVE z[i] \in Range(order)
    BY <1>5, <2>1 DEF Range
  <2>3. ASSUME NEW j \in DOMAIN order, order[j] # n PROVE \E i \in DOMAIN z : z[i] = order[j]
    <3>1. CASE j < k
      BY <1>5, <2>1, <3>1
    <3>2. CASE j > k
      <4>1. j - 1 \in DOMAIN z /\ z[j - 1] = order[j]
        BY <1>5, <2>1, <3>2
      <4> QED
        BY <4>1
    <3> QED
      BY <1>5, <2>1, <2>3, <3>1, <3>2
  <2> QED
    BY <2>1, <2>2, <2>3 DEF Range
<1>8. PICK y : y = z \o [i \in DOMAIN p |-> p[i].id]
  OBVIOUS
<1>9. y \in Seq(Ids) /\ Range(y) = Range(z) \cup Declared(p)
  BY <1>1, <1>7, <1>8, AppendedListed
<1>10. order' = y
  BY <1>4, <1>6, <1>8 DEF Split
<1>11. Done \subseteq Done' /\ Declared(p) \subseteq Done'
  BY <1>3 DEF Done
<1>12. Listed'
  BY <1>2, <1>3, <1>7, <1>9, <1>10, <1>11 DEF Listed
<1> QED
  BY <1>3, <1>11, <1>12, HeldElsewhere

LEMMA RetiredHeld ==
  ASSUME Held, Workspace', UNCHANGED <<order, workspace, pc, job, offered, replaced>>,
         DOMAIN node' = DOMAIN node, retired \subseteq retired'
  PROVE  Held'
<1>1. Done \subseteq Done'
  BY DEF Done
<1>2. Listed'
  BY <1>1 DEF Held, Listed
<1> QED
  BY <1>1, <1>2, HeldElsewhere

LEMMA HeldInit == Init => Held
<1> SUFFICES ASSUME Init PROVE Held
  OBVIOUS
<1>1. /\ node = [n \in {} |-> None] /\ order = <<>> /\ offered = {} /\ \A s \in Sessions : pc[s] = "idle"
  BY DEF Init
<1>2. Listed
  <2>1. order \in Seq(Ids) /\ DOMAIN order = {} /\ DOMAIN node = {}
    BY <1>1
  <2> QED
    BY <2>1 DEF Listed, Range
<1>3. KeptIn(offered, frag, Safe)
  BY <1>1 DEF KeptIn
<1>4. AllHold
  BY <1>1, HoldsNothing, StepsDiffer DEF AllHold
<1> QED
  BY <1>2, <1>3, <1>4, WorkspaceInit DEF Held

LEMMA HeldNext == Held /\ [Next]_vars => Held'
<1> SUFFICES ASSUME Held, [Next]_vars PROVE Held'
  OBVIOUS
<1>1. Workspace'
  BY WorkspaceStep DEF Held
<1>2. CASE UNCHANGED vars
  BY <1>1, <1>2, RetiredHeld DEF vars, workspace
<1>3. ASSUME NEW n \in DOMAIN node, Observe(n) PROVE Held'
  <2>1. DOMAIN node' = DOMAIN node /\ UNCHANGED <<order, workspace, pc, job, offered, replaced>> /\ retired' = retired
    BY <1>3 DEF Observe
  <2> QED
    BY <1>1, <2>1, RetiredHeld
<1>4. ASSUME NEW s \in Sessions, Killed(s) PROVE Held'
  BY <1>1, <1>4, IdleStepsHeld
<1>5. ASSUME NEW s \in Sessions, Step(s) PROVE Held'
  <2>1. ASSUME NEW n \in DOMAIN Splits, NEW p \in Splits[n], Split(s, n, p) PROVE Held'
    BY <1>1, <2>1, SplitHeld
  <2>2. ASSUME NEW id \in DOMAIN Records, Retire(s, id) PROVE Held'
    BY <1>1, <2>2, RetiredHeld DEF Retire, Restructure
  <2>3. ASSUME NEW id \in DOMAIN Records, NEW r \in Records[id], RetireWithSource(s, id, r) PROVE Held'
    BY <1>1, <2>3, RetiredHeld DEF RetireWithSource, Restructure
  <2>4. (\E p \in Proposals, c \in 1 .. MaxFragment : Propose(s, p, c)) \/
        ReserveRead(s) \/ ReserveWrite(s) \/ Assemble(s) \/ CompileLoad(s) => Held'
    BY <1>1, IdleStepsHeld
  <2>5. Park(s) \/ AssembleMerge(s) \/ AssembleWrite(s) \/ AssembleConsume(s) => Held'
    BY <1>1, ParkHeld, AssembleMergeHeld, AssembleWriteHeld, AssembleConsumeHeld
  <2>6. Compile(s) \/ CompileAppend(s) \/ CompileConsume(s) => Held'
    BY <1>1, CompileHeld, CompileAppendHeld, CompileConsumeHeld
  <2>7. GC(s) \/ GCRead(s) \/ GCRemove(s) => Held'
    BY <1>1, GCHeld, GCReadHeld, GCRemoveHeld
  <2> QED
    BY <1>5, <2>1, <2>2, <2>3, <2>4, <2>5, <2>6, <2>7 DEF Step,
      ProposeCommand, AssembleCommand, CompileCommand, SplitCommand, RetireCommand
<1> QED
  BY <1>2, <1>3, <1>4, <1>5 DEF Next

\* What propose accepted is staged until it is in the graph, whoever is killed
\* when and whatever commands overlap; but for what was in an assembled set
\* when another was written over it or when it was taken for one that had
\* landed (staging.go, compile.go, ops.gcStagedPayloads).
THEOREM NothingStagedIsLost == Spec => []StagedWorkNotLost
<1>1. Held /\ [Next]_vars => Held'
  BY HeldNext
<1>2. Held => StagedWorkNotLost
  BY KeptMeans DEF Held
<1> QED
  BY <1>1, <1>2, HeldInit, PTL DEF Spec

=============================================================================
