------------------------- MODULE GraphReview_proofs -------------------------
(***************************************************************************)
(* Theorems about GraphReview, for every plan, set of reports, sessions    *)
(* and bound.                                                              *)
(***************************************************************************)
EXTENDS GraphReview, GraphStates_proofs

USE ReviewAssumption, NoneAssumption

-----------------------------------------------------------------------------
(***************************************************************************)
(* Scopes and changes of the graph.                                        *)
(***************************************************************************)
\* What a gate reviews is in the graph, whatever states are derived.
LEMMA ScopeInGraph ==
  ASSUME NEW g, NEW n
  PROVE  /\ CurrentScope(g, n) \subseteq DOMAIN g
         /\ PresentDeps(g, n) \subseteq DOMAIN g
<1>1. DependencyClosure(g, n) \subseteq DOMAIN g
  BY DEF DependencyClosure, Least
<1>2. \A S : ReviewScope(g, n, S) \subseteq DependencyClosure(g, n)
  BY DEF ReviewScope
<1> QED
  BY <1>1, <1>2 DEF CurrentScope, ReviewScopeFromStates, PresentDeps

\* A compiled payload is a node that nothing has been observed of.
LEMMA CompiledTyped ==
  ASSUME NEW p \in Payload
  PROVE  /\ Compiled(p) \in NodeRecord
         /\ Compiled(p).deps = p.deps /\ Compiled(p).tests = p.tests
         /\ Compiled(p).gate = p.gate
         /\ Compiled(p).obs = None /\ Compiled(p).red = {}
BY DEF Compiled, Payload, NodeRecord

\* A revise keeps the shape of a node and all it is not about.
LEMMA RevisedTyped ==
  ASSUME NEW g, NEW n \in DOMAIN g, g[n] \in NodeRecord,
         NEW c \in Contents, n \in DOMAIN c.revise
  PROVE  LET r == Revised(g, n, c)
         IN  /\ r \in NodeRecord
             /\ r.deps = g[n].deps /\ r.gate = g[n].gate /\ r.rev = g[n].rev
             /\ r.red = g[n].red /\ r.obs = g[n].obs
             /\ r.tests = Over(c.revise[n].tests, g[n].tests)
             /\ r.tests \in Gates \cup {{}}
<1>1. /\ c.revise[n].contract \in Contracts \cup {None}
      /\ c.revise[n].tests \in Gates \cup {None}
  OBVIOUS
<1> DEFINE contract == Over(c.revise[n].contract, g[n].contract)
           tests    == Over(c.revise[n].tests, g[n].tests)
<1>2. contract \in Contracts /\ tests \in Gates \cup {{}}
  BY <1>1 DEF Over, NodeRecord
<1>3. Revised(g, n, c) = [g[n] EXCEPT !.contract = contract, !.tests = tests]
  BY DEF Revised
<1> HIDE DEF contract, tests
<1>4. /\ [g[n] EXCEPT !.contract = contract, !.tests = tests] \in NodeRecord
      /\ [g[n] EXCEPT !.contract = contract, !.tests = tests].tests = tests
  BY <1>2 DEF NodeRecord
<1>5. LET r == [g[n] EXCEPT !.contract = contract, !.tests = tests]
      IN  /\ r.deps = g[n].deps /\ r.gate = g[n].gate /\ r.rev = g[n].rev
          /\ r.red = g[n].red /\ r.obs = g[n].obs
  BY DEF NodeRecord
<1> QED
  BY <1>2, <1>3, <1>4, <1>5 DEF tests

\* The graph's part of the type invariant, of any graph.
Shape(g) == /\ DOMAIN g \subseteq Ids
            /\ g \in [DOMAIN g -> NodeRecord]
            /\ \A n \in DOMAIN g : g[n].gate = "tests" \/ g[n].tests = {}

\* Pinning a legacy review gives its observation a reviewed set and nothing else.
LEMMA PinnedTyped ==
  ASSUME NEW g, Shape(g), NEW n \in DOMAIN g
  PROVE  LET v == g[n].obs
             w == ReviewPinned(g, n)
         IN  /\ w \in {None} \cup Observation
             /\ v = None <=> w = None
             /\ v # None => /\ w.result = v.result /\ w.rev = v.rev
                            /\ w.seq = v.seq /\ w.report = v.report
<1> DEFINE v == g[n].obs
           L == LegacyReviewedSet(g, n)
<1>1. v \in {None} \cup Observation
  BY DEF Shape, NodeRecord
<1>2. L \in ReviewedSets
  <2> DEFINE bound == IF CurrentScope(g, n) = {} THEN PresentDeps(g, n) ELSE CurrentScope(g, n)
  <2>1. bound \subseteq DOMAIN g
    BY ScopeInGraph
  <2>2. L = [m \in bound |-> g[m].rev]
    BY DEF LegacyReviewedSet
  <2> HIDE DEF bound
  <2>3. \A m \in bound : g[m].rev \in 1 .. MaxRev
    BY <2>1 DEF Shape, NodeRecord
  <2>4. L \in [bound -> 1 .. MaxRev] /\ bound \in SUBSET Ids
    BY <2>1, <2>2, <2>3 DEF Shape
  <2> HIDE DEF L
  <2> QED
    BY <2>4 DEF ReviewedSets
<1>3. ReviewPinned(g, n) = IF v = None \/ v.reviewed # None THEN v
                           ELSE [v EXCEPT !.reviewed = L]
  BY DEF ReviewPinned
<1>4. CASE v = None \/ v.reviewed # None
  BY <1>1, <1>3, <1>4
<1>5. CASE ~(v = None \/ v.reviewed # None)
  <2> HIDE DEF L, v
  <2>1. [v EXCEPT !.reviewed = L] \in Observation
    BY <1>1, <1>2, <1>5 DEF Observation
  <2>2. LET w == [v EXCEPT !.reviewed = L]
        IN  w.result = v.result /\ w.rev = v.rev /\ w.seq = v.seq /\ w.report = v.report
    BY <1>1, <1>5 DEF Observation
  <2>3. [v EXCEPT !.reviewed = L] # None
    BY <2>1
  <2> QED
    BY <1>3, <1>5, <2>1, <2>2, <2>3 DEF v
<1> HIDE DEF L, v
<1> QED
  BY <1>4, <1>5 DEF v

\* What an amendment makes of each node: a new one is unobserved, a revised one
\* is at its next revision with the reds of unchanged tests, the reviewed gate
\* has more to depend on, and the others are as they were.
IsAmended(h, g, n, c) ==
  /\ DOMAIN h = DOMAIN g \cup DOMAIN c.extend
  /\ DOMAIN g \cap DOMAIN c.extend = {}
  /\ n \notin DOMAIN c.revise /\ DOMAIN c.revise \subseteq DOMAIN g
  /\ \A m \in DOMAIN c.extend :
       /\ h[m] \in NodeRecord /\ h[m].obs = None /\ h[m].red = {}
       /\ h[m].gate = "tests" \/ h[m].tests = {}
  /\ h[n] \in NodeRecord /\ h[n].obs = ReviewPinned(g, n)
  /\ h[n].rev = g[n].rev /\ h[n].red = g[n].red
  /\ h[n].gate = g[n].gate /\ h[n].tests = g[n].tests /\ h[n].contract = g[n].contract
  /\ h[n].deps = g[n].deps \cup DOMAIN c.extend
  /\ \A m \in DOMAIN c.revise :
       /\ h[m] \in NodeRecord /\ h[m].obs = g[m].obs /\ h[m].rev = g[m].rev + 1
       /\ h[m].deps = g[m].deps /\ h[m].gate = g[m].gate
       /\ h[m].red = CarryOver(g[m].tests, h[m].tests, g[m].red)
       /\ h[m].gate = "tests" \/ h[m].tests = {}
  /\ \A m \in DOMAIN g \ ({n} \cup DOMAIN c.revise) : h[m] = g[m]

LEMMA AmendedNodes ==
  ASSUME NEW g, Shape(g), NEW n \in DOMAIN g, NEW c \in Contents, Plannable(g, n, c),
         \A m \in DOMAIN c.revise : g[m].rev < MaxRev
  PROVE  IsAmended(Amended(g, n, c), g, n, c)
<1> DEFINE h == Amended(g, n, c)
<1>1. DOMAIN h = DOMAIN g \cup DOMAIN c.extend /\ DOMAIN g \cap DOMAIN c.extend = {}
  BY DEF Amended, Plannable
<1>2. n \notin DOMAIN c.revise /\ DOMAIN c.revise \subseteq DOMAIN g
  <2>1. DependencyClosure(g, n) \subseteq DOMAIN g
    BY DEF DependencyClosure, Least
  <2> QED
    BY <2>1 DEF Plannable
<1>3. ASSUME NEW m \in DOMAIN c.extend
      PROVE  h[m] \in NodeRecord /\ h[m].obs = None /\ h[m].red = {}
             /\ (h[m].gate = "tests" \/ h[m].tests = {})
  <2>1. c.extend[m] \in Payload /\ h[m] = Compiled(c.extend[m])
    BY DEF Amended
  <2>2. c.extend[m].gate = "tests" \/ c.extend[m].tests = {}
    BY <2>1 DEF Payload
  <2> QED
    BY <2>1, <2>2, CompiledTyped
<1>4. /\ h[n] \in NodeRecord /\ h[n].obs = ReviewPinned(g, n)
      /\ h[n].rev = g[n].rev /\ h[n].red = g[n].red
      /\ h[n].gate = g[n].gate /\ h[n].tests = g[n].tests /\ h[n].contract = g[n].contract
      /\ h[n].deps = g[n].deps \cup DOMAIN c.extend
  <2> DEFINE w == ReviewPinned(g, n)
             D == g[n].deps \cup DOMAIN c.extend
  <2>1. g[n] \in NodeRecord /\ w \in {None} \cup Observation /\ D \in SUBSET Ids
    <3>1. g[n] \in NodeRecord
      BY DEF Shape
    <3>2. DOMAIN c.extend \subseteq Ids
      BY DEF Ids
    <3> QED
      BY <3>1, <3>2, PinnedTyped DEF NodeRecord
  <2>2. h[n] = [g[n] EXCEPT !.deps = g[n].deps \cup DOMAIN c.extend, !.obs = ReviewPinned(g, n)]
    BY <1>1 DEF Amended
  <2>3. h[n] = [g[n] EXCEPT !.deps = D, !.obs = w]
    BY <2>2
  <2> HIDE DEF w, D, h
  <2>4. h[n] \in NodeRecord /\ h[n].obs = w /\ h[n].deps = D
    BY <2>1, <2>3 DEF NodeRecord
  <2>5. /\ h[n].rev = g[n].rev /\ h[n].red = g[n].red
        /\ h[n].gate = g[n].gate /\ h[n].tests = g[n].tests /\ h[n].contract = g[n].contract
    BY <2>1, <2>3 DEF NodeRecord
  <2> QED
    BY <2>4, <2>5 DEF w, D
<1>5. ASSUME NEW m \in DOMAIN c.revise
      PROVE  /\ h[m] \in NodeRecord /\ h[m].obs = g[m].obs /\ h[m].rev = g[m].rev + 1
             /\ h[m].deps = g[m].deps /\ h[m].gate = g[m].gate
             /\ h[m].red = CarryOver(g[m].tests, h[m].tests, g[m].red)
             /\ h[m].gate = "tests" \/ h[m].tests = {}
  <2> DEFINE r   == Revised(g, m, c)
             red == CarryOver(g[m].tests, r.tests, g[m].red)
  <2>1. g[m] \in NodeRecord /\ m \in DOMAIN g /\ m # n /\ m \notin DOMAIN c.extend
    BY <1>1, <1>2 DEF Shape
  <2>2. /\ r \in NodeRecord /\ r.gate = g[m].gate /\ r.rev = g[m].rev
        /\ r.deps = g[m].deps /\ r.red = g[m].red /\ r.obs = g[m].obs
        /\ r.tests = Over(c.revise[m].tests, g[m].tests) /\ r.tests \in Gates \cup {{}}
    BY <2>1, RevisedTyped
  <2>3. h[m] = [r EXCEPT !.rev = @ + 1, !.red = CarryOver(g[m].tests, r.tests, @)]
    BY <2>1 DEF Amended
  <2>4. red \subseteq g[m].red
    BY DEF CarryOver
  <2>5. r.gate = "tests" \/ r.tests = {}
    BY <2>1, <2>2 DEF Plannable, Shape, Over
  <2>6. g[m].rev < MaxRev
    OBVIOUS
  <2> HIDE DEF r, h
  <2>7. h[m] = [r EXCEPT !.rev = g[m].rev + 1, !.red = red]
    BY <2>2, <2>3 DEF NodeRecord
  <2>8. g[m].rev + 1 \in 1 .. MaxRev /\ red \in SUBSET TestIds
    BY <2>1, <2>4, <2>6 DEF NodeRecord
  <2> HIDE DEF red
  <2>9. /\ h[m] \in NodeRecord /\ h[m].rev = g[m].rev + 1 /\ h[m].red = red
    BY <2>2, <2>7, <2>8 DEF NodeRecord
  <2>10. h[m].obs = r.obs /\ h[m].tests = r.tests /\ h[m].gate = r.gate /\ h[m].deps = r.deps
    BY <2>2, <2>7 DEF NodeRecord
  <2> QED
    BY <2>2, <2>5, <2>9, <2>10 DEF red
<1>6. ASSUME NEW m \in DOMAIN g \ ({n} \cup DOMAIN c.revise)
      PROVE  h[m] = g[m]
  BY <1>1 DEF Amended
<1> HIDE DEF h
<1> QED
  BY <1>1, <1>2, <1>3, <1>4, <1>5, <1>6 DEF h, IsAmended

-----------------------------------------------------------------------------
(***************************************************************************)
(* The invariant, node by node.                                            *)
(***************************************************************************)
\* What the invariant says of a node r that is recorded under id n.
NodeSafe(r, n, reds) ==
  /\ r \in NodeRecord
  /\ r.gate = "tests" \/ r.tests = {}
  /\ IF r.obs = None THEN r.red = {} ELSE r.obs.rev <= r.rev
  /\ \A t \in r.tests : t.id \in r.red => <<n, t>> \in reds
  /\ r.obs # None /\ r.obs.result = "pass" /\ r.obs.rev = r.rev =>
       \A t \in r.tests : t.hazard => <<n, t>> \in reds

SafeGraph(g, reds) ==
  /\ g = [n \in DOMAIN g |-> g[n]]
  /\ DOMAIN g \subseteq Ids
  /\ \A n \in DOMAIN g : NodeSafe(g[n], n, reds) /\ g[n].deps \subseteq DOMAIN g

HistoryTyped ==
  /\ DOMAIN judged \subseteq Ids
  /\ \A n \in DOMAIN judged : /\ DOMAIN judged[n] \subseteq Ids
                              /\ judged[n] \in [DOMAIN judged[n] -> Obligations]
  /\ failed \subseteq Ids \X Tests

FileTyped == file \in [Artifacts -> Contents]

Safe == /\ SafeGraph(node, failed) /\ EvidenceOnce
        /\ claim \in [DOMAIN node -> {None} \cup Names]
        /\ seq \in 0 .. MaxSeq /\ amended \subseteq Contents

Inv == Safe /\ SessionsTyped /\ AmendmentsPlanned /\ FileTyped /\ HistoryTyped

LEMMA IInvByNode == IInv <=> Inv
BY DEF IInv, Inv, Safe, SafeGraph, NodeSafe, TypeOK, GraphTyped, FileTyped, HistoryTyped,
       ObservedRevisions, RedsAreProofs, RedBeforeGreen

LEMMA SafeGraphShape ==
  ASSUME NEW g, NEW reds, SafeGraph(g, reds)
  PROVE  Shape(g)
BY DEF SafeGraph, NodeSafe, Shape

\* More tests have been seen to fail.
LEMMA MoreReds ==
  ASSUME NEW r, NEW n, NEW reds, NEW more, reds \subseteq more, NodeSafe(r, n, reds)
  PROVE  NodeSafe(r, n, more)
BY DEF NodeSafe

\* A step that writes one node.
LEMMA OneNodeWritten ==
  ASSUME NEW g, NEW reds, NEW more, reds \subseteq more, SafeGraph(g, reds),
         NEW n \in DOMAIN g, NEW r, NodeSafe(r, n, more), r.deps = g[n].deps
  PROVE  SafeGraph([g EXCEPT ![n] = r], more)
<1> DEFINE h == [g EXCEPT ![n] = r]
<1>1. h = [m \in DOMAIN g |-> IF m = n THEN r ELSE g[m]]
  OBVIOUS
<1>2. DOMAIN h = DOMAIN g /\ h = [m \in DOMAIN h |-> h[m]]
  BY <1>1
<1>3. \A m \in DOMAIN g : NodeSafe(h[m], m, more) /\ h[m].deps = g[m].deps
  BY <1>1, MoreReds DEF SafeGraph
<1> HIDE DEF h
<1>4. SafeGraph(h, more)
  BY <1>2, <1>3 DEF SafeGraph
<1> QED
  BY <1>4 DEF h

-----------------------------------------------------------------------------
(***************************************************************************)
(* The sessions.                                                           *)
(***************************************************************************)
\* The data of a session at step l.
SessionSafe(g, l, j) ==
  /\ l \in {"idle", "record"} \cup Amending
  /\ l # "idle" => j.gate \in DOMAIN g /\ j.report \in Contents
  /\ l = "record" => /\ j.own \in Snapshots
                     /\ DOMAIN j.scope \subseteq Ids
                     /\ j.scope \in [DOMAIN j.scope -> Snapshots]
  /\ l \in {"recheck", "write"} => /\ j.base[1][j.gate].gate = "review"
                                   /\ Plannable(j.base[1], j.gate, j.report)
                                   /\ Compiles(Amended(j.base[1], j.gate, j.report))

LEMMA SessionsSafe ==
  SessionsTyped /\ AmendmentsPlanned <=>
    /\ pc = [s \in Sessions |-> pc[s]] /\ DOMAIN job = Sessions
    /\ \A s \in Sessions : SessionSafe(node, pc[s], job[s])
<1>1. pc \in [Sessions -> {"idle", "record"} \cup Amending] <=>
        /\ pc = [s \in Sessions |-> pc[s]]
        /\ \A s \in Sessions : pc[s] \in {"idle", "record"} \cup Amending
  OBVIOUS
<1> QED
  BY <1>1 DEF SessionsTyped, AmendmentsPlanned, SessionSafe

\* A step of one session, while no node goes away.
LEMMA OneSessionMoves ==
  ASSUME SessionsTyped, AmendmentsPlanned, DOMAIN node \subseteq DOMAIN node',
         NEW s \in Sessions, NEW l, NEW j, SessionSafe(node', l, j),
         pc' = [pc EXCEPT ![s] = l], job' = [job EXCEPT ![s] = j]
  PROVE  SessionsTyped' /\ AmendmentsPlanned'
<1>1. /\ pc = [q \in Sessions |-> pc[q]] /\ DOMAIN job = Sessions
      /\ \A q \in Sessions : SessionSafe(node, pc[q], job[q])
  BY SessionsSafe
<1>2. /\ pc' = [q \in Sessions |-> pc'[q]] /\ DOMAIN job' = Sessions
      /\ pc'[s] = l /\ job'[s] = j
      /\ \A q \in Sessions \ {s} : pc'[q] = pc[q] /\ job'[q] = job[q]
  BY <1>1
<1>3. \A q \in Sessions \ {s} : SessionSafe(node', pc'[q], job'[q])
  BY <1>1, <1>2 DEF SessionSafe
<1>4. \A q \in Sessions : SessionSafe(node', pc'[q], job'[q])
  BY <1>2, <1>3
<1>5. pc' \in [Sessions -> {"idle", "record"} \cup Amending]
  BY <1>2, <1>4 DEF SessionSafe
<1> QED
  BY <1>2, <1>4, <1>5 DEF SessionsTyped, AmendmentsPlanned, SessionSafe

LEMMA OneSessionEnds ==
  ASSUME SessionsTyped, AmendmentsPlanned, DOMAIN node \subseteq DOMAIN node',
         NEW s \in Sessions, Finish(s)
  PROVE  SessionsTyped' /\ AmendmentsPlanned'
<1>1. SessionSafe(node', "idle", NoJob)
  BY DEF SessionSafe
<1> QED
  BY <1>1, OneSessionMoves DEF Finish, Goto

LEMMA NoSessionMoves ==
  ASSUME SessionsTyped, AmendmentsPlanned, DOMAIN node \subseteq DOMAIN node',
         pc' = pc, job' = job
  PROVE  SessionsTyped' /\ AmendmentsPlanned'
<1>1. \A s \in Sessions : SessionSafe(node, pc[s], job[s])
  BY SessionsSafe
<1>2. \A s \in Sessions : SessionSafe(node', pc'[s], job'[s])
  BY <1>1 DEF SessionSafe
<1> QED
  BY <1>2 DEF SessionsTyped, AmendmentsPlanned, SessionSafe

-----------------------------------------------------------------------------
(***************************************************************************)
(* Initial states.                                                         *)
(***************************************************************************)
LEMMA InitNode ==
  ASSUME NEW e \in Earlier, NEW n \in DOMAIN Plan
  PROVE  /\ NodeSafe(InitGraph(e.at)[n], n, UNION {{m} \X Hazards(m) : m \in DOMAIN e.at})
         /\ InitGraph(e.at)[n].deps = Plan[n].deps
         /\ InitGraph(e.at)[n].obs # None => InitGraph(e.at)[n].obs.report = None
<1> DEFINE r    == InitGraph(e.at)[n]
           reds == UNION {{m} \X Hazards(m) : m \in DOMAIN e.at}
           base == Compiled(Plan[n])
<1>1. /\ base \in NodeRecord /\ base.deps = Plan[n].deps /\ base.tests = Plan[n].tests
      /\ base.gate = Plan[n].gate /\ base.obs = None /\ base.red = {} /\ base.rev = 1
      /\ base.gate = "tests" \/ base.tests = {}
  <2>1. Plan[n] \in Payload
    OBVIOUS
  <2>2. Plan[n].gate = "tests" \/ Plan[n].tests = {}
    BY <2>1 DEF Payload
  <2> QED
    BY <2>1, <2>2, CompiledTyped DEF Compiled
<1>2. CASE n \notin DOMAIN e.at
  <2>1. r = base
    BY <1>2 DEF InitGraph
  <2> HIDE DEF r, base, reds
  <2>2. NodeSafe(r, n, reds)
    BY <2>1, <1>1 DEF NodeSafe
  <2> QED
    BY <2>1, <2>2, <1>1 DEF r, reds
<1>3. CASE n \in DOMAIN e.at
  <2> DEFINE obs == [result |-> "pass", seq |-> e.at[n], rev |-> 1,
                     clean |-> TRUE, reviewed |-> None, report |-> None]
             red == {t.id : t \in Hazards(n)}
  <2>1. r = [base EXCEPT !.red = red, !.obs = obs]
    BY <1>3 DEF InitGraph
  <2>2. Hazards(n) = {t \in base.tests : t.hazard} /\ base.tests \in Gates \cup {{}}
    BY <1>1 DEF Hazards, NodeRecord
  <2>3. red \in SUBSET TestIds
    BY <2>2 DEF TestIds
  <2>4. obs \in Observation
    <3>1. e.at[n] \in 1 .. MaxSeq
      BY <1>3, EarlierAssumption
    <3> QED
      BY <3>1 DEF Observation
  <2>5. \A t \in Hazards(n) : <<n, t>> \in reds
    BY <1>3
  <2>6. \A t \in base.tests : t.id \in red => t \in Hazards(n)
    <3>1. \A t, u \in base.tests : t.id = u.id => t = u
      BY <2>2
    <3> QED
      BY <3>1, <2>2
  <2>7. obs.rev = 1 /\ obs.report = None
    OBVIOUS
  <2> HIDE DEF r, base, obs, red, reds
  <2>8. r \in NodeRecord
    BY <2>1, <2>3, <2>4, <1>1 DEF NodeRecord
  <2>9. /\ r.deps = base.deps /\ r.gate = base.gate /\ r.tests = base.tests
        /\ r.red = red /\ r.obs = obs /\ r.rev = base.rev
    BY <2>1, <1>1 DEF NodeRecord
  <2>10. obs # None
    BY <2>4
  <2>11. NodeSafe(r, n, reds)
    BY <2>2, <2>5, <2>6, <2>7, <2>8, <2>9, <2>10, <1>1 DEF NodeSafe
  <2> QED
    BY <2>7, <2>9, <2>11, <1>1 DEF r, reds
<1> QED
  BY <1>2, <1>3

LEMMA InitSafe == Init => Inv
<1> SUFFICES ASSUME Init PROVE Inv
  OBVIOUS
<1>1. PICK e \in Earlier :
        LET reviews == {n \in DOMAIN e.at : Plan[n].gate = "review"}
        IN  /\ node = InitGraph(e.at)
            /\ seq = e.seq
            /\ judged = [n \in reviews |-> [m \in ReviewScope(node, n, DOMAIN e.at) |->
                                              Obligation(node, m)]]
            /\ failed = UNION {{n} \X Hazards(n) : n \in DOMAIN e.at}
  BY DEF Init
<1>2. DOMAIN node = DOMAIN Plan /\ node = [n \in DOMAIN node |-> node[n]]
  BY <1>1 DEF InitGraph
<1>3. DOMAIN Plan \subseteq Ids
  BY DEF Ids
<1>4. SafeGraph(node, failed)
  BY <1>1, <1>2, <1>3, InitNode DEF SafeGraph
<1>5. EvidenceOnce
  BY <1>1, <1>2, InitNode DEF EvidenceOnce
<1>6. Safe
  BY <1>1, <1>2, <1>4, <1>5, EarlierAssumption DEF Safe, Init
<1>7. HistoryTyped
  <2>1. \A n : ReviewScope(node, n, DOMAIN e.at) \subseteq DOMAIN node
    BY DEF ReviewScope, DependencyClosure, Least
  <2>2. \A m \in DOMAIN node : Obligation(node, m) \in Obligations
    BY <1>4 DEF SafeGraph, NodeSafe, NodeRecord, Obligation, Obligations
  <2>3. /\ DOMAIN judged \subseteq Ids
        /\ \A n \in DOMAIN judged : /\ DOMAIN judged[n] \subseteq Ids
                                    /\ judged[n] \in [DOMAIN judged[n] -> Obligations]
    BY <2>1, <2>2, <1>1, <1>2, <1>3, EarlierAssumption
  <2>4. failed \subseteq Ids \X Tests
    <3>1. \A n \in DOMAIN e.at : n \in Ids /\ Hazards(n) \subseteq Tests
      BY <1>3, EarlierAssumption DEF Hazards, Payload
    <3> QED
      BY <3>1, <1>1
  <2> QED
    BY <2>3, <2>4 DEF HistoryTyped
<1>8. SessionsTyped /\ AmendmentsPlanned
  BY DEF Init, SessionsTyped, AmendmentsPlanned
<1> QED
  BY <1>6, <1>7, <1>8 DEF Inv, Init, FileTyped
-----------------------------------------------------------------------------
(***************************************************************************)
(* Review evidence.                                                        *)
(***************************************************************************)
LEMMA SnapshotTyped ==
  ASSUME NEW g, Shape(g), NEW n \in DOMAIN g
  PROVE  Snapshot(g, n) \in Snapshots
BY DEF Shape, NodeRecord, Snapshot, Snapshots, Obligation, Obligations

LEMMA RecordLoadInv ==
  ASSUME Inv, NEW s \in Sessions, NEW n \in DOMAIN node, NEW a \in Artifacts,
         RecordLoad(s, n, a)
  PROVE  Inv'
<1> DEFINE scope == CurrentScope(node, n)
           j == [NoJob EXCEPT !.gate = n, !.artifact = a, !.report = file[a],
                              !.own = Snapshot(node, n),
                              !.scope = [m \in scope |-> Snapshot(node, m)]]
<1>1. Shape(node) /\ Safe /\ SessionsTyped /\ AmendmentsPlanned /\ FileTyped /\ HistoryTyped
  BY SafeGraphShape DEF Inv, Safe
<1>2. SessionSafe(node', "record", j)
  <2>1. scope \subseteq DOMAIN node /\ DOMAIN node \subseteq Ids
    BY <1>1, ScopeInGraph DEF Shape
  <2>2. Snapshot(node, n) \in Snapshots /\ \A m \in scope : Snapshot(node, m) \in Snapshots
    BY <1>1, <2>1, SnapshotTyped
  <2>3. file[a] \in Contents
    BY <1>1 DEF FileTyped
  <2>4. node' = node
    BY DEF RecordLoad, graph
  <2>5. /\ j.gate = n /\ j.report = file[a] /\ j.own = Snapshot(node, n)
        /\ j.scope = [m \in scope |-> Snapshot(node, m)]
    BY DEF NoJob
  <2> HIDE DEF j, scope
  <2> QED
    BY <2>1, <2>2, <2>3, <2>4, <2>5 DEF SessionSafe
<1>3. job' = [job EXCEPT ![s] = j] /\ pc' = [pc EXCEPT ![s] = "record"]
  BY DEF RecordLoad, Goto
<1>4. UNCHANGED <<node, claim, seq, amended, file, judged, failed>>
  BY DEF RecordLoad, graph, history
<1> HIDE DEF j
<1>5. SessionsTyped' /\ AmendmentsPlanned'
  BY <1>1, <1>2, <1>3, <1>4, OneSessionMoves
<1>6. Safe' /\ FileTyped' /\ HistoryTyped'
  BY <1>1, <1>4 DEF Safe, FileTyped, HistoryTyped, EvidenceOnce
<1> QED
  BY <1>5, <1>6 DEF Inv

\* What is recorded is an observation of the gate at its present revision.
LEMMA PublishedTyped ==
  ASSUME Inv, NEW s \in Sessions, RecordPublish(s)
  PROVE  LET j   == job[s]
             obs == [result |-> "pass", seq |-> seq + 1, rev |-> j.own.rev, clean |-> TRUE,
                     reviewed |-> [m \in DOMAIN j.scope |-> j.scope[m].rev],
                     report |-> j.report]
         IN  obs \in Observation /\ obs.rev = node[j.gate].rev /\ obs.reviewed \in ReviewedSets
<1> DEFINE j == job[s]
           n == j.gate
           bound == [m \in DOMAIN j.scope |-> j.scope[m].rev]
<1>1. /\ seq \in 0 .. MaxSeq /\ SessionsTyped
  BY DEF Inv, Safe
<1>2. /\ j.report \in Contents /\ j.own \in Snapshots
      /\ DOMAIN j.scope \subseteq Ids /\ j.scope \in [DOMAIN j.scope -> Snapshots]
  BY <1>1 DEF SessionsTyped, RecordPublish
<1>3. Snapshot(node, n) = j.own
  BY DEF RecordPublish, RecordFenced
<1>4. seq + 1 \in 1 .. MaxSeq
  BY <1>1 DEF RecordPublish
<1>5. \A m \in DOMAIN j.scope : j.scope[m].rev \in 1 .. MaxRev
  BY <1>2 DEF Snapshots
<1>6. bound \in ReviewedSets
  BY <1>2, <1>5 DEF ReviewedSets
<1>7. j.own.rev = node[n].rev /\ j.own.rev \in 1 .. MaxRev
  BY <1>2, <1>3 DEF Snapshot, Snapshots
<1> HIDE DEF bound, j
<1> QED
  BY <1>2, <1>4, <1>6, <1>7 DEF Observation, bound, j

\* The gate gets an observation at its present revision, and owes no tests.
LEMMA RecordPublishInv ==
  ASSUME Inv, NEW s \in Sessions, RecordPublish(s)
  PROVE  Inv'
<1> DEFINE j == job[s]
           n == j.gate
           obs == [result |-> "pass", seq |-> seq + 1, rev |-> j.own.rev, clean |-> TRUE,
                   reviewed |-> [m \in DOMAIN j.scope |-> j.scope[m].rev],
                   report |-> j.report]
           r == [node[n] EXCEPT !.obs = obs]
<1>1. /\ Safe /\ SessionsTyped /\ AmendmentsPlanned /\ FileTyped /\ HistoryTyped
      /\ Shape(node)
  BY SafeGraphShape DEF Inv, Safe
<1>2. /\ n \in DOMAIN node /\ j.report \in Contents /\ j.own \in Snapshots
      /\ DOMAIN j.scope \subseteq Ids /\ j.scope \in [DOMAIN j.scope -> Snapshots]
  BY <1>1 DEF SessionsTyped, RecordPublish
<1>3. /\ Snapshot(node, n) = j.own /\ node[n].gate = "review"
      /\ \A m \in DOMAIN node : node[m].obs # None => node[m].obs.report # j.report
  BY DEF RecordPublish, RecordFenced, Admitted
<1>4. NodeSafe(node[n], n, failed) /\ node[n].tests = {}
  BY <1>1, <1>2, <1>3 DEF Safe, SafeGraph, NodeSafe
<1>5. obs \in Observation /\ obs # None /\ obs.rev = node[n].rev /\ obs.report = j.report
  BY PublishedTyped, NoneAssumption
<1>6. NodeSafe(r, n, failed) /\ r.deps = node[n].deps /\ r.obs = obs
  <2> HIDE DEF obs, n, j
  <2>1. r \in NodeRecord
    BY <1>4, <1>5 DEF NodeSafe, NodeRecord
  <2>2. /\ r.obs = obs /\ r.tests = {} /\ r.rev = node[n].rev /\ r.deps = node[n].deps
    BY <1>4 DEF NodeSafe, NodeRecord
  <2>3. node[n].rev \in Nat
    BY <1>4 DEF NodeSafe, NodeRecord
  <2> HIDE DEF r
  <2> QED
    BY <1>5, <2>1, <2>2, <2>3 DEF NodeSafe
<1>7. /\ node' = [node EXCEPT ![n] = r]
      /\ seq' = seq + 1 /\ seq < MaxSeq
      /\ claim' = [claim EXCEPT ![n] = None]
      /\ UNCHANGED <<amended, file, failed>> /\ Finish(s)
  <2>1. node' = [node EXCEPT ![n].obs = obs]
    BY DEF RecordPublish
  <2> QED
    BY <2>1 DEF RecordPublish
<1> HIDE DEF r, obs
<1>8. DOMAIN node' = DOMAIN node /\ \A m \in DOMAIN node : node'[m] = IF m = n THEN r ELSE node[m]
  BY <1>7, <1>1 DEF Safe, SafeGraph
<1>9. SafeGraph(node', failed')
  BY <1>1, <1>2, <1>6, <1>7, OneNodeWritten DEF Safe
<1>10. EvidenceOnce'
  <2> HIDE DEF n, j
  <2> QED
    BY <1>1, <1>3, <1>5, <1>6, <1>8 DEF EvidenceOnce, Safe
<1>11. Safe'
  <2>1. claim' \in [DOMAIN node' -> {None} \cup Names]
    BY <1>1, <1>7, <1>8 DEF Safe
  <2>2. seq' \in 0 .. MaxSeq /\ amended' \subseteq Contents
    BY <1>1, <1>7 DEF Safe
  <2> QED
    BY <1>9, <1>10, <2>1, <2>2 DEF Safe
<1>12. HistoryTyped'
  <2>1. judged' = [m \in DOMAIN judged \cup {n} |->
                      IF m = n THEN [k \in DOMAIN j.scope |-> j.scope[k].owes] ELSE judged[m]]
    BY DEF RecordPublish
  <2>2. [k \in DOMAIN j.scope |-> j.scope[k].owes] \in [DOMAIN j.scope -> Obligations]
    BY <1>2 DEF Snapshots
  <2>3. n \in Ids
    BY <1>1, <1>2 DEF Shape
  <2> HIDE DEF n, j
  <2> QED
    BY <1>1, <1>2, <1>7, <2>1, <2>2, <2>3 DEF HistoryTyped
<1>13. SessionsTyped' /\ AmendmentsPlanned'
  BY <1>1, <1>7, <1>8, OneSessionEnds
<1> QED
  BY <1>1, <1>7, <1>11, <1>12, <1>13 DEF Inv, FileTyped

\* A step that ends a command without a change.
LEMMA EndsUnchanged ==
  ASSUME Inv, NEW s \in Sessions, Finish(s), UNCHANGED <<graph, file, history>>
  PROVE  Inv'
<1>1. UNCHANGED <<node, claim, seq, amended, file, judged, failed>>
  BY DEF graph, history
<1>2. SessionsTyped' /\ AmendmentsPlanned'
  BY <1>1, OneSessionEnds DEF Inv
<1> QED
  BY <1>1, <1>2 DEF Inv, Safe, FileTyped, HistoryTyped, EvidenceOnce

-----------------------------------------------------------------------------
(***************************************************************************)
(* Amendments.                                                             *)
(***************************************************************************)
\* A step of a preview or of an amendment, before it writes.
LEMMA SessionGoes ==
  ASSUME Inv, NEW s \in Sessions, NEW l, NEW j, SessionSafe(node, l, j),
         Goto(s, l), job' = [job EXCEPT ![s] = j], UNCHANGED <<graph, file, history>>
  PROVE  Inv'
<1>1. UNCHANGED <<node, claim, seq, amended, file, judged, failed>>
  BY DEF graph, history
<1>2. SessionsTyped' /\ AmendmentsPlanned'
  BY <1>1, OneSessionMoves DEF Inv, Goto
<1> QED
  BY <1>1, <1>2 DEF Inv, Safe, FileTyped, HistoryTyped, EvidenceOnce

LEMMA PreviewInv ==
  ASSUME Inv, NEW s \in Sessions, NEW n \in DOMAIN node, NEW a \in Artifacts,
         PreviewLoad(s, n, a) \/ AmendDryRun(s, n, a)
  PROVE  Inv'
<1> DEFINE j == Previewed(n, a, file[a], TRUE)
<1>1. j.gate = n /\ j.report \in Contents
  BY DEF Inv, FileTyped, Previewed, NoJob
<1>2. SessionSafe(node, "preview", j) /\ SessionSafe(node, "previewed", j)
  BY <1>1 DEF SessionSafe, Amending
<1> QED
  BY <1>2, SessionGoes DEF PreviewLoad, AmendDryRun

LEMMA PreviewDigestInv ==
  ASSUME Inv, NEW s \in Sessions, PreviewDigest(s)
  PROVE  Inv'
<1> DEFINE j == Previewed(job[s].gate, job[s].artifact, job[s].report, graph = job[s].base)
<1>1. job[s].gate \in DOMAIN node /\ job[s].report \in Contents
  BY DEF PreviewDigest, Inv, SessionsTyped
<1>2. SessionSafe(node, "previewed", j)
  BY <1>1 DEF Previewed, NoJob, SessionSafe, Amending
<1> QED
  BY <1>2, SessionGoes DEF PreviewDigest

LEMMA PlannedByNode ==
  ASSUME Inv, NEW s \in Sessions, pc[s] \in {"previewed", "recheck"},
         UNCHANGED <<graph, file, history, job>>, NEW l \in {"recheck", "write"}, Goto(s, l),
         job[s].base[1][job[s].gate].gate = "review",
         Plannable(job[s].base[1], job[s].gate, job[s].report),
         Compiles(Amended(job[s].base[1], job[s].gate, job[s].report))
  PROVE  Inv'
<1>1. UNCHANGED <<node, claim, seq, amended, file, judged, failed>>
  BY DEF graph, history
<1>2. /\ pc = [q \in Sessions |-> pc[q]] /\ DOMAIN job = Sessions
      /\ \A q \in Sessions : SessionSafe(node, pc[q], job[q])
  BY SessionsSafe DEF Inv
<1>3. SessionSafe(node', l, job'[s])
  BY <1>1, <1>2 DEF SessionSafe, Amending
<1>4. \A q \in Sessions : SessionSafe(node', pc'[q], job'[q])
  BY <1>1, <1>2, <1>3 DEF Goto
<1>5. pc' \in [Sessions -> {"idle", "record"} \cup Amending]
  BY <1>2, <1>4 DEF Goto, SessionSafe
<1>6. SessionsTyped' /\ AmendmentsPlanned'
  BY <1>2, <1>4, <1>5 DEF SessionsTyped, AmendmentsPlanned, SessionSafe
<1> QED
  BY <1>1, <1>6 DEF Inv, Safe, FileTyped, HistoryTyped, EvidenceOnce

\* What is evaluated is the graph that was read, and it stays so.
LEMMA AmendEvaluateInv ==
  ASSUME Inv, NEW s \in Sessions, AmendEvaluate(s)
  PROVE  Inv'
<1>1. job[s].base[1] = node
  BY DEF AmendEvaluate, graph
<1> QED
  BY <1>1, PlannedByNode DEF AmendEvaluate, Amendable, Admitted

LEMMA AmendRecheckInv ==
  ASSUME Inv, NEW s \in Sessions, AmendRecheck(s)
  PROVE  Inv'
BY PlannedByNode DEF AmendRecheck, Inv, AmendmentsPlanned
\* The graph that is amended is the one that was evaluated, so it compiles; no
\* observation moves, and a revised node is at a revision nobody has observed.
LEMMA AmendWriteInv ==
  ASSUME Inv, NEW s \in Sessions, AmendWrite(s)
  PROVE  Inv'
<1> DEFINE j == job[s]
           n == j.gate
           c == j.report
           h == Amended(node, n, c)
<1>1. /\ Safe /\ SessionsTyped /\ AmendmentsPlanned /\ FileTyped /\ HistoryTyped
      /\ Shape(node) /\ SafeGraph(node, failed)
  BY SafeGraphShape DEF Inv, Safe
<1>2. n \in DOMAIN node /\ c \in Contents
  BY <1>1 DEF AmendWrite, SessionsTyped
<1>3. Plannable(node, n, c) /\ Compiles(h)
  BY <1>1 DEF AmendWrite, AmendmentsPlanned, graph
<1>4. /\ node' = h /\ seq < MaxSeq /\ seq' = seq + 1
      /\ claim' = [m \in DOMAIN node' |-> IF m \in DOMAIN claim THEN claim[m] ELSE None]
      /\ amended' = amended \cup {c}
      /\ \A m \in DOMAIN c.revise : node[m].rev < MaxRev
      /\ UNCHANGED <<file, judged, failed>> /\ Finish(s)
  BY DEF AmendWrite, history
<1>5. IsAmended(h, node, n, c)
  BY <1>1, <1>2, <1>3, <1>4, AmendedNodes
<1>6. LET v == node[n].obs
          w == h[n].obs
      IN  /\ v = None <=> w = None
          /\ v # None => w.result = v.result /\ w.rev = v.rev /\ w.report = v.report
  <2> HIDE DEF h, n, c, j
  <2>1. h[n].obs = ReviewPinned(node, n)
    BY <1>5 DEF IsAmended
  <2> QED
    BY <2>1, <1>1, <1>2, PinnedTyped
<1>7. h = [m \in DOMAIN h |-> h[m]]
  BY DEF Amended
<1> HIDE DEF n, c, h, j
<1>8. ASSUME NEW m \in DOMAIN h
      PROVE  NodeSafe(h[m], m, failed)
  <2>1. CASE m \in DOMAIN c.extend
    BY <2>1, <1>5 DEF NodeSafe, IsAmended
  <2>2. CASE m = n
    BY <2>2, <1>1, <1>2, <1>5, <1>6 DEF NodeSafe, SafeGraph, IsAmended
  <2>3. CASE m \in DOMAIN c.revise
    <3>1. NodeSafe(node[m], m, failed) /\ node[m] \in NodeRecord /\ h[m] \in NodeRecord
      <4>1. NodeSafe(node[m], m, failed)
        BY <2>3, <1>1, <1>5 DEF SafeGraph, IsAmended
      <4> QED
        BY <2>3, <4>1, <1>5 DEF NodeSafe, IsAmended
    <3>2. node[m].obs # None => /\ node[m].obs.rev <= node[m].rev
                                /\ node[m].obs.rev \in Nat /\ node[m].rev \in Nat
      <4>1. node[m].obs \in {None} \cup Observation /\ node[m].rev \in 1 .. MaxRev
        BY <3>1 DEF NodeRecord
      <4>2. node[m].obs # None => node[m].obs.rev \in 1 .. MaxRev
        BY <4>1 DEF Observation
      <4>3. node[m].obs # None => node[m].obs.rev <= node[m].rev
        BY <3>1 DEF NodeSafe
      <4> QED
        BY <4>1, <4>2, <4>3
    <3>3. /\ h[m].tests \in SUBSET Tests /\ node[m].tests \in SUBSET Tests
          /\ node[m].red \in SUBSET TestIds
          /\ \A t, u \in h[m].tests : t.id = u.id => t = u
      <4>1. h[m].tests \in Gates \cup {{}} /\ node[m].tests \in Gates \cup {{}}
        BY <3>1 DEF NodeRecord
      <4>2. node[m].red \in SUBSET TestIds
        BY <3>1 DEF NodeRecord
      <4> QED
        BY <4>1, <4>2
    <3>4. /\ h[m].red \subseteq node[m].red
          /\ \A t \in h[m].tests : t.id \in h[m].red => t \in node[m].tests /\ t.id \in node[m].red
      <4>1. h[m].red = CarryOver(node[m].tests, h[m].tests, node[m].red)
        BY <2>3, <1>5 DEF IsAmended
      <4> QED
        BY <3>3, <4>1 DEF CarryOver
    <3>5. h[m].obs = node[m].obs /\ h[m].rev = node[m].rev + 1
          /\ (h[m].gate = "tests" \/ h[m].tests = {})
      BY <2>3, <1>5 DEF IsAmended
    <3> QED
      BY <3>1, <3>2, <3>4, <3>5 DEF NodeSafe
  <2>4. CASE m \in DOMAIN node \ ({n} \cup DOMAIN c.revise)
    BY <2>4, <1>1, <1>5 DEF SafeGraph, IsAmended
  <2> QED
    BY <2>1, <2>2, <2>3, <2>4, <1>5 DEF IsAmended
<1>9. SafeGraph(node', failed')
  <2>1. DOMAIN h \subseteq Ids
    BY <1>1, <1>2, <1>5 DEF Shape, Ids, IsAmended
  <2>2. \A m \in DOMAIN h : h[m].deps \subseteq DOMAIN h
    BY <1>3 DEF Compiles
  <2> QED
    BY <1>4, <1>7, <1>8, <2>1, <2>2 DEF SafeGraph
<1>10. EvidenceOnce'
  <2>1. \A m \in DOMAIN h : h[m].obs # None =>
          m \in DOMAIN node /\ node[m].obs # None /\ h[m].obs.report = node[m].obs.report
    BY <1>5, <1>6 DEF IsAmended
  <2> QED
    BY <1>1, <1>4, <2>1 DEF Safe, EvidenceOnce
<1>11. claim' \in [DOMAIN node' -> {None} \cup Names]
  BY <1>1, <1>4 DEF Safe
<1>12. seq' \in 0 .. MaxSeq /\ amended' \subseteq Contents
  BY <1>1, <1>2, <1>4 DEF Safe
<1>13. DOMAIN node \subseteq DOMAIN node'
  BY <1>4, <1>5 DEF IsAmended
<1>14. SessionsTyped' /\ AmendmentsPlanned'
  BY <1>1, <1>4, <1>13, OneSessionEnds
<1> QED
  BY <1>1, <1>4, <1>9, <1>10, <1>11, <1>12, <1>14 DEF Inv, Safe, FileTyped, HistoryTyped

-----------------------------------------------------------------------------
(***************************************************************************)
(* The commands on the other nodes.                                        *)
(***************************************************************************)
\* A pass is admitted over reds that are all of tests the node has now.
LEMMA SyncInv ==
  ASSUME Inv, NEW s \in Sessions, NEW n \in DOMAIN node, NEW fails \in SUBSET TestIds,
         Sync(s, n, fails)
  PROVE  Inv'
<1> DEFINE passes == fails = {}
           result == IF passes THEN "pass" ELSE "fail"
           obs == [result |-> result, seq |-> seq + 1, rev |-> node[n].rev, clean |-> TRUE,
                   reviewed |-> None, report |-> None]
           red == node[n].red \cup fails
           r == [node[n] EXCEPT !.obs = obs, !.red = red]
<1>1. /\ Safe /\ SessionsTyped /\ AmendmentsPlanned /\ FileTyped /\ HistoryTyped
      /\ Shape(node) /\ SafeGraph(node, failed)
  BY SafeGraphShape DEF Inv, Safe
<1>2. NodeSafe(node[n], n, failed) /\ node[n] \in NodeRecord
  BY <1>1 DEF SafeGraph, NodeSafe
<1>3. /\ node[n].gate = "tests" /\ (passes => RedSeen(node, n)) /\ seq < MaxSeq /\ seq' = seq + 1
      /\ failed' = failed \cup ({n} \X {t \in node[n].tests : t.id \in fails})
      /\ claim' = IF passes THEN [claim EXCEPT ![n] = None] ELSE claim
      /\ UNCHANGED <<amended, file, pc, job, judged>>
  BY DEF Sync
<1>4. node' = [node EXCEPT ![n] = r]
  <2>1. node' = [node EXCEPT ![n].obs = obs, ![n].red = @ \cup fails]
    BY DEF Sync
  <2> HIDE DEF obs
  <2> QED
    BY <2>1, <1>1, <1>2 DEF NodeRecord
<1>5. obs \in Observation /\ obs.rev = node[n].rev /\ obs.report = None /\ obs.result = result
  <2>1. seq + 1 \in 1 .. MaxSeq /\ node[n].rev \in 1 .. MaxRev
    BY <1>1, <1>2, <1>3 DEF Safe, NodeRecord
  <2>2. result \in {"pass", "fail"}
    OBVIOUS
  <2> HIDE DEF result
  <2> QED
    BY <2>1, <2>2 DEF Observation
<1>6. red \in SUBSET TestIds
  BY <1>2 DEF NodeRecord
<1>7. /\ failed \subseteq failed'
      /\ \A t \in node[n].tests : t.id \in red => <<n, t>> \in failed'
  BY <1>2, <1>3 DEF NodeSafe
<1>8. result = "pass" => \A t \in node[n].tests : t.hazard => <<n, t>> \in failed'
  BY <1>3, <1>7 DEF RedSeen
<1> HIDE DEF obs, red, r, result, passes
<1>9. /\ r \in NodeRecord /\ r.obs = obs /\ r.red = red /\ r.rev = node[n].rev
      /\ r.tests = node[n].tests /\ r.gate = node[n].gate /\ r.deps = node[n].deps
  <2>1. r = [node[n] EXCEPT !.obs = obs, !.red = red]
    BY DEF r
  <2> QED
    BY <2>1, <1>2, <1>5, <1>6 DEF NodeRecord
<1>10. NodeSafe(r, n, failed')
  <2>1. obs # None /\ node[n].rev \in Nat
    BY <1>2, <1>5 DEF NodeRecord
  <2> QED
    BY <2>1, <1>3, <1>5, <1>7, <1>8, <1>9 DEF NodeSafe
<1>11. SafeGraph(node', failed')
  BY <1>1, <1>4, <1>7, <1>9, <1>10, OneNodeWritten
<1>12. DOMAIN node' = DOMAIN node /\ \A m \in DOMAIN node : node'[m] = IF m = n THEN r ELSE node[m]
  BY <1>1, <1>4 DEF SafeGraph
<1>13. EvidenceOnce'
  BY <1>1, <1>5, <1>9, <1>12 DEF Safe, EvidenceOnce
<1>14. claim' \in [DOMAIN node' -> {None} \cup Names]
  BY <1>1, <1>3, <1>12 DEF Safe
<1>15. seq' \in 0 .. MaxSeq
  BY <1>1, <1>3 DEF Safe
<1>16. HistoryTyped'
  <2>1. n \in Ids /\ node[n].tests \subseteq Tests
    BY <1>1, <1>2 DEF Shape, NodeRecord
  <2> QED
    BY <2>1, <1>1, <1>3 DEF HistoryTyped
<1>17. SessionsTyped' /\ AmendmentsPlanned'
  BY <1>1, <1>3, <1>12, NoSessionMoves
<1> QED
  BY <1>1, <1>3, <1>11, <1>13, <1>14, <1>15, <1>16, <1>17 DEF Inv, Safe, FileTyped
\* An observed node moves to a revision nobody has observed, an unobserved one
\* has no reds to carry.
LEMMA SetTestsInv ==
  ASSUME Inv, NEW s \in Sessions, NEW n \in DOMAIN node, NEW new \in Gates,
         SetTests(s, n, new)
  PROVE  Inv'
<1> DEFINE seen == node[n].obs # None
           rev == IF seen THEN node[n].rev + 1 ELSE node[n].rev
           red == IF seen THEN CarryOver(node[n].tests, new, node[n].red)
                          ELSE node[n].red \cap {t.id : t \in new}
           r == [node[n] EXCEPT !.tests = new, !.rev = rev, !.red = red]
<1>1. /\ Safe /\ SessionsTyped /\ AmendmentsPlanned /\ FileTyped /\ HistoryTyped
      /\ Shape(node) /\ SafeGraph(node, failed)
  BY SafeGraphShape DEF Inv, Safe
<1>2. NodeSafe(node[n], n, failed) /\ node[n] \in NodeRecord
  BY <1>1 DEF SafeGraph, NodeSafe
<1>3. /\ node[n].gate = "tests" /\ (seen => node[n].rev < MaxRev)
      /\ UNCHANGED <<claim, seq, amended, file, pc, job, judged, failed>>
  BY DEF SetTests, history
<1>4. node' = [node EXCEPT ![n] = r]
  <2>1. node' = [node EXCEPT
                   ![n].tests = new,
                   ![n].rev   = IF seen THEN @ + 1 ELSE @,
                   ![n].red   = IF seen THEN CarryOver(node[n].tests, new, @)
                                        ELSE @ \cap {t.id : t \in new}]
    BY DEF SetTests, WithTests
  <2> QED
    BY <2>1, <1>1, <1>2 DEF NodeRecord
<1>5. /\ node[n].rev \in 1 .. MaxRev /\ node[n].red \in SUBSET TestIds
      /\ node[n].tests \in SUBSET Tests /\ new \in SUBSET Tests
      /\ node[n].obs \in {None} \cup Observation
      /\ \A t, u \in new : t.id = u.id => t = u
  <2>1. node[n].tests \in Gates \cup {{}}
    BY <1>2 DEF NodeRecord
  <2> QED
    BY <2>1, <1>2 DEF NodeRecord
<1>6. rev \in 1 .. MaxRev /\ (seen => node[n].obs.rev < rev)
  <2>1. seen => node[n].obs.rev \in 1 .. MaxRev /\ node[n].obs.rev <= node[n].rev
    <3>1. seen => node[n].obs.rev \in 1 .. MaxRev
      BY <1>5 DEF Observation
    <3> QED
      BY <3>1, <1>2 DEF NodeSafe
  <2> QED
    BY <2>1, <1>3, <1>5
<1>7. /\ red \subseteq node[n].red /\ (~seen => red = {})
      /\ \A t \in new : t.id \in red => <<n, t>> \in failed
  <2>1. CASE seen
    <3>1. /\ red \subseteq node[n].red
          /\ \A t \in new : t.id \in red => t \in node[n].tests /\ t.id \in node[n].red
      <4>1. red = CarryOver(node[n].tests, new, node[n].red)
        BY <2>1
      <4> HIDE DEF red
      <4> QED
        BY <4>1, <1>5 DEF CarryOver
    <3> QED
      BY <2>1, <3>1, <1>2 DEF NodeSafe
  <2>2. CASE ~seen
    BY <2>2, <1>2 DEF NodeSafe
  <2> QED
    BY <2>1, <2>2
<1> HIDE DEF r, rev, red
<1>8. /\ r \in NodeRecord /\ r.deps = node[n].deps /\ r.obs = node[n].obs
      /\ r.gate = node[n].gate /\ r.tests = new /\ r.rev = rev /\ r.red = red
  <2>1. r = [node[n] EXCEPT !.tests = new, !.rev = rev, !.red = red]
    BY DEF r
  <2>2. red \in SUBSET TestIds
    BY <1>5, <1>7
  <2> QED
    BY <2>1, <2>2, <1>2, <1>6 DEF NodeRecord
<1>9. NodeSafe(r, n, failed)
  <2>1. r.obs # None => r.obs.rev \in Nat /\ r.rev \in Nat /\ r.obs.rev < r.rev
    <3>1. node[n].obs # None => node[n].obs.rev \in Nat
      <4>1. node[n].obs # None => node[n].obs.rev \in 1 .. MaxRev
        BY <1>5 DEF Observation
      <4> QED
        BY <4>1
    <3> QED
      BY <3>1, <1>6, <1>8
  <2> QED
    BY <2>1, <1>3, <1>7, <1>8 DEF NodeSafe
<1>10. SafeGraph(node', failed')
  BY <1>1, <1>3, <1>4, <1>8, <1>9, OneNodeWritten
<1>11. DOMAIN node' = DOMAIN node /\ \A m \in DOMAIN node : node'[m] = IF m = n THEN r ELSE node[m]
  BY <1>1, <1>4 DEF SafeGraph
<1>12. EvidenceOnce'
  BY <1>1, <1>8, <1>11 DEF Safe, EvidenceOnce
<1>13. SessionsTyped' /\ AmendmentsPlanned'
  BY <1>1, <1>3, <1>11, NoSessionMoves
<1> QED
  BY <1>1, <1>3, <1>10, <1>11, <1>12, <1>13 DEF Inv, Safe, FileTyped, HistoryTyped

LEMMA ClaimInv ==
  ASSUME Inv, NEW s \in Sessions, NEW n \in DOMAIN node, Claim(s, n) \/ Release(s, n)
  PROVE  Inv'
<1>1. UNCHANGED <<node, seq, amended, file, pc, job, judged, failed>>
  BY DEF Claim, Release, history
<1>2. claim' \in [DOMAIN node -> {None} \cup Names]
  BY DEF Claim, Release, Inv, Safe, Names
<1>3. SessionsTyped' /\ AmendmentsPlanned'
  BY <1>1, NoSessionMoves DEF Inv
<1> QED
  BY <1>1, <1>2, <1>3 DEF Inv, Safe, EvidenceOnce, FileTyped, HistoryTyped

LEMMA ResolveInv ==
  ASSUME Inv, NEW a \in Artifacts, NEW c \in Rewrites, Resolve(a, c)
  PROVE  Inv'
<1>1. UNCHANGED <<node, claim, seq, amended, pc, job, judged, failed>>
  BY DEF Resolve, graph, history
<1>2. FileTyped'
  BY DEF Resolve, Inv, FileTyped
<1>3. SessionsTyped' /\ AmendmentsPlanned'
  BY <1>1, NoSessionMoves DEF Inv
<1> QED
  BY <1>1, <1>2, <1>3 DEF Inv, Safe, EvidenceOnce, HistoryTyped

-----------------------------------------------------------------------------
(***************************************************************************)
(* The theorems.                                                           *)
(***************************************************************************)
LEMMA StepInv == Inv /\ [Next]_vars => Inv'
<1> SUFFICES ASSUME Inv, [Next]_vars PROVE Inv'
  OBVIOUS
<1>1. ASSUME NEW s \in Sessions, Step(s)
      PROVE  Inv'
  <2>1. CASE RecordPublish(s)
    BY <2>1, RecordPublishInv
  <2>2. CASE RecordRefused(s) \/ AmendEnds(s)
    BY <2>2, EndsUnchanged DEF RecordRefused, AmendEnds
  <2>3. CASE PreviewDigest(s)
    BY <2>3, PreviewDigestInv
  <2>4. CASE AmendEvaluate(s)
    BY <2>4, AmendEvaluateInv
  <2>5. CASE AmendRecheck(s)
    BY <2>5, AmendRecheckInv
  <2>6. CASE AmendWrite(s)
    BY <2>6, AmendWriteInv
  <2> QED
    BY <1>1, <2>1, <2>2, <2>3, <2>4, <2>5, <2>6 DEF Step, ReviewStep, AmendStep
<1>2. ASSUME NEW s \in Sessions, NEW n \in DOMAIN node, Begin(s, n)
      PROVE  Inv'
  <2>1. CASE \E a \in Artifacts : \/ RecordLoad(s, n, a)
                                  \/ PreviewLoad(s, n, a)
                                  \/ AmendDryRun(s, n, a)
    BY <2>1, RecordLoadInv, PreviewInv
  <2>2. CASE \E fails \in SUBSET TestIds : Sync(s, n, fails)
    BY <2>2, SyncInv
  <2>3. CASE \E new \in Gates : SetTests(s, n, new)
    BY <2>3, SetTestsInv
  <2>4. CASE Claim(s, n) \/ Release(s, n)
    BY <2>4, ClaimInv
  <2> QED
    BY <1>2, <2>1, <2>2, <2>3, <2>4 DEF Begin, ReviewCommand
<1>3. CASE UNCHANGED vars
  BY <1>3, NoSessionMoves
  DEF vars, graph, history, Inv, Safe, EvidenceOnce, FileTyped, HistoryTyped
<1> QED
  BY <1>1, <1>2, <1>3, ResolveInv DEF Next

\* The inductive invariant holds in every reachable state.
THEOREM Invariance == Spec => []IInv
<1>1. Init => Inv
  BY InitSafe
<1>2. Inv /\ [Next]_vars => Inv'
  BY StepInv
<1>3. Inv => IInv
  BY IInvByNode
<1> QED
  BY <1>1, <1>2, <1>3, PTL DEF Spec

\* Graph, artifacts and every session's data keep their shape, and the graph
\* never comes to depend on a node it does not have: amendments that would not
\* compile are refused (Validate in AmendFromReview).
THEOREM TypeCorrect == Spec => []TypeOK
<1>1. IInv => TypeOK
  BY DEF IInv
<1> QED
  BY <1>1, Invariance, PTL

\* One review artifact supplies evidence once (AdmitArtifact), with any number
\* of sessions recording at once.
THEOREM EvidenceSuppliedOnce == Spec => []EvidenceOnce
<1>1. IInv => EvidenceOnce
  BY DEF IInv
<1> QED
  BY <1>1, Invariance, PTL

\* No pass without the red of every hazard-discharging test, as it is declared
\* now, across amendments and edits of the gate (carryOverRedSeqs).
THEOREM RedComesFirst == Spec => []RedBeforeGreen
<1>1. IInv => RedBeforeGreen
  BY DEF IInv
<1> QED
  BY <1>1, Invariance, PTL

-----------------------------------------------------------------------------
(***************************************************************************)
(* What a review vouches for: the invariant Evidence is inductive, a       *)
(* change of a contract takes GREEN from every review above it, and what   *)
(* is closed has been reviewed as it is.                                   *)
(***************************************************************************)
HIDE ReviewAssumption

-----------------------------------------------------------------------------
(***************************************************************************)
(* The nodes, and what each command writes of them.                        *)
(***************************************************************************)
LEMMA GraphNumbers ==
  ASSUME Inv
  PROVE  /\ IsFiniteSet(DOMAIN node) /\ seq \in Nat
         /\ \A n \in DOMAIN node :
              /\ node[n].rev \in Nat /\ node[n].rev >= 1
              /\ node[n].gate \in {"tests", "review"} /\ node[n].deps \subseteq DOMAIN node
              /\ node[n].obs # None =>
                   /\ node[n].obs.seq \in Nat /\ node[n].obs.rev \in Nat /\ node[n].obs.clean
                   /\ node[n].obs.rev <= node[n].rev
                   /\ node[n].obs.reviewed # None =>
                        \A m \in DOMAIN node[n].obs.reviewed : node[n].obs.reviewed[m] \in Nat
<1>1. SafeGraph(node, failed) /\ seq \in 0 .. MaxSeq
  BY DEF Inv, Safe
<1>2. IsFiniteSet(DOMAIN node)
  BY <1>1, FiniteAssumption, FS_Subset DEF SafeGraph
<1>3. seq \in Nat
  BY <1>1, ReviewAssumption
<1>4. ASSUME NEW n \in DOMAIN node
      PROVE  /\ node[n] \in NodeRecord /\ node[n].deps \subseteq DOMAIN node
             /\ node[n].obs # None => node[n].obs.rev <= node[n].rev
  BY <1>1 DEF SafeGraph, NodeSafe
<1>5. ASSUME NEW n \in DOMAIN node, node[n].obs # None
      PROVE  node[n].obs \in Observation
  BY <1>4, <1>5 DEF NodeRecord
<1>6. ASSUME NEW n \in DOMAIN node, node[n].obs # None
      PROVE  /\ node[n].obs.seq \in Nat /\ node[n].obs.rev \in Nat /\ node[n].obs.clean
             /\ node[n].obs.reviewed # None =>
                  \A m \in DOMAIN node[n].obs.reviewed : node[n].obs.reviewed[m] \in Nat
  <2>1. node[n].obs \in Observation
    BY <1>5, <1>6
  <2>2. /\ node[n].obs.seq \in 1 .. MaxSeq /\ node[n].obs.rev \in 1 .. MaxRev
        /\ node[n].obs.clean \in {TRUE}
        /\ node[n].obs.reviewed \in {None} \cup ReviewedSets
    BY <2>1 DEF Observation
  <2>3. node[n].obs.reviewed # None =>
          \A m \in DOMAIN node[n].obs.reviewed : node[n].obs.reviewed[m] \in 1 .. MaxRev
    BY <2>2 DEF ReviewedSets
  <2>4. \A i \in 1 .. MaxSeq : i \in Nat
    OBVIOUS
  <2>5. \A i \in 1 .. MaxRev : i \in Nat
    OBVIOUS
  <2> QED
    BY <2>2, <2>3, <2>4, <2>5
<1>7. \A n \in DOMAIN node : node[n].rev \in 1 .. MaxRev /\ node[n].gate \in {"tests", "review"}
  BY <1>4 DEF NodeRecord
<1> QED
  BY <1>2, <1>3, <1>4, <1>6, <1>7, ReviewAssumption

\* Everything about a node but its observation and its reds.
SameDuty(r, q) == /\ r.deps = q.deps /\ r.gate = q.gate /\ r.contract = q.contract
                  /\ r.tests = q.tests /\ r.rev = q.rev

\* A recorded review is of its scope as it is now, at its present revisions.
LEMMA PublishWrites ==
  ASSUME Inv, NEW s \in Sessions, RecordPublish(s)
  PROVE  \E n \in DOMAIN node :
           LET scope == CurrentScope(node, n)
           IN  /\ node[n].gate = "review"
               /\ DOMAIN node' = DOMAIN node
               /\ \A m \in DOMAIN node \ {n} : node'[m] = node[m]
               /\ SameDuty(node'[n], node[n])
               /\ node'[n].obs # None /\ node'[n].obs.seq = seq + 1
               /\ node'[n].obs.reviewed = [m \in scope |-> node[m].rev]
               /\ node'[n].obs.reviewed # None
               /\ DOMAIN judged' = DOMAIN judged \cup {n}
               /\ judged'[n] = [m \in scope |-> Obligation(node, m)]
               /\ \A m \in DOMAIN judged \ {n} : judged'[m] = judged[m]
               /\ seq' = seq + 1
<1> DEFINE j == job[s]
           n == j.gate
           obs == [result |-> "pass", seq |-> seq + 1, rev |-> j.own.rev, clean |-> TRUE,
                   reviewed |-> [m \in DOMAIN j.scope |-> j.scope[m].rev],
                   report |-> j.report]
           scope == CurrentScope(node, n)
<1>1. n \in DOMAIN node /\ node[n] \in NodeRecord
  BY DEF Inv, Safe, SafeGraph, NodeSafe, SessionsTyped, RecordPublish
<1>2. /\ node' = [node EXCEPT ![n].obs = obs] /\ seq' = seq + 1
      /\ judged' = [m \in DOMAIN judged \cup {n} |->
                      IF m = n THEN [k \in DOMAIN j.scope |-> j.scope[k].owes] ELSE judged[m]]
  BY DEF RecordPublish
<1>3. /\ node[n].gate = "review" /\ DOMAIN j.scope = scope
      /\ \A m \in DOMAIN j.scope : Snapshot(node, m) = j.scope[m]
  BY DEF RecordPublish, RecordFenced, Admitted
<1>4. \A m \in scope : j.scope[m].rev = node[m].rev /\ j.scope[m].owes = Obligation(node, m)
  <2>1. \A m \in scope : Snapshot(node, m) = j.scope[m]
    BY <1>3
  <2>2. \A m : Snapshot(node, m).rev = node[m].rev /\ Snapshot(node, m).owes = Obligation(node, m)
    BY DEF Snapshot
  <2> QED
    BY <2>1, <2>2
<1>5. /\ obs.seq = seq + 1
      /\ obs.reviewed = [m \in scope |-> node[m].rev]
      /\ [k \in DOMAIN j.scope |-> j.scope[k].owes] = [m \in scope |-> Obligation(node, m)]
  BY <1>3, <1>4
<1>6. node'[n].obs = obs /\ SameDuty(node'[n], node[n])
  <2> HIDE DEF obs, n
  <2> QED
    BY <1>1, <1>2 DEF NodeRecord, SameDuty
<1>7. DOMAIN node' = DOMAIN node /\ \A m \in DOMAIN node \ {n} : node'[m] = node[m]
  BY <1>2
<1>8. obs \in Observation /\ obs.reviewed \in ReviewedSets
  BY PublishedTyped
<1>9. node'[n].obs # None /\ node'[n].obs.reviewed # None
  BY <1>6, <1>8, NoneAssumption
<1>10. /\ DOMAIN judged' = DOMAIN judged \cup {n}
       /\ judged'[n] = [k \in DOMAIN j.scope |-> j.scope[k].owes]
       /\ \A m \in DOMAIN judged \ {n} : judged'[m] = judged[m]
  BY <1>2
<1> HIDE DEF obs, j, n
<1>11. node'[n].obs.seq = seq + 1 /\ node'[n].obs.reviewed = [m \in scope |-> node[m].rev]
  BY <1>5, <1>6
<1> QED
  BY <1>1, <1>2, <1>3, <1>5, <1>6, <1>7, <1>9, <1>10, <1>11

\* An observed node whose gate is edited is at a revision nobody has observed;
\* an unobserved one stays where it is.
LEMMA SetTestsWrites ==
  ASSUME Inv, NEW s \in Sessions, NEW n \in DOMAIN node, NEW new \in Gates, SetTests(s, n, new)
  PROVE  /\ node[n].gate = "tests"
         /\ DOMAIN node' = DOMAIN node
         /\ \A m \in DOMAIN node \ {n} : node'[m] = node[m]
         /\ node'[n].deps = node[n].deps /\ node'[n].gate = node[n].gate
         /\ node'[n].obs = node[n].obs
         /\ node'[n].rev = IF node[n].obs # None THEN node[n].rev + 1 ELSE node[n].rev
         /\ seq' = seq /\ judged' = judged
<1>1. node[n] \in NodeRecord
  BY DEF Inv, Safe, SafeGraph, NodeSafe
<1>2. node[n].gate = "tests" /\ seq' = seq /\ judged' = judged
  BY DEF SetTests, history
<1>3. node' = [node EXCEPT
                 ![n].tests = new,
                 ![n].rev   = IF node[n].obs # None THEN @ + 1 ELSE @,
                 ![n].red   = IF node[n].obs # None THEN CarryOver(node[n].tests, new, @)
                                                    ELSE @ \cap {t.id : t \in new}]
  BY DEF SetTests, WithTests
<1>4. DOMAIN node' = DOMAIN node /\ \A m \in DOMAIN node \ {n} : node'[m] = node[m]
  BY <1>3
<1> QED
  BY <1>1, <1>2, <1>3, <1>4 DEF NodeRecord

\* A synced node gets an observation at its present revision.
LEMMA SyncWrites ==
  ASSUME Inv, NEW s \in Sessions, NEW n \in DOMAIN node, NEW fails \in SUBSET TestIds,
         Sync(s, n, fails)
  PROVE  /\ node[n].gate = "tests"
         /\ DOMAIN node' = DOMAIN node
         /\ \A m \in DOMAIN node \ {n} : node'[m] = node[m]
         /\ SameDuty(node'[n], node[n])
         /\ node'[n].obs.seq = seq + 1 /\ node'[n].obs.reviewed = None
         /\ seq' = seq + 1 /\ judged' = judged
<1> DEFINE obs == [result |-> IF fails = {} THEN "pass" ELSE "fail", seq |-> seq + 1,
                   rev |-> node[n].rev, clean |-> TRUE, reviewed |-> None, report |-> None]
<1>1. node[n] \in NodeRecord
  BY DEF Inv, Safe, SafeGraph, NodeSafe
<1>2. node[n].gate = "tests" /\ seq' = seq + 1 /\ judged' = judged
  BY DEF Sync
<1>3. node' = [node EXCEPT ![n].obs = obs, ![n].red = @ \cup fails]
  BY DEF Sync
<1>4. obs.seq = seq + 1 /\ obs.reviewed = None
  OBVIOUS
<1> HIDE DEF obs
<1>5. DOMAIN node' = DOMAIN node /\ \A m \in DOMAIN node \ {n} : node'[m] = node[m]
  BY <1>3
<1>6. node'[n].obs = obs /\ SameDuty(node'[n], node[n])
  BY <1>1, <1>3 DEF NodeRecord, SameDuty
<1> QED
  BY <1>2, <1>4, <1>5, <1>6

\* What an amendment writes, and that its gate is a review that compiles with
\* what it has come to depend on.
LEMMA AmendWrites ==
  ASSUME Inv, NEW s \in Sessions, AmendWrite(s)
  PROVE  LET n == job[s].gate
             c == job[s].report
         IN  /\ n \in DOMAIN node /\ node[n].gate = "review" /\ c \in Contents
             /\ IsAmended(node', node, n, c)
             /\ Plannable(node, n, c) /\ Compiles(node')
             /\ seq' = seq + 1 /\ judged' = judged
<1>1. /\ SessionsTyped /\ AmendmentsPlanned /\ Shape(node)
  BY SafeGraphShape DEF Inv, Safe
<1>2. job[s].gate \in DOMAIN node /\ job[s].report \in Contents
  BY <1>1 DEF AmendWrite, SessionsTyped
<1>3. /\ node[job[s].gate].gate = "review"
      /\ Plannable(node, job[s].gate, job[s].report)
      /\ Compiles(Amended(node, job[s].gate, job[s].report))
  BY <1>1 DEF AmendWrite, AmendmentsPlanned, graph
<1>4. /\ node' = Amended(node, job[s].gate, job[s].report)
      /\ \A m \in DOMAIN job[s].report.revise : node[m].rev < MaxRev
      /\ seq' = seq + 1 /\ judged' = judged
  BY DEF AmendWrite, history
<1> QED
  BY <1>1, <1>2, <1>3, <1>4, AmendedNodes

-----------------------------------------------------------------------------
(***************************************************************************)
(* GREEN reviews.                                                          *)
(***************************************************************************)
\* What a review below r vouches for, r does.
LEMMA VouchedAbove ==
  ASSUME Inv, NEW r, NEW q \in DependencyClosure(node, r), NEW m, Vouched(q, m)
  PROVE  Vouched(r, m)
<1>1. IsFiniteSet(DOMAIN node)
  BY GraphNumbers
<1>2. {q} \cup DependencyClosure(node, q) \subseteq DependencyClosure(node, r)
  BY <1>1, ClosureTransitive
<1> QED
  BY <1>2 DEF Vouched

\* A GREEN review vouches for the work below it that is proven, itself or
\* through the reviews that its scope leaves out.
LEMMA GreenVouches ==
  ASSUME Inv, Evidence,
         NEW m \in DOMAIN node, node[m].gate = "tests", node[m].obs # None,
         node[m].obs.rev = node[m].rev,
         NEW r \in DOMAIN node, node[r].gate = "review", Derive(node)[r].state = "GREEN",
         m \in DependencyClosure(node, r)
  PROVE  Vouched(r, m)
<1> DEFINE Vouches(q) == /\ node[q].gate = "review" /\ Derive(node)[q].state = "GREEN"
                         /\ m \in DependencyClosure(node, q)
           S == {q \in DOMAIN node : Vouches(q) => Vouched(q, m)}
<1>1. IsFiniteSet(DOMAIN node)
  BY GraphNumbers
<1>2. ASSUME NEW q \in TopoSort(node), DependencyClosure(node, q) \subseteq S
      PROVE  q \in S
  <2>1. q \in DOMAIN node
    BY <1>1, TopoLaws
  <2> SUFFICES ASSUME Vouches(q) PROVE Vouched(q, m)
    BY <2>1
  <2> DEFINE green == GreenBelow(node, q, Derive(node))
  <2>2. m # q /\ node[q].obs # None
    BY <1>1, <2>1, GreenMeans
  <2>3. CASE m \in ReviewScope(node, q, green)
    <3>1. ~Outdated(node, q, m) /\ ~ObservedSince(node, m, node[q].obs)
      BY <1>1, <2>1, <2>3, GreenReviewCovers
    <3>2. /\ node[m].obs.seq \in Nat /\ node[q].obs.seq \in Nat
          /\ node[m].rev \in Nat /\ node[m].rev >= 1
          /\ node[q].obs.reviewed # None =>
               \A k \in DOMAIN node[q].obs.reviewed : node[q].obs.reviewed[k] \in Nat
      BY <2>1, <2>2, GraphNumbers
    <3>3. node[m].obs.seq # node[q].obs.seq
      BY <2>1, <2>2 DEF Evidence, Ordered, ObservationsOrdered
    <3>4. node[m].obs.seq < node[q].obs.seq
      BY <3>1, <3>2, <3>3 DEF ObservedSince
    <3>5. Binds(q, m)
      <4>1. CASE node[q].obs.reviewed = None
        BY <3>1, <3>2, <4>1 DEF Outdated, Binds
      <4>2. CASE node[q].obs.reviewed # None
        <5>1. m \in DOMAIN node[q].obs.reviewed /\ ~(node[m].rev > node[q].obs.reviewed[m])
          BY <3>1, <4>2 DEF Outdated
        <5>2. node[q].obs.reviewed[m] <= node[m].rev
          BY <2>1, <2>2, <4>2, <5>1 DEF Evidence, Ordered, ReviewsLookDown
        <5> QED
          BY <3>2, <4>2, <5>1, <5>2 DEF Binds
      <4> QED
        BY <4>1, <4>2
    <3> QED
      BY <2>1, <2>2, <3>4, <3>5 DEF Evidence, BoundIsVouched
  <2>4. CASE m \notin ReviewScope(node, q, green)
    <3>1. PICK k \in DependencyClosure(node, q) \ {q} :
            /\ node[k].gate = "review" /\ k \in green
            /\ m = k \/ m \in DependencyClosure(node, k)
      BY <2>2, <2>4, ScopeOrCovered
    <3>2. Vouches(k)
      BY <3>1 DEF GreenBelow
    <3>3. Vouched(k, m)
      BY <1>2, <3>1, <3>2
    <3> QED
      BY <3>1, <3>3, VouchedAbove
  <2> QED
    BY <2>3, <2>4
<1>3. TopoSort(node) \subseteq S
  <2> HIDE DEF S
  <2> QED
    BY <1>1, <1>2, TopoInduction
<1>4. r \in S
  BY <1>1, <1>3, GreenMeans
<1> QED
  BY <1>4

\* Closed work is in the scope of a GREEN review and GREEN itself.
LEMMA ClosedWork ==
  ASSUME NEW g, IsFiniteSet(DOMAIN g), NEW n \in Closed(g)
  PROVE  /\ n \in DOMAIN g
         /\ \/ g[n].gate = "review" \/ g[n].role = "integration_acceptance"
            \/ /\ Derive(g)[n].state = "GREEN"
               /\ \E r \in DOMAIN g : /\ g[r].gate = "review" /\ Derive(g)[r].state = "GREEN"
                                      /\ n \in DependencyClosure(g, r)
<1> DEFINE st     == Derive(g)
           green  == {m \in DOMAIN g : st[m].state = "GREEN"}
           passed == {r \in green : g[r].gate = "review" /\ g[r].full
                                    /\ g[r].obs # None /\ g[r].obs.result = "pass"}
           direct == passed \cup
                     UNION {ReviewScopeFromStates(g, r, st) \cap green : r \in passed}
           upstream == [m \in {k \in green : g[k].role = "integration_acceptance"} |->
                          DependencyClosure(g, m) \ {m}]
           step == [S \in SUBSET DOMAIN g |->
                      direct \cup {m \in DOMAIN upstream : upstream[m] # {} /\ upstream[m] \subseteq S}]
<1>1. Closed(g) = Least(DOMAIN g, step)
  BY DEF Closed
<1>2. Monotone(DOMAIN g, step)
  BY DEF Monotone
<1>3. /\ Least(DOMAIN g, step) \in SUBSET DOMAIN g
      /\ Least(DOMAIN g, step) \subseteq step[Least(DOMAIN g, step)]
  <2> HIDE DEF step
  <2> QED
    BY <1>2, LeastSupported, LeastSettled DEF Settled
<1>4. n \in DOMAIN g /\ (n \in direct \/ n \in DOMAIN upstream)
  <2> HIDE DEF direct, upstream
  <2> QED
    BY <1>1, <1>3
<1>5. CASE n \in DOMAIN upstream
  BY <1>4, <1>5
<1>6. CASE n \in passed
  BY <1>4, <1>6
<1>7. CASE \E r \in passed : n \in ReviewScopeFromStates(g, r, st) \cap green
  <2>1. PICK r \in passed : n \in ReviewScopeFromStates(g, r, st) /\ n \in green
    BY <1>7
  <2>2. n \in DependencyClosure(g, r)
    BY <2>1 DEF ReviewScopeFromStates, ReviewScope
  <2> QED
    BY <1>4, <2>1, <2>2
<1> QED
  BY <1>4, <1>5, <1>6, <1>7

LEMMA EvidenceCloses == Inv /\ Evidence => ClosedAsReviewed
<1> SUFFICES ASSUME Inv, Evidence, NEW n \in Closed(node),
                    node[n].gate # "review", node[n].role # "integration_acceptance"
             PROVE  \E r \in DOMAIN judged :
                      /\ n \in DOMAIN judged[r] /\ judged[r][n] = Obligation(node, n)
                      /\ node[r].obs.seq > node[n].obs.seq
  BY DEF ClosedAsReviewed
<1>1. IsFiniteSet(DOMAIN node)
  BY GraphNumbers
<1>2. /\ n \in DOMAIN node /\ Derive(node)[n].state = "GREEN"
      /\ \E r \in DOMAIN node : /\ node[r].gate = "review" /\ Derive(node)[r].state = "GREEN"
                                /\ n \in DependencyClosure(node, r)
  BY <1>1, ClosedWork
<1>3. node[n].obs # None /\ node[n].obs.rev = node[n].rev /\ node[n].gate = "tests"
  BY <1>1, <1>2, GreenMeans, GraphNumbers
<1>4. PICK r \in DOMAIN node : Vouched(r, n)
  BY <1>2, <1>3, GreenVouches
<1> QED
  BY <1>4 DEF Vouched

-----------------------------------------------------------------------------
(***************************************************************************)
(* The evidence, step by step.                                             *)
(***************************************************************************)
\* Work whose obligation changes is at a revision nobody has observed.
LEMMA SetTestsOrdered ==
  ASSUME Inv, Ordered, NEW s \in Sessions, NEW n \in DOMAIN node, NEW new \in Gates,
         SetTests(s, n, new)
  PROVE  Ordered'
<1>1. /\ node[n].gate = "tests" /\ DOMAIN node' = DOMAIN node
      /\ \A m \in DOMAIN node \ {n} : node'[m] = node[m]
      /\ node'[n].deps = node[n].deps /\ node'[n].gate = node[n].gate
      /\ node'[n].obs = node[n].obs
      /\ node'[n].rev = IF node[n].obs # None THEN node[n].rev + 1 ELSE node[n].rev
      /\ seq' = seq /\ judged' = judged
  BY SetTestsWrites
<1>2. \A m \in DOMAIN node : /\ node'[m].deps = node[m].deps /\ node'[m].gate = node[m].gate
                             /\ node'[m].obs = node[m].obs
  BY <1>1
<1>3. \A m \in DOMAIN node : DependencyClosure(node', m) = DependencyClosure(node, m)
  BY <1>1, <1>2, SameClosures, GraphNumbers
<1>4. ObservationsOrdered'
  BY <1>1, <1>2 DEF Ordered, ObservationsOrdered
<1>5. ReviewsLookDown'
  <2>1. ASSUME NEW r \in DOMAIN node, node[r].obs # None, node[r].obs.reviewed # None,
               NEW m \in DOMAIN node[r].obs.reviewed
        PROVE  m \in DOMAIN node /\ node[r].obs.reviewed[m] <= node'[m].rev
    <3>1. m \in DOMAIN node /\ node[r].obs.reviewed[m] <= node[m].rev
      BY <2>1 DEF Ordered, ReviewsLookDown
    <3>2. node[r].obs.reviewed[m] \in Nat /\ node[m].rev \in Nat
      BY <2>1, <3>1, GraphNumbers
    <3>3. node'[m].rev \in {node[m].rev, node[m].rev + 1}
      BY <1>1, <3>1
    <3> QED
      BY <3>1, <3>2, <3>3
  <2> QED
    BY <1>1, <1>2, <1>3, <2>1 DEF Ordered, ReviewsLookDown
<1> QED
  BY <1>4, <1>5 DEF Ordered

LEMMA SetTestsEvidence ==
  ASSUME Inv, Evidence, NEW s \in Sessions, NEW n \in DOMAIN node, NEW new \in Gates,
         SetTests(s, n, new)
  PROVE  Evidence'
<1>1. /\ node[n].gate = "tests" /\ DOMAIN node' = DOMAIN node
      /\ \A m \in DOMAIN node \ {n} : node'[m] = node[m]
      /\ node'[n].deps = node[n].deps /\ node'[n].gate = node[n].gate
      /\ node'[n].obs = node[n].obs
      /\ node'[n].rev = IF node[n].obs # None THEN node[n].rev + 1 ELSE node[n].rev
      /\ seq' = seq /\ judged' = judged
  BY SetTestsWrites
<1>2. \A m \in DOMAIN node : /\ node'[m].deps = node[m].deps /\ node'[m].gate = node[m].gate
                             /\ node'[m].obs = node[m].obs
  BY <1>1
<1>3. \A m \in DOMAIN node : DependencyClosure(node', m) = DependencyClosure(node, m)
  BY <1>1, <1>2, SameClosures, GraphNumbers
<1>4. Ordered'
  BY SetTestsOrdered DEF Evidence
<1>5. BoundIsVouched'
  <2> SUFFICES ASSUME NEW r \in DOMAIN node, NEW m \in DOMAIN node,
                      node'[r].gate = "review", node'[m].gate = "tests",
                      node'[r].obs # None, node'[m].obs # None,
                      node'[m].obs.seq < node'[r].obs.seq, node'[m].obs.rev = node'[m].rev,
                      Binds(r, m)'
               PROVE  Vouched(r, m)'
    BY <1>1 DEF BoundIsVouched
  <2>1. m # n
    BY <1>1, GraphNumbers
  <2>2. r # n /\ node'[r] = node[r] /\ node'[m] = node[m]
    BY <1>1, <2>1
  <2>3. Binds(r, m)
    BY <1>3, <2>2 DEF Binds
  <2>4. Vouched(r, m)
    BY <2>2, <2>3 DEF Evidence, BoundIsVouched
  <2>5. PICK q \in DOMAIN judged \cap ({r} \cup DependencyClosure(node, r)) :
          /\ m \in DOMAIN judged[q] /\ judged[q][m] = Obligation(node, m)
          /\ node[q].obs.seq > node[m].obs.seq
    BY <2>4 DEF Vouched
  <2>6. q \in DOMAIN node
    BY DEF Evidence, Ordered, ReviewsLookDown
  <2> QED
    BY <1>1, <1>2, <1>3, <2>2, <2>5, <2>6 DEF Vouched, Obligation
<1>6. LegacyReviewsCover'
  BY <1>1, <1>2, <1>3 DEF Evidence, LegacyReviewsCover
<1> QED
  BY <1>4, <1>5, <1>6 DEF Evidence

\* Work that is observed again is newer than every review.
LEMMA SyncOrdered ==
  ASSUME Inv, Ordered, NEW s \in Sessions, NEW n \in DOMAIN node,
         NEW fails \in SUBSET TestIds, Sync(s, n, fails)
  PROVE  Ordered'
<1>1. /\ node[n].gate = "tests" /\ DOMAIN node' = DOMAIN node
      /\ \A m \in DOMAIN node \ {n} : node'[m] = node[m]
      /\ SameDuty(node'[n], node[n])
      /\ node'[n].obs.seq = seq + 1 /\ node'[n].obs.reviewed = None
      /\ seq' = seq + 1 /\ judged' = judged
  BY SyncWrites
<1>2. \A m \in DOMAIN node : /\ node'[m].deps = node[m].deps /\ node'[m].gate = node[m].gate
                             /\ node'[m].rev = node[m].rev
  BY <1>1 DEF SameDuty
<1>3. \A m \in DOMAIN node : DependencyClosure(node', m) = DependencyClosure(node, m)
  BY <1>1, <1>2, SameClosures, GraphNumbers
<1>4. seq \in Nat /\ \A m \in DOMAIN node : node[m].obs # None => node[m].obs.seq \in Nat
                                                                  /\ node[m].obs.seq <= seq
  BY GraphNumbers DEF Ordered, ObservationsOrdered
<1>5. ObservationsOrdered'
  <2> SUFFICES ASSUME NEW r \in DOMAIN node, node'[r].obs # None
               PROVE  /\ node'[r].obs.seq <= seq + 1
                      /\ \A m \in DOMAIN node : m # r /\ node'[m].obs # None =>
                           /\ node'[m].obs.seq # node'[r].obs.seq
                           /\ node'[r].gate = "review" /\ node'[r].obs.reviewed = None
                              /\ node'[m].obs.seq < node'[r].obs.seq => node'[m].obs.rev = 1
    BY <1>1 DEF ObservationsOrdered
  <2>1. node'[r].obs.seq <= seq + 1
    BY <1>1, <1>4
  <2>2. ASSUME NEW m \in DOMAIN node, m # r, node'[m].obs # None
        PROVE  /\ node'[m].obs.seq # node'[r].obs.seq
               /\ node'[r].gate = "review" /\ node'[r].obs.reviewed = None
                  /\ node'[m].obs.seq < node'[r].obs.seq => node'[m].obs.rev = 1
    <3>1. CASE r = n
      BY <1>1, <1>2, <1>4, <2>2, <3>1
    <3>2. CASE m = n
      BY <1>1, <1>4, <2>2, <3>2
    <3>3. CASE r # n /\ m # n
      BY <1>1, <2>2, <3>3 DEF Ordered, ObservationsOrdered
    <3> QED
      BY <3>1, <3>2, <3>3
  <2> QED
    BY <2>1, <2>2
<1>6. ReviewsLookDown'
  BY <1>1, <1>2, <1>3 DEF Ordered, ReviewsLookDown
<1> QED
  BY <1>5, <1>6 DEF Ordered

LEMMA SyncEvidence ==
  ASSUME Inv, Evidence, NEW s \in Sessions, NEW n \in DOMAIN node,
         NEW fails \in SUBSET TestIds, Sync(s, n, fails)
  PROVE  Evidence'
<1>1. /\ node[n].gate = "tests" /\ DOMAIN node' = DOMAIN node
      /\ \A m \in DOMAIN node \ {n} : node'[m] = node[m]
      /\ SameDuty(node'[n], node[n])
      /\ node'[n].obs.seq = seq + 1 /\ node'[n].obs.reviewed = None
      /\ seq' = seq + 1 /\ judged' = judged
  BY SyncWrites
<1>2. \A m \in DOMAIN node : /\ node'[m].deps = node[m].deps /\ node'[m].gate = node[m].gate
                             /\ node'[m].rev = node[m].rev
  BY <1>1 DEF SameDuty
<1>3. \A m \in DOMAIN node : DependencyClosure(node', m) = DependencyClosure(node, m)
  BY <1>1, <1>2, SameClosures, GraphNumbers
<1>4. seq \in Nat /\ \A m \in DOMAIN node : node[m].obs # None => node[m].obs.seq \in Nat
                                                                  /\ node[m].obs.seq <= seq
  BY GraphNumbers DEF Evidence, Ordered, ObservationsOrdered
<1>5. Ordered'
  BY SyncOrdered DEF Evidence
<1>6. BoundIsVouched'
  <2> SUFFICES ASSUME NEW r \in DOMAIN node, NEW m \in DOMAIN node,
                      node'[r].gate = "review", node'[m].gate = "tests",
                      node'[r].obs # None, node'[m].obs # None,
                      node'[m].obs.seq < node'[r].obs.seq, node'[m].obs.rev = node'[m].rev,
                      Binds(r, m)'
               PROVE  Vouched(r, m)'
    BY <1>1 DEF BoundIsVouched
  <2>1. r # n /\ node'[r] = node[r]
    BY <1>1, <1>2
  <2>2. m # n /\ node'[m] = node[m]
    BY <1>1, <1>4, <2>1
  <2>3. Binds(r, m)
    BY <1>3, <2>1, <2>2 DEF Binds
  <2>4. Vouched(r, m)
    BY <2>1, <2>2, <2>3 DEF Evidence, BoundIsVouched
  <2>5. PICK q \in DOMAIN judged \cap ({r} \cup DependencyClosure(node, r)) :
          /\ m \in DOMAIN judged[q] /\ judged[q][m] = Obligation(node, m)
          /\ node[q].obs.seq > node[m].obs.seq
    BY <2>4 DEF Vouched
  <2>6. q \in DOMAIN node /\ q # n
    BY <1>1 DEF Evidence, Ordered, ReviewsLookDown
  <2> QED
    BY <1>1, <1>3, <2>2, <2>5, <2>6 DEF Vouched, Obligation
<1>7. LegacyReviewsCover'
  BY <1>1, <1>2, <1>3, <1>4 DEF Evidence, LegacyReviewsCover
<1> QED
  BY <1>5, <1>6, <1>7 DEF Evidence

\* A review evaluates its scope as it is; nothing recorded before is newer.
LEMMA PublishOrdered ==
  ASSUME Inv, Ordered, NEW s \in Sessions, RecordPublish(s)
  PROVE  Ordered'
<1>1. PICK n \in DOMAIN node :
        /\ node[n].gate = "review"
        /\ DOMAIN node' = DOMAIN node
        /\ \A m \in DOMAIN node \ {n} : node'[m] = node[m]
        /\ SameDuty(node'[n], node[n])
        /\ node'[n].obs # None /\ node'[n].obs.seq = seq + 1
        /\ node'[n].obs.reviewed = [m \in CurrentScope(node, n) |-> node[m].rev]
        /\ node'[n].obs.reviewed # None
        /\ DOMAIN judged' = DOMAIN judged \cup {n}
        /\ judged'[n] = [m \in CurrentScope(node, n) |-> Obligation(node, m)]
        /\ \A m \in DOMAIN judged \ {n} : judged'[m] = judged[m]
        /\ seq' = seq + 1
  BY PublishWrites
<1>2. \A m \in DOMAIN node : /\ node'[m].deps = node[m].deps /\ node'[m].gate = node[m].gate
                             /\ node'[m].rev = node[m].rev
  BY <1>1 DEF SameDuty
<1>3. \A m \in DOMAIN node : DependencyClosure(node', m) = DependencyClosure(node, m)
  BY <1>1, <1>2, SameClosures, GraphNumbers
<1>4. seq \in Nat /\ \A m \in DOMAIN node : node[m].obs # None => node[m].obs.seq \in Nat
                                                                  /\ node[m].obs.seq <= seq
  BY GraphNumbers DEF Ordered, ObservationsOrdered
<1>5. CurrentScope(node, n) \subseteq DependencyClosure(node, n) \ {n}
  BY DEF CurrentScope, ReviewScopeFromStates, ReviewScope
<1>6. DependencyClosure(node, n) \subseteq DOMAIN node
  BY GraphNumbers, ClosureLaws
<1>7. ObservationsOrdered'
  <2> SUFFICES ASSUME NEW r \in DOMAIN node, node'[r].obs # None
               PROVE  /\ node'[r].obs.seq <= seq + 1
                      /\ \A m \in DOMAIN node : m # r /\ node'[m].obs # None =>
                           /\ node'[m].obs.seq # node'[r].obs.seq
                           /\ node'[r].gate = "review" /\ node'[r].obs.reviewed = None
                              /\ node'[m].obs.seq < node'[r].obs.seq => node'[m].obs.rev = 1
    BY <1>1 DEF ObservationsOrdered
  <2>1. node'[r].obs.seq <= seq + 1
    BY <1>1, <1>4
  <2>2. ASSUME NEW m \in DOMAIN node, m # r, node'[m].obs # None
        PROVE  /\ node'[m].obs.seq # node'[r].obs.seq
               /\ node'[r].gate = "review" /\ node'[r].obs.reviewed = None
                  /\ node'[m].obs.seq < node'[r].obs.seq => node'[m].obs.rev = 1
    <3>1. CASE r = n
      BY <1>1, <1>2, <1>4, <2>2, <3>1
    <3>2. CASE m = n
      BY <1>1, <1>4, <2>2, <3>2
    <3>3. CASE r # n /\ m # n
      BY <1>1, <2>2, <3>3 DEF Ordered, ObservationsOrdered
    <3> QED
      BY <3>1, <3>2, <3>3
  <2> QED
    BY <2>1, <2>2
<1>8. ReviewsLookDown'
  <2>1. ASSUME NEW r \in DOMAIN node, node'[r].obs # None, node'[r].obs.reviewed # None
        PROVE  /\ DOMAIN node'[r].obs.reviewed \subseteq DOMAIN node
               /\ \A m \in DOMAIN node'[r].obs.reviewed : node'[r].obs.reviewed[m] <= node'[m].rev
    <3>1. CASE r = n
      <4>1. \A m \in CurrentScope(node, n) : m \in DOMAIN node /\ node[m].rev <= node'[m].rev
        BY <1>2, <1>5, <1>6, GraphNumbers
      <4> QED
        BY <1>1, <3>1, <4>1
    <3>2. CASE r # n
      BY <1>1, <1>2, <2>1, <3>2 DEF Ordered, ReviewsLookDown
    <3> QED
      BY <3>1, <3>2
  <2>2. ASSUME NEW r \in DOMAIN judged'
        PROVE  /\ r \in DOMAIN node /\ node'[r].gate = "review" /\ node'[r].obs # None
               /\ DOMAIN judged'[r] \subseteq DependencyClosure(node', r) \ {r}
    <3>1. CASE r = n
      BY <1>1, <1>2, <1>3, <1>5, <3>1
    <3>2. CASE r # n
      <4>1. r \in DOMAIN judged
        BY <1>1, <3>2
      <4> QED
        BY <1>1, <1>3, <3>2, <4>1 DEF Ordered, ReviewsLookDown
    <3> QED
      BY <3>1, <3>2
  <2> QED
    BY <1>1, <2>1, <2>2 DEF ReviewsLookDown
<1> QED
  BY <1>7, <1>8 DEF Ordered

\* What an earlier review of this gate vouched for and this one leaves out, a
\* current review below it vouches for.
LEMMA PublishEvidence ==
  ASSUME Inv, Evidence, NEW s \in Sessions, RecordPublish(s)
  PROVE  Evidence'
<1>1. PICK n \in DOMAIN node :
        /\ node[n].gate = "review"
        /\ DOMAIN node' = DOMAIN node
        /\ \A m \in DOMAIN node \ {n} : node'[m] = node[m]
        /\ SameDuty(node'[n], node[n])
        /\ node'[n].obs # None /\ node'[n].obs.seq = seq + 1
        /\ node'[n].obs.reviewed = [m \in CurrentScope(node, n) |-> node[m].rev]
        /\ node'[n].obs.reviewed # None
        /\ DOMAIN judged' = DOMAIN judged \cup {n}
        /\ judged'[n] = [m \in CurrentScope(node, n) |-> Obligation(node, m)]
        /\ \A m \in DOMAIN judged \ {n} : judged'[m] = judged[m]
        /\ seq' = seq + 1
  BY PublishWrites
<1>2. \A m \in DOMAIN node : /\ node'[m].deps = node[m].deps /\ node'[m].gate = node[m].gate
                             /\ node'[m].rev = node[m].rev
                             /\ Obligation(node', m) = Obligation(node, m)
  BY <1>1 DEF SameDuty, Obligation
<1>3. \A m \in DOMAIN node : DependencyClosure(node', m) = DependencyClosure(node, m)
  BY <1>1, <1>2, SameClosures, GraphNumbers
<1>4. seq \in Nat /\ \A m \in DOMAIN node : node[m].obs # None => node[m].obs.seq \in Nat
                                                                  /\ node[m].obs.seq <= seq
  BY GraphNumbers DEF Evidence, Ordered, ObservationsOrdered
<1>5. Ordered'
  BY PublishOrdered DEF Evidence
<1>6. IsFiniteSet(DOMAIN node) /\ DependencyClosure(node, n) \subseteq DOMAIN node
  BY GraphNumbers, ClosureLaws
<1>7. BoundIsVouched'
  <2> SUFFICES ASSUME NEW r \in DOMAIN node, NEW m \in DOMAIN node,
                      node'[r].gate = "review", node'[m].gate = "tests",
                      node'[r].obs # None, node'[m].obs # None,
                      node'[m].obs.seq < node'[r].obs.seq, node'[m].obs.rev = node'[m].rev,
                      Binds(r, m)'
               PROVE  Vouched(r, m)'
    BY <1>1 DEF BoundIsVouched
  <2>1. m # n /\ node'[m] = node[m] /\ node[m].gate = "tests"
    BY <1>1, <1>2
  <2>2. \A q \in DOMAIN judged' \cap ({r} \cup DependencyClosure(node, r)) :
          m \in DOMAIN judged'[q] /\ judged'[q][m] = Obligation(node, m)
          /\ node'[q].obs.seq > node[m].obs.seq => Vouched(r, m)'
    BY <1>2, <1>3, <2>1 DEF Vouched
  <2>3. ASSUME n \in {r} \cup DependencyClosure(node, r), m \in CurrentScope(node, n)
        PROVE  Vouched(r, m)'
    <3>1. node'[n].obs.seq > node[m].obs.seq
      BY <1>1, <1>4, <2>1
    <3> QED
      BY <1>1, <2>2, <2>3, <3>1
  <2>4. ASSUME NEW q \in DOMAIN judged \cap ({r} \cup DependencyClosure(node, r)), q # n,
               m \in DOMAIN judged[q], judged[q][m] = Obligation(node, m),
               node[q].obs.seq > node[m].obs.seq
        PROVE  Vouched(r, m)'
    <3>1. q \in DOMAIN node
      BY DEF Evidence, Ordered, ReviewsLookDown
    <3> QED
      BY <1>1, <2>2, <2>4, <3>1
  <2>5. CASE r = n
    BY <1>1, <2>3, <2>5 DEF Binds
  <2>6. CASE r # n
    <3>1. node'[r] = node[r] /\ Binds(r, m)
      BY <1>1, <1>3, <2>1, <2>6 DEF Binds
    <3>2. Vouched(r, m)
      BY <2>1, <3>1 DEF Evidence, BoundIsVouched
    <3>3. PICK q \in DOMAIN judged \cap ({r} \cup DependencyClosure(node, r)) :
            /\ m \in DOMAIN judged[q] /\ judged[q][m] = Obligation(node, m)
            /\ node[q].obs.seq > node[m].obs.seq
      BY <3>2 DEF Vouched
    <3>4. CASE q = n /\ m \notin CurrentScope(node, n)
      <4>1. m \in DependencyClosure(node, n) \ {n}
        BY <3>3, <3>4 DEF Evidence, Ordered, ReviewsLookDown
      <4>2. m \notin ReviewScope(node, n, GreenBelow(node, n, Derive(node)))
        BY <1>6, <3>4, ScopeOfStates DEF CurrentScope
      <4>3. PICK k \in DependencyClosure(node, n) \ {n} :
              /\ node[k].gate = "review" /\ k \in GreenBelow(node, n, Derive(node))
              /\ m = k \/ m \in DependencyClosure(node, k)
        BY <4>1, <4>2, ScopeOrCovered
      <4>4. k \in DOMAIN node /\ Derive(node)[k].state = "GREEN" /\ m \in DependencyClosure(node, k)
        BY <1>6, <2>1, <4>3 DEF GreenBelow
      <4>5. Vouched(k, m)
        BY <2>1, <4>3, <4>4, GreenVouches
      <4>6. PICK p \in DOMAIN judged \cap ({k} \cup DependencyClosure(node, k)) :
              /\ m \in DOMAIN judged[p] /\ judged[p][m] = Obligation(node, m)
              /\ node[p].obs.seq > node[m].obs.seq
        BY <4>5 DEF Vouched
      <4>7. p \in DependencyClosure(node, n)
        BY <1>6, <4>3, <4>6, ClosureTransitive
      <4>8. p \in {r} \cup DependencyClosure(node, r)
        BY <1>6, <3>3, <3>4, <4>7, ClosureTransitive
      <4>9. p # n
        <5>1. k \in TopoSort(node)
          BY <1>6, <4>4, GreenMeans
        <5>2. DependencyClosure(node, k) \subseteq TopoSort(node)
          BY <1>6, <5>1, TopoAcyclic
        <5>3. n \in TopoSort(node) => n \notin DependencyClosure(node, n)
          BY <1>6, TopoAcyclic
        <5> QED
          BY <4>3, <4>6, <4>7, <5>2, <5>3
      <4> QED
        BY <2>4, <4>6, <4>8, <4>9
    <3> QED
      BY <2>3, <2>4, <3>3, <3>4
  <2> QED
    BY <2>5, <2>6
<1>8. LegacyReviewsCover'
  <2> SUFFICES ASSUME NEW r \in DOMAIN node, NEW m \in DOMAIN node,
                      node'[r].gate = "review", node'[m].gate = "tests",
                      node'[r].obs # None, node'[m].obs # None,
                      node'[r].obs.reviewed = None, node'[m].obs.seq < node'[r].obs.seq
               PROVE  m \in DependencyClosure(node', r)
    BY <1>1 DEF LegacyReviewsCover
  <2>1. r # n /\ m # n
    BY <1>1, <1>2
  <2> QED
    BY <1>1, <1>3, <2>1 DEF Evidence, LegacyReviewsCover
<1> QED
  BY <1>5, <1>7, <1>8 DEF Evidence

\* Pinning binds an old review to what it stood for, at the present revisions.
LEMMA PinnedReviewed ==
  ASSUME NEW g, Shape(g), IsFiniteSet(DOMAIN g), NEW n \in DOMAIN g, g[n].obs # None
  PROVE  LET L == LegacyReviewedSet(g, n)
         IN  /\ ReviewPinned(g, n).reviewed = IF g[n].obs.reviewed = None THEN L
                                              ELSE g[n].obs.reviewed
             /\ L # None
             /\ DOMAIN L \subseteq DependencyClosure(g, n) /\ DOMAIN L \subseteq DOMAIN g
             /\ \A m \in DOMAIN L : L[m] = g[m].rev
<1> DEFINE scope == CurrentScope(g, n)
           bound == IF scope = {} THEN PresentDeps(g, n) ELSE scope
           L == LegacyReviewedSet(g, n)
<1>1. DependencyClosure(g, n) \subseteq DOMAIN g /\ PresentDeps(g, n) \subseteq DependencyClosure(g, n)
  BY ClosureLaws
<1>2. scope \subseteq DependencyClosure(g, n)
  BY DEF CurrentScope, ReviewScopeFromStates, ReviewScope
<1>3. bound \subseteq DependencyClosure(g, n)
  BY <1>1, <1>2
<1>4. L = [m \in bound |-> g[m].rev]
  BY DEF LegacyReviewedSet
<1>5. L # None
  <2>1. \A m \in bound : g[m].rev \in 1 .. MaxRev
    BY <1>1, <1>3 DEF Shape, NodeRecord
  <2>2. bound \in SUBSET Ids
    BY <1>1, <1>3 DEF Shape
  <2>3. L \in [bound -> 1 .. MaxRev]
    BY <1>4, <2>1
  <2> QED
    BY <2>2, <2>3, NoneAssumption DEF ReviewedSets
<1>6. g[n].obs \in Observation
  BY DEF Shape, NodeRecord
<1>7. ReviewPinned(g, n).reviewed = IF g[n].obs.reviewed = None THEN L ELSE g[n].obs.reviewed
  <2> HIDE DEF L
  <2>1. CASE g[n].obs.reviewed = None
    <3>1. ReviewPinned(g, n) = [g[n].obs EXCEPT !.reviewed = LegacyReviewedSet(g, n)]
      BY <2>1 DEF ReviewPinned
    <3> QED
      BY <1>6, <2>1, <3>1 DEF Observation, L
  <2>2. CASE g[n].obs.reviewed # None
    BY <2>2 DEF ReviewPinned
  <2> QED
    BY <2>1, <2>2
<1> QED
  BY <1>1, <1>3, <1>4, <1>5, <1>7

\* What an amendment by session s makes of gate n, of the nodes R it revises and
\* of the others: none is observed by it, the revised ones are at their next
\* revision, and nothing that was below a node is not any more.
AmendedBy(s, n, R) ==
  LET L == LegacyReviewedSet(node, n)
  IN  /\ n = job[s].gate /\ R = DOMAIN job[s].report.revise
      /\ node[n].gate = "review" /\ n \notin R
      /\ IsFiniteSet(DOMAIN node') /\ DOMAIN node \subseteq DOMAIN node'
      /\ \A m \in DOMAIN node' \ DOMAIN node : node'[m].obs = None
      /\ \A m \in DOMAIN node :
           /\ node'[m].gate = node[m].gate
           /\ node'[m].rev = IF m \in R THEN node[m].rev + 1 ELSE node[m].rev
           /\ m \notin R => Obligation(node', m) = Obligation(node, m)
           /\ node'[m].obs = None <=> node[m].obs = None
           /\ node[m].obs # None =>
                /\ node'[m].obs.seq = node[m].obs.seq
                /\ node'[m].obs.rev = node[m].obs.rev
                /\ node'[m].obs.reviewed =
                     IF m = n /\ node[m].obs.reviewed = None
                     THEN L ELSE node[m].obs.reviewed
           /\ DependencyClosure(node, m) \subseteq DependencyClosure(node', m)
      /\ node[n].obs # None =>
           /\ L # None
           /\ DOMAIN L \subseteq DependencyClosure(node, n) /\ DOMAIN L \subseteq DOMAIN node
           /\ \A m \in DOMAIN L : L[m] = node[m].rev
      /\ seq' = seq + 1 /\ judged' = judged

LEMMA AmendByNode ==
  ASSUME Inv, NEW s \in Sessions, AmendWrite(s)
  PROVE  \E n \in DOMAIN node, R \in SUBSET DOMAIN node : AmendedBy(s, n, R)
<1> DEFINE n == job[s].gate
           c == job[s].report
           R == DOMAIN c.revise
           L == LegacyReviewedSet(node, n)
<1>1. /\ n \in DOMAIN node /\ node[n].gate = "review" /\ IsAmended(node', node, n, c)
      /\ seq' = seq + 1 /\ judged' = judged
  BY AmendWrites
<1>2. Shape(node) /\ IsFiniteSet(DOMAIN node)
  BY GraphNumbers, SafeGraphShape DEF Inv, Safe
<1>3. DOMAIN node' \subseteq Ids
  <2>1. Inv'
    BY AmendWriteInv
  <2> QED
    BY <2>1 DEF Inv, Safe, SafeGraph
<1>4. IsFiniteSet(DOMAIN node') /\ DOMAIN node \subseteq DOMAIN node'
  BY <1>1, <1>3, FiniteAssumption, FS_Subset DEF IsAmended
<1>5. n \notin R /\ R \subseteq DOMAIN node
      /\ \A m \in DOMAIN node' \ DOMAIN node : node'[m].obs = None
  BY <1>1 DEF IsAmended
<1>6. \A m \in DOMAIN node : node[m].deps \subseteq node'[m].deps
  BY <1>1 DEF IsAmended
<1>7. \A m \in DOMAIN node : DependencyClosure(node, m) \subseteq DependencyClosure(node', m)
  BY <1>2, <1>4, <1>6, ClosureMonotone
<1>8. ASSUME NEW m \in DOMAIN node
      PROVE  /\ node'[m].gate = node[m].gate
             /\ node'[m].rev = IF m \in R THEN node[m].rev + 1 ELSE node[m].rev
             /\ m \notin R => Obligation(node', m) = Obligation(node, m)
  BY <1>1, <1>5 DEF IsAmended, Obligation
<1>9. ASSUME NEW m \in DOMAIN node
      PROVE  /\ node'[m].obs = None <=> node[m].obs = None
             /\ node[m].obs # None =>
                  /\ node'[m].obs.seq = node[m].obs.seq
                  /\ node'[m].obs.rev = node[m].obs.rev
                  /\ node'[m].obs.reviewed = IF m = n /\ node[m].obs.reviewed = None
                                             THEN L ELSE node[m].obs.reviewed
  <2>1. CASE m = n
    <3>1. node'[m].obs = ReviewPinned(node, m)
      BY <1>1, <2>1 DEF IsAmended
    <3> HIDE DEF n
    <3> QED
      BY <1>2, <2>1, <3>1, PinnedTyped, PinnedReviewed
  <2>2. CASE m # n
    <3>1. node'[m].obs = node[m].obs
      BY <1>1, <2>2 DEF IsAmended
    <3> HIDE DEF L, n
    <3> QED
      BY <2>2, <3>1
  <2> QED
    BY <2>1, <2>2
<1>10. node[n].obs # None =>
         /\ L # None
         /\ DOMAIN L \subseteq DependencyClosure(node, n) /\ DOMAIN L \subseteq DOMAIN node
         /\ \A m \in DOMAIN L : L[m] = node[m].rev
  BY <1>1, <1>2, PinnedReviewed
<1> HIDE DEF n, c, R, L
<1>11. n \in DOMAIN node /\ R \in SUBSET DOMAIN node
  BY <1>1, <1>5
<1> QED
  BY <1>1, <1>4, <1>5, <1>7, <1>8, <1>9, <1>10, <1>11 DEF n, c, R, L, AmendedBy

LEMMA AmendOrdered ==
  ASSUME Inv, Ordered, NEW s \in Sessions, AmendWrite(s)
  PROVE  Ordered'
<1>1. PICK n \in DOMAIN node, R \in SUBSET DOMAIN node : AmendedBy(s, n, R)
  BY AmendByNode
<1>2. /\ DOMAIN node \subseteq DOMAIN node' /\ seq' = seq + 1 /\ judged' = judged
      /\ \A m \in DOMAIN node' \ DOMAIN node : node'[m].obs = None
  BY <1>1 DEF AmendedBy
<1>3. \A m \in DOMAIN node :
        /\ node'[m].gate = node[m].gate
        /\ node'[m].rev = IF m \in R THEN node[m].rev + 1 ELSE node[m].rev
        /\ node'[m].obs = None <=> node[m].obs = None
        /\ node[m].obs # None => node'[m].obs.seq = node[m].obs.seq
                                 /\ node'[m].obs.rev = node[m].obs.rev
        /\ DependencyClosure(node, m) \subseteq DependencyClosure(node', m)
  BY <1>1 DEF AmendedBy
<1>4. ASSUME NEW m \in DOMAIN node, node[m].obs # None, node[m].obs.reviewed # None
      PROVE  node'[m].obs.reviewed = node[m].obs.reviewed
  BY <1>1, <1>4 DEF AmendedBy
<1>5. ASSUME NEW m \in DOMAIN node, node[m].obs # None, node[m].obs.reviewed = None,
             node'[m].obs.reviewed # None
      PROVE  /\ DOMAIN node'[m].obs.reviewed \subseteq DOMAIN node
             /\ \A k \in DOMAIN node'[m].obs.reviewed : node'[m].obs.reviewed[k] = node[k].rev
  BY <1>1, <1>5 DEF AmendedBy
<1>6. \A m \in DOMAIN node : node[m].rev \in Nat
  BY GraphNumbers
<1>7. ObservationsOrdered'
  <2> SUFFICES ASSUME NEW r \in DOMAIN node', node'[r].obs # None
               PROVE  /\ node'[r].obs.seq <= seq + 1
                      /\ \A m \in DOMAIN node' : m # r /\ node'[m].obs # None =>
                           /\ node'[m].obs.seq # node'[r].obs.seq
                           /\ node'[r].gate = "review" /\ node'[r].obs.reviewed = None
                              /\ node'[m].obs.seq < node'[r].obs.seq => node'[m].obs.rev = 1
    BY <1>2 DEF ObservationsOrdered
  <2>1. r \in DOMAIN node /\ node[r].obs # None
    BY <1>2, <1>3
  <2>2. node'[r].obs.seq <= seq + 1
    <3>1. node[r].obs.seq <= seq /\ node[r].obs.seq \in Nat /\ seq \in Nat
      BY <2>1, GraphNumbers DEF Ordered, ObservationsOrdered
    <3> QED
      BY <1>3, <2>1, <3>1
  <2>3. ASSUME NEW m \in DOMAIN node', m # r, node'[m].obs # None
        PROVE  /\ node'[m].obs.seq # node'[r].obs.seq
               /\ node'[r].gate = "review" /\ node'[r].obs.reviewed = None
                  /\ node'[m].obs.seq < node'[r].obs.seq => node'[m].obs.rev = 1
    <3>1. m \in DOMAIN node /\ node[m].obs # None
      BY <1>2, <1>3, <2>3
    <3>2. node'[r].obs.reviewed = None => node[r].obs.reviewed = None
      BY <1>4, <2>1
    <3> QED
      BY <1>3, <2>1, <2>3, <3>1, <3>2 DEF Ordered, ObservationsOrdered
  <2> QED
    BY <2>2, <2>3
<1>8. ReviewsLookDown'
  <2>1. ASSUME NEW r \in DOMAIN node', node'[r].obs # None, node'[r].obs.reviewed # None
        PROVE  /\ DOMAIN node'[r].obs.reviewed \subseteq DOMAIN node'
               /\ \A m \in DOMAIN node'[r].obs.reviewed : node'[r].obs.reviewed[m] <= node'[m].rev
    <3>1. r \in DOMAIN node /\ node[r].obs # None
      BY <1>2, <1>3, <2>1
    <3>2. CASE node[r].obs.reviewed = None
      <4>1. /\ DOMAIN node'[r].obs.reviewed \subseteq DOMAIN node
            /\ \A k \in DOMAIN node'[r].obs.reviewed : node'[r].obs.reviewed[k] = node[k].rev
        BY <1>5, <2>1, <3>1, <3>2
      <4>2. \A k \in DOMAIN node : node[k].rev <= node'[k].rev
        BY <1>3, <1>6
      <4> QED
        BY <1>2, <4>1, <4>2
    <3>3. CASE node[r].obs.reviewed # None
      <4>1. node'[r].obs.reviewed = node[r].obs.reviewed
        BY <1>4, <3>1, <3>3
      <4>2. ASSUME NEW m \in DOMAIN node[r].obs.reviewed
            PROVE  m \in DOMAIN node /\ node[r].obs.reviewed[m] <= node'[m].rev
        <5>1. m \in DOMAIN node /\ node[r].obs.reviewed[m] <= node[m].rev
          BY <3>1, <3>3 DEF Ordered, ReviewsLookDown
        <5>2. node[r].obs.reviewed[m] \in Nat /\ node[m].rev \in Nat
          BY <3>1, <3>3, <5>1, GraphNumbers
        <5>3. node'[m].rev \in {node[m].rev, node[m].rev + 1}
          BY <1>3, <5>1
        <5> QED
          BY <5>1, <5>2, <5>3
      <4> QED
        BY <1>2, <4>1, <4>2
    <3> QED
      BY <3>2, <3>3
  <2>2. ASSUME NEW r \in DOMAIN judged'
        PROVE  /\ r \in DOMAIN node' /\ node'[r].gate = "review" /\ node'[r].obs # None
               /\ DOMAIN judged'[r] \subseteq DependencyClosure(node', r) \ {r}
    <3>1. /\ r \in DOMAIN node /\ node[r].gate = "review" /\ node[r].obs # None
          /\ DOMAIN judged[r] \subseteq DependencyClosure(node, r) \ {r}
      BY <1>2 DEF Ordered, ReviewsLookDown
    <3> QED
      BY <1>2, <1>3, <3>1
  <2> QED
    BY <2>1, <2>2 DEF ReviewsLookDown
<1> QED
  BY <1>7, <1>8 DEF Ordered

\* What a review binds after an amendment it has bound before: an amended
\* contract is at a revision nobody has observed, the gate's old review is
\* pinned to what was below it, and another old review has nothing below it
\* that was observed before it and was not below it already.
LEMMA AmendEvidence ==
  ASSUME Inv, Evidence, NEW s \in Sessions, AmendWrite(s)
  PROVE  Evidence'
<1>1. PICK n \in DOMAIN node, R \in SUBSET DOMAIN node : AmendedBy(s, n, R)
  BY AmendByNode
<1>2. /\ DOMAIN node \subseteq DOMAIN node' /\ seq' = seq + 1 /\ judged' = judged
      /\ \A m \in DOMAIN node' \ DOMAIN node : node'[m].obs = None
  BY <1>1 DEF AmendedBy
<1>3. \A m \in DOMAIN node :
        /\ node'[m].gate = node[m].gate
        /\ node'[m].rev = IF m \in R THEN node[m].rev + 1 ELSE node[m].rev
        /\ m \notin R => Obligation(node', m) = Obligation(node, m)
        /\ node'[m].obs = None <=> node[m].obs = None
        /\ node[m].obs # None => node'[m].obs.seq = node[m].obs.seq
                                 /\ node'[m].obs.rev = node[m].obs.rev
        /\ DependencyClosure(node, m) \subseteq DependencyClosure(node', m)
  BY <1>1 DEF AmendedBy
<1>4. ASSUME NEW m \in DOMAIN node, node[m].obs # None
      PROVE  \/ node'[m].obs.reviewed = node[m].obs.reviewed
             \/ /\ node[m].obs.reviewed = None /\ node'[m].obs.reviewed # None
                /\ DOMAIN node'[m].obs.reviewed \subseteq DependencyClosure(node, m)
  BY <1>1, <1>4 DEF AmendedBy
<1>5. Ordered'
  BY AmendOrdered DEF Evidence
<1>6. \A m \in DOMAIN node' : node'[m].obs # None => m \in DOMAIN node /\ node[m].obs # None
  BY <1>2, <1>3
<1>7. BoundIsVouched'
  <2> SUFFICES ASSUME NEW r \in DOMAIN node', NEW m \in DOMAIN node',
                      node'[r].gate = "review", node'[m].gate = "tests",
                      node'[r].obs # None, node'[m].obs # None,
                      node'[m].obs.seq < node'[r].obs.seq, node'[m].obs.rev = node'[m].rev,
                      Binds(r, m)'
               PROVE  Vouched(r, m)'
    BY DEF BoundIsVouched
  <2>1. /\ r \in DOMAIN node /\ m \in DOMAIN node /\ node[r].obs # None /\ node[m].obs # None
        /\ node[r].gate = "review" /\ node[m].gate = "tests"
        /\ node[m].obs.seq < node[r].obs.seq
    BY <1>3, <1>6
  <2>2. m \notin R
    <3>1. /\ node[m].rev \in Nat /\ node[m].obs.rev \in Nat /\ node[m].obs.rev <= node[m].rev
      BY <2>1, GraphNumbers
    <3>2. node[m].obs.rev = node'[m].rev
      BY <1>3, <2>1
    <3>3. node'[m].rev = IF m \in R THEN node[m].rev + 1 ELSE node[m].rev
      BY <1>3, <2>1
    <3> QED
      BY <3>1, <3>2, <3>3
  <2>3. node'[m].rev = node[m].rev /\ node[m].obs.rev = node[m].rev
        /\ Obligation(node', m) = Obligation(node, m)
    BY <1>3, <2>1, <2>2
  <2>4. Binds(r, m)
    <3>1. CASE node[r].obs.reviewed = None
      <4>1. m \in DependencyClosure(node, r)
        BY <2>1, <3>1 DEF Evidence, LegacyReviewsCover
      <4>2. node[m].obs.rev = 1
        <5>1. m # r
          BY <2>1
        <5> QED
          BY <2>1, <3>1, <5>1 DEF Evidence, Ordered, ObservationsOrdered
      <4> QED
        BY <2>3, <3>1, <4>1, <4>2 DEF Binds
    <3>2. CASE node[r].obs.reviewed # None
      <4>1. node'[r].obs.reviewed = node[r].obs.reviewed
        BY <1>4, <2>1, <3>2
      <4> QED
        BY <2>3, <3>2, <4>1 DEF Binds
    <3> QED
      BY <3>1, <3>2
  <2>5. Vouched(r, m)
    BY <2>1, <2>3, <2>4 DEF Evidence, BoundIsVouched
  <2>6. PICK q \in DOMAIN judged \cap ({r} \cup DependencyClosure(node, r)) :
          /\ m \in DOMAIN judged[q] /\ judged[q][m] = Obligation(node, m)
          /\ node[q].obs.seq > node[m].obs.seq
    BY <2>5 DEF Vouched
  <2>7. q \in DOMAIN node /\ node[q].obs # None
    BY DEF Evidence, Ordered, ReviewsLookDown
  <2>8. node'[q].obs.seq = node[q].obs.seq /\ node'[m].obs.seq = node[m].obs.seq
    BY <1>3, <2>1, <2>7
  <2> QED
    BY <1>2, <1>3, <2>1, <2>3, <2>6, <2>8 DEF Vouched
<1>8. LegacyReviewsCover'
  <2> SUFFICES ASSUME NEW r \in DOMAIN node', NEW m \in DOMAIN node',
                      node'[r].gate = "review", node'[m].gate = "tests",
                      node'[r].obs # None, node'[m].obs # None,
                      node'[r].obs.reviewed = None, node'[m].obs.seq < node'[r].obs.seq
               PROVE  m \in DependencyClosure(node', r)
    BY DEF LegacyReviewsCover
  <2>1. r \in DOMAIN node /\ m \in DOMAIN node /\ node[r].obs # None /\ node[m].obs # None
    BY <1>6
  <2>2. node[r].obs.reviewed = None
    BY <1>4, <2>1
  <2> QED
    BY <1>3, <2>1, <2>2 DEF Evidence, LegacyReviewsCover
<1> QED
  BY <1>5, <1>7, <1>8 DEF Evidence

\* What is below a node that an earlier binary observed, it observed earlier.
LEMMA EarlierBelow ==
  ASSUME NEW g, IsFiniteSet(DOMAIN g), NEW e \in Earlier, DOMAIN g = DOMAIN Plan,
         \A n \in DOMAIN Plan : g[n].deps = Plan[n].deps,
         NEW r \in DOMAIN e.at
  PROVE  \A m \in DependencyClosure(g, r) : m \in DOMAIN e.at /\ e.at[m] < e.at[r]
<1> DEFINE S == {m \in DOMAIN g : m \in DOMAIN e.at /\ e.at[m] < e.at[r]}
<1>1. /\ DOMAIN e.at \subseteq DOMAIN g
      /\ \A n \in DOMAIN e.at : e.at[n] \in Nat
      /\ \A n \in DOMAIN e.at : \A d \in g[n].deps : d \in DOMAIN e.at /\ e.at[d] < e.at[n]
  <2>1. /\ DOMAIN e.at \subseteq DOMAIN Plan /\ e.at \in [DOMAIN e.at -> 1 .. e.seq]
        /\ \A n \in DOMAIN e.at : \A d \in Plan[n].deps : d \in DOMAIN e.at /\ e.at[d] < e.at[n]
    BY EarlierAssumption
  <2> QED
    BY <2>1
<1>2. PresentDeps(g, r) \subseteq S
  BY <1>1 DEF PresentDeps
<1>3. ASSUME NEW m \in S PROVE PresentDeps(g, m) \subseteq S
  <2>1. \A d \in PresentDeps(g, m) : d \in DOMAIN g /\ d \in DOMAIN e.at /\ e.at[d] < e.at[m]
    BY <1>1, <1>3 DEF PresentDeps
  <2> QED
    BY <1>1, <1>3, <2>1
<1>4. S \in SUBSET DOMAIN g
  OBVIOUS
<1>5. DependencyClosure(g, r) \subseteq S
  <2> HIDE DEF S
  <2> QED
    BY <1>2, <1>3, <1>4, ClosureLaws
<1> QED
  BY <1>5

\* The graph before any step: what is observed was observed by an earlier
\* binary, in the order of its numbers, at the first revision.
InitialGraph(e) ==
  /\ DOMAIN node = DOMAIN Plan /\ IsFiniteSet(DOMAIN node)
  /\ DOMAIN e.at \subseteq DOMAIN Plan
  /\ \A n \in DOMAIN Plan :
       /\ node[n].deps = Plan[n].deps /\ node[n].gate = Plan[n].gate /\ node[n].rev = 1
       /\ node[n].obs # None <=> n \in DOMAIN e.at
       /\ n \in DOMAIN e.at => /\ node[n].obs.seq = e.at[n] /\ node[n].obs.rev = 1
                               /\ node[n].obs.reviewed = None
                               /\ e.at[n] \in Nat /\ e.at[n] <= e.seq
  /\ \A m, n \in DOMAIN e.at : m # n => e.at[m] # e.at[n]
  /\ seq = e.seq /\ e.seq \in Nat
  /\ judged = [n \in {k \in DOMAIN e.at : node[k].gate = "review"} |->
                 [m \in ReviewScope(node, n, DOMAIN e.at) |-> Obligation(node, m)]]
  /\ \A r \in DOMAIN e.at : \A m \in DependencyClosure(node, r) :
       m \in DOMAIN e.at /\ e.at[m] < e.at[r]

LEMMA InitByNode == Init => \E e \in Earlier : InitialGraph(e)
<1> SUFFICES ASSUME Init PROVE \E e \in Earlier : InitialGraph(e)
  OBVIOUS
<1>1. PICK e \in Earlier :
        /\ node = InitGraph(e.at) /\ seq = e.seq
        /\ judged = [n \in {n \in DOMAIN e.at : Plan[n].gate = "review"} |->
                       [m \in ReviewScope(node, n, DOMAIN e.at) |-> Obligation(node, m)]]
  BY DEF Init
<1>2. DOMAIN node = DOMAIN Plan
  BY <1>1 DEF InitGraph
<1>3. IsFiniteSet(DOMAIN node)
  BY InitSafe, GraphNumbers
<1>4. /\ DOMAIN e.at \subseteq DOMAIN Plan /\ e.seq \in Nat
      /\ \A n \in DOMAIN e.at : e.at[n] \in Nat /\ e.at[n] <= e.seq
      /\ \A m, n \in DOMAIN e.at : m # n => e.at[m] # e.at[n]
  BY EarlierAssumption, ReviewAssumption
<1>5. ASSUME NEW n \in DOMAIN Plan
      PROVE  /\ node[n].deps = Plan[n].deps /\ node[n].gate = Plan[n].gate /\ node[n].rev = 1
             /\ node[n].obs # None <=> n \in DOMAIN e.at
             /\ n \in DOMAIN e.at => /\ node[n].obs.seq = e.at[n] /\ node[n].obs.rev = 1
                                     /\ node[n].obs.reviewed = None
  <2>1. CASE n \notin DOMAIN e.at
    <3>1. node[n] = Compiled(Plan[n])
      BY <1>1, <2>1 DEF InitGraph
    <3> QED
      BY <2>1, <3>1 DEF Compiled
  <2>2. CASE n \in DOMAIN e.at
    <3> DEFINE obs == [result |-> "pass", seq |-> e.at[n], rev |-> 1,
                       clean |-> TRUE, reviewed |-> None, report |-> None]
    <3>1. node[n] = [Compiled(Plan[n]) EXCEPT !.red = {t.id : t \in Hazards(n)}, !.obs = obs]
      BY <1>1, <2>2 DEF InitGraph
    <3>2. obs.seq = e.at[n] /\ obs.rev = 1 /\ obs.reviewed = None
      OBVIOUS
    <3>3. node[n] \in NodeRecord
      BY <1>2, InitSafe DEF Inv, Safe, SafeGraph, NodeSafe
    <3>4. node[n].obs # None
      <4>1. obs \in Observation
        <5>1. e.at[n] \in 1 .. MaxSeq
          BY <2>2, EarlierAssumption, ReviewAssumption
        <5> QED
          BY <5>1, ReviewAssumption DEF Observation
      <4>2. node[n].obs = obs
        <5> HIDE DEF obs
        <5> QED
          BY <3>1 DEF Compiled
      <4> QED
        BY <4>1, <4>2, NoneAssumption
    <3> HIDE DEF obs
    <3>5. /\ node[n].obs = obs /\ node[n].deps = Plan[n].deps /\ node[n].gate = Plan[n].gate
          /\ node[n].rev = 1
      BY <3>1 DEF Compiled
    <3> QED
      BY <2>2, <3>2, <3>4, <3>5
  <2> QED
    BY <2>1, <2>2
<1>6. {n \in DOMAIN e.at : Plan[n].gate = "review"} = {k \in DOMAIN e.at : node[k].gate = "review"}
  BY <1>4, <1>5
<1>7. \A r \in DOMAIN e.at : \A m \in DependencyClosure(node, r) :
        m \in DOMAIN e.at /\ e.at[m] < e.at[r]
  BY <1>2, <1>3, <1>5, EarlierBelow
<1> QED
  BY <1>1, <1>2, <1>3, <1>4, <1>5, <1>6, <1>7 DEF InitialGraph

LEMMA InitOrdered == Init => Ordered
<1> SUFFICES ASSUME Init PROVE Ordered
  OBVIOUS
<1>1. PICK e \in Earlier : InitialGraph(e)
  BY InitByNode
<1>2. ObservationsOrdered
  BY <1>1 DEF InitialGraph, ObservationsOrdered
<1>3. ASSUME NEW n \in DOMAIN judged
      PROVE  /\ n \in DOMAIN node /\ node[n].gate = "review" /\ node[n].obs # None
             /\ DOMAIN judged[n] \subseteq DependencyClosure(node, n) \ {n}
  <2>1. n \in DOMAIN e.at /\ node[n].gate = "review"
        /\ DOMAIN judged[n] = ReviewScope(node, n, DOMAIN e.at)
    BY <1>1 DEF InitialGraph
  <2>2. n \in DOMAIN node /\ node[n].obs # None
    BY <1>1, <2>1 DEF InitialGraph
  <2> QED
    BY <2>1, <2>2 DEF ReviewScope
<1>4. \A n \in DOMAIN node : node[n].obs # None => node[n].obs.reviewed = None
  BY <1>1 DEF InitialGraph
<1> QED
  BY <1>2, <1>3, <1>4 DEF Ordered, ReviewsLookDown

\* Of the reviews that an earlier binary recorded, each answers for the work
\* below it, or one below it does that the later one left out.
LEMMA InitEvidence ==
  ASSUME LegacyIsWhole, Init
  PROVE  Evidence
<1>1. PICK e \in Earlier : InitialGraph(e)
  BY InitByNode
<1>2. Inv /\ Ordered
  BY InitSafe, InitOrdered
<1>3. IsFiniteSet(DOMAIN node) /\ e.seq \in Nat /\ DOMAIN e.at \subseteq DOMAIN node
  BY <1>1 DEF InitialGraph
<1> DEFINE Work(m) == m \in DOMAIN e.at /\ node[m].gate = "tests"
           Done(r) == r \in DOMAIN e.at /\ node[r].gate = "review" =>
                        \A m \in DependencyClosure(node, r) : Work(m) => Vouched(r, m)
           S == {i \in Nat : \A r \in DOMAIN e.at : e.at[r] <= i => Done(r)}
<1>4. ASSUME NEW r \in DOMAIN e.at, \A q \in DOMAIN e.at : e.at[q] < e.at[r] => Done(q)
      PROVE  Done(r)
  <2> SUFFICES ASSUME node[r].gate = "review", NEW m \in DependencyClosure(node, r), Work(m)
               PROVE  Vouched(r, m)
    OBVIOUS
  <2>1. m # r
    OBVIOUS
  <2>2. CASE m \in ReviewScope(node, r, DOMAIN e.at)
    <3>1. /\ r \in DOMAIN judged /\ m \in DOMAIN judged[r]
          /\ judged[r][m] = Obligation(node, m)
      BY <1>1, <2>2 DEF InitialGraph
    <3>2. node[r].obs.seq > node[m].obs.seq
      <4>1. /\ node[r].obs.seq = e.at[r] /\ node[m].obs.seq = e.at[m]
            /\ e.at[m] < e.at[r] /\ e.at[m] \in Nat /\ e.at[r] \in Nat
        BY <1>1, <1>3 DEF InitialGraph
      <4> QED
        BY <4>1
    <3> QED
      BY <3>1, <3>2 DEF Vouched
  <2>3. CASE m \notin ReviewScope(node, r, DOMAIN e.at)
    <3>1. PICK q \in DependencyClosure(node, r) \ {r} :
            /\ node[q].gate = "review" /\ q \in DOMAIN e.at
            /\ m = q \/ m \in DependencyClosure(node, q)
      BY <2>1, <2>3, ScopeOrCovered
    <3>2. e.at[q] < e.at[r] /\ m \in DependencyClosure(node, q)
      BY <1>1, <3>1 DEF InitialGraph
    <3>3. Vouched(q, m)
      BY <1>4, <3>1, <3>2
    <3> QED
      BY <1>2, <3>1, <3>3, VouchedAbove
  <2> QED
    BY <2>2, <2>3
<1>5. \A r \in DOMAIN e.at : e.at[r] \in Nat /\ e.at[r] <= e.seq
  BY <1>1, <1>3 DEF InitialGraph
<1>6. 0 .. e.seq \subseteq S
  <2>1. 0 \in S
    <3>1. \A r \in DOMAIN e.at : e.at[r] <= 0 => \A q \in DOMAIN e.at : ~(e.at[q] < e.at[r])
      BY <1>5
    <3> HIDE DEF Done
    <3> QED
      BY <1>4, <3>1
  <2>2. ASSUME NEW i \in 0 .. e.seq, i \in S, i < e.seq
        PROVE  i + 1 \in S
    <3>1. \A r, q \in DOMAIN e.at : e.at[r] <= i + 1 /\ e.at[q] < e.at[r] => e.at[q] <= i
      BY <1>5
    <3>2. i \in Nat /\ i + 1 \in Nat /\ \A q \in DOMAIN e.at : e.at[q] <= i => Done(q)
      BY <2>2
    <3> HIDE DEF Done
    <3>3. \A r \in DOMAIN e.at : e.at[r] <= i + 1 => Done(r)
      BY <1>4, <3>1, <3>2
    <3> QED
      BY <3>2, <3>3
  <2> HIDE DEF S
  <2> QED
    BY <1>3, <2>1, <2>2, UpTo
<1>7. \A r \in DOMAIN e.at : Done(r)
  <2> HIDE DEF Done
  <2>1. e.seq \in 0 .. e.seq
    BY <1>3
  <2> QED
    BY <1>5, <1>6, <2>1
<1>8. \A n \in DOMAIN node : node[n].obs # None =>
        n \in DOMAIN e.at /\ node[n].obs.seq = e.at[n] /\ node[n].obs.reviewed = None
  BY <1>1 DEF InitialGraph
<1>9. BoundIsVouched
  BY <1>7, <1>8 DEF BoundIsVouched, Binds
<1>10. LegacyReviewsCover
  <2>1. \A n \in DOMAIN Plan : node[n].deps = Plan[n].deps /\ node[n].gate = Plan[n].gate
    BY <1>1 DEF InitialGraph
  <2>2. DOMAIN node = DOMAIN Plan
    BY <1>1 DEF InitialGraph
  <2>3. \A n \in DOMAIN Plan : DependencyClosure(node, n) = DependencyClosure(Plan, n)
    BY <1>3, <2>1, <2>2, SameClosures
  <2> QED
    BY <1>8, <2>1, <2>2, <2>3 DEF LegacyReviewsCover, LegacyIsWhole
<1> QED
  BY <1>2, <1>9, <1>10 DEF Evidence

\* The steps that write nodes, numbers or reviews; the others leave them alone.
LEMMA StepWrites ==
  ASSUME [Next]_vars
  PROVE  \/ \E s \in Sessions : RecordPublish(s) \/ AmendWrite(s)
         \/ \E s \in Sessions, n \in DOMAIN node, fails \in SUBSET TestIds : Sync(s, n, fails)
         \/ \E s \in Sessions, n \in DOMAIN node, new \in Gates : SetTests(s, n, new)
         \/ UNCHANGED <<node, seq, judged>>
<1>1. ASSUME NEW s \in Sessions, Step(s)
      PROVE  RecordPublish(s) \/ AmendWrite(s) \/ UNCHANGED <<node, seq, judged>>
  BY <1>1 DEF Step, ReviewStep, AmendStep, RecordRefused, PreviewDigest, AmendEvaluate, AmendRecheck, AmendEnds,
              graph, history
<1>2. ASSUME NEW s \in Sessions, NEW n \in DOMAIN node, Begin(s, n)
      PROVE  \/ \E fails \in SUBSET TestIds : Sync(s, n, fails)
             \/ \E new \in Gates : SetTests(s, n, new)
             \/ UNCHANGED <<node, seq, judged>>
  BY <1>2 DEF Begin, ReviewCommand, RecordLoad, PreviewLoad, AmendDryRun, Claim, Release, graph, history
<1>3. ASSUME NEW a \in Artifacts, NEW c \in Rewrites, Resolve(a, c)
      PROVE  UNCHANGED <<node, seq, judged>>
  BY <1>3 DEF Resolve, graph, history
<1> QED
  BY <1>1, <1>2, <1>3 DEF Next, vars

LEMMA StepOrdered == Inv /\ Ordered /\ [Next]_vars => Ordered'
<1> SUFFICES ASSUME Inv, Ordered, [Next]_vars PROVE Ordered'
  OBVIOUS
<1>1. CASE UNCHANGED <<node, seq, judged>>
  BY <1>1 DEF Ordered, ObservationsOrdered, ReviewsLookDown
<1> QED
  BY <1>1, StepWrites, PublishOrdered, AmendOrdered, SyncOrdered, SetTestsOrdered

LEMMA StepEvidence == Inv /\ Evidence /\ [Next]_vars => Evidence'
<1> SUFFICES ASSUME Inv, Evidence, [Next]_vars PROVE Evidence'
  OBVIOUS
<1>1. CASE UNCHANGED <<node, seq, judged>>
  <2>1. \A r, m : Vouched(r, m)' <=> Vouched(r, m)
    BY <1>1 DEF Vouched, Obligation
  <2> QED
    BY <1>1, <2>1 DEF Evidence, Ordered, ObservationsOrdered, ReviewsLookDown, BoundIsVouched,
                      LegacyReviewsCover, Binds
<1> QED
  BY <1>1, StepWrites, PublishEvidence, AmendEvidence, SyncEvidence, SetTestsEvidence

LEMMA AlwaysOrdered == Spec => [](Inv /\ Ordered)
<1>1. Init => Inv /\ Ordered
  BY InitSafe, InitOrdered
<1>2. Inv /\ Ordered /\ [Next]_vars => Inv' /\ Ordered'
  BY StepInv, StepOrdered
<1> QED
  BY <1>1, <1>2, PTL DEF Spec

-----------------------------------------------------------------------------
(***************************************************************************)
(* What changes under a review.                                            *)
(***************************************************************************)
\* A node below a review that is at a later revision than anything has observed
\* or reviewed leaves no review above it GREEN.
LEMMA AdvancedNotGreen ==
  ASSUME NEW g, IsFiniteSet(DOMAIN g), NEW n \in DOMAIN g, NEW k \in Nat, k >= 1,
         g[n].rev = k + 1, g[n].obs # None => g[n].obs.rev \in Nat /\ g[n].obs.rev <= k,
         \A q \in DOMAIN g :
           g[q].obs # None /\ g[q].obs.reviewed # None /\ n \in DOMAIN g[q].obs.reviewed
           => g[q].obs.reviewed[n] \in Nat /\ g[q].obs.reviewed[n] <= k,
         NEW r \in DOMAIN g, g[r].gate = "review", n \in DependencyClosure(g, r) \ {r}
  PROVE  Derive(g)[r].state # "GREEN"
<1>1. Derive(g)[n].state # "GREEN"
  BY GreenMeans
<1>2. DependencyClosure(g, r) \subseteq DOMAIN g
  BY ClosureLaws
<1>3. ASSUME NEW q \in {r} \cup DependencyClosure(g, r), g[q].obs # None
      PROVE  Outdated(g, q, n)
  <2>1. q \in DOMAIN g
    BY <1>2
  <2>2. CASE g[q].obs.reviewed = None
    BY <2>2 DEF Outdated
  <2>3. CASE g[q].obs.reviewed # None
    BY <1>3, <2>1, <2>3 DEF Outdated
  <2> QED
    BY <2>2, <2>3
<1> QED
  BY <1>1, <1>3, OutdatedNotGreen

\* An amended node is such a node, whichever reviews are above it.
LEMMA RevisedNotGreen ==
  ASSUME Inv, Ordered, NEW s \in Sessions, NEW n \in DOMAIN node, NEW R \in SUBSET DOMAIN node,
         AmendedBy(s, n, R), NEW m \in R,
         NEW r \in DOMAIN node', node'[r].gate = "review",
         m \in DependencyClosure(node', r) \ {r}
  PROVE  Derive(node')[r].state # "GREEN"
<1>1. /\ IsFiniteSet(DOMAIN node') /\ m \in DOMAIN node'
      /\ node'[m].rev = node[m].rev + 1
      /\ node[m].obs = None => node'[m].obs = None
      /\ node[m].obs # None => node'[m].obs.rev = node[m].obs.rev
  BY DEF AmendedBy
<1>2. /\ node[m].rev \in Nat /\ node[m].rev >= 1
      /\ node[m].obs # None => node[m].obs.rev \in Nat /\ node[m].obs.rev <= node[m].rev
  BY GraphNumbers
<1>3. ASSUME NEW q \in DOMAIN node', node'[q].obs # None, node'[q].obs.reviewed # None,
             m \in DOMAIN node'[q].obs.reviewed
      PROVE  node'[q].obs.reviewed[m] \in Nat /\ node'[q].obs.reviewed[m] <= node[m].rev
  <2>1. q \in DOMAIN node /\ node[q].obs # None
    BY <1>3 DEF AmendedBy
  <2>2. CASE q = n /\ node[q].obs.reviewed = None
    <3>1. node'[q].obs.reviewed[m] = node[m].rev
      BY <1>3, <2>1, <2>2 DEF AmendedBy
    <3> QED
      BY <1>2, <3>1
  <2>3. CASE ~(q = n /\ node[q].obs.reviewed = None)
    <3>1. node'[q].obs.reviewed = node[q].obs.reviewed
      BY <2>1, <2>3 DEF AmendedBy
    <3> QED
      BY <1>3, <2>1, <3>1, GraphNumbers DEF Ordered, ReviewsLookDown
  <2> QED
    BY <2>2, <2>3
<1> QED
  BY <1>1, <1>2, <1>3, AdvancedNotGreen

\* So is an observed node whose gate is edited.
LEMMA EditedNotGreen ==
  ASSUME Inv, Ordered, NEW s \in Sessions, NEW n \in DOMAIN node, NEW new \in Gates,
         SetTests(s, n, new), node[n].obs # None,
         NEW r \in DOMAIN node, node[r].gate = "review", n \in DependencyClosure(node, r) \ {r}
  PROVE  Derive(node')[r].state # "GREEN"
<1>1. /\ node[n].gate = "tests" /\ DOMAIN node' = DOMAIN node
      /\ \A m \in DOMAIN node \ {n} : node'[m] = node[m]
      /\ node'[n].deps = node[n].deps /\ node'[n].gate = node[n].gate
      /\ node'[n].obs = node[n].obs /\ node'[n].rev = node[n].rev + 1
  BY SetTestsWrites
<1>2. /\ IsFiniteSet(DOMAIN node) /\ node[n].rev \in Nat /\ node[n].rev >= 1
      /\ node[n].obs.rev \in Nat /\ node[n].obs.rev <= node[n].rev
  BY GraphNumbers
<1>3. \A m \in DOMAIN node : /\ node'[m].deps = node[m].deps /\ node'[m].gate = node[m].gate
                             /\ node'[m].obs = node[m].obs
  BY <1>1
<1>4. n \in DependencyClosure(node', r) \ {r}
  BY <1>1, <1>2, <1>3, SameClosures
<1>5. \A q \in DOMAIN node' :
        node'[q].obs # None /\ node'[q].obs.reviewed # None /\ n \in DOMAIN node'[q].obs.reviewed
        => node'[q].obs.reviewed[n] \in Nat /\ node'[q].obs.reviewed[n] <= node[n].rev
  BY <1>1, <1>3, GraphNumbers DEF Ordered, ReviewsLookDown
<1> QED
  BY <1>1, <1>2, <1>3, <1>4, <1>5, AdvancedNotGreen

\* "a later contract change stales the review" (Record): for every plan, from
\* whatever an earlier binary observed, and however deep reviews are nested.
THEOREM ContractChangesStale == Spec => ContractChangeStales
<1>1. ASSUME Inv, Ordered, [Next]_vars, NEW n \in DOMAIN node, NEW r \in DOMAIN node,
             node[n].obs # None, Obligation(node', n) # Obligation(node, n),
             node[r].gate = "review", n \in DependencyClosure(node, r) \ {r}
      PROVE  Derive(node')[r].state # "GREEN"
  <2>1. CASE \E s \in Sessions : RecordPublish(s)
    <3>1. PICK s \in Sessions : RecordPublish(s)
      BY <2>1
    <3>2. Obligation(node', n) = Obligation(node, n)
      BY <1>1, <3>1, PublishWrites DEF SameDuty, Obligation
    <3> QED
      BY <1>1, <3>2
  <2>2. CASE \E s \in Sessions : AmendWrite(s)
    <3>1. PICK s \in Sessions : AmendWrite(s)
      BY <2>2
    <3>2. PICK g \in DOMAIN node, R \in SUBSET DOMAIN node : AmendedBy(s, g, R)
      BY <1>1, <3>1, AmendByNode
    <3>3. n \in R
      BY <1>1, <3>2 DEF AmendedBy
    <3>4. r \in DOMAIN node' /\ node'[r].gate = "review" /\ n \in DependencyClosure(node', r) \ {r}
      BY <1>1, <3>2 DEF AmendedBy
    <3> QED
      BY <1>1, <3>2, <3>3, <3>4, RevisedNotGreen
  <2>3. CASE \E s \in Sessions, m \in DOMAIN node, fails \in SUBSET TestIds : Sync(s, m, fails)
    <3>1. PICK s \in Sessions, m \in DOMAIN node, fails \in SUBSET TestIds : Sync(s, m, fails)
      BY <2>3
    <3>2. Obligation(node', n) = Obligation(node, n)
      BY <1>1, <3>1, SyncWrites DEF SameDuty, Obligation
    <3> QED
      BY <1>1, <3>2
  <2>4. CASE \E s \in Sessions, m \in DOMAIN node, new \in Gates : SetTests(s, m, new)
    <3>1. PICK s \in Sessions, m \in DOMAIN node, new \in Gates : SetTests(s, m, new)
      BY <2>4
    <3>2. m = n
      BY <1>1, <3>1, SetTestsWrites DEF Obligation
    <3> QED
      BY <1>1, <3>1, <3>2, EditedNotGreen
  <2>5. CASE UNCHANGED <<node, seq, judged>>
    BY <1>1, <2>5
  <2> QED
    BY <1>1, <2>1, <2>2, <2>3, <2>4, <2>5, StepWrites
<1>2. Inv /\ Ordered /\ [Next]_vars =>
        [\A n \in DOMAIN node : \A r \in DOMAIN node :
           /\ node[n].obs # None /\ Obligation(node', n) # Obligation(node, n)
           /\ node[r].gate = "review" /\ n \in DependencyClosure(node, r) \ {r}
           => Derive(node')[r].state # "GREEN"]_node
  BY <1>1
<1> QED
  BY <1>2, AlwaysOrdered, PTL DEF Spec, ContractChangeStales

\* What closes a node is a review of it as it is, whatever was amended, observed
\* and reviewed in whatever order, unless an earlier binary's review left aside
\* work that was done before it.
THEOREM ClosedIsReviewed == ASSUME LegacyIsWhole PROVE Spec => []ClosedAsReviewed
<1>1. Init => Inv /\ Evidence
  BY InitSafe, InitEvidence
<1>2. Inv /\ Evidence /\ [Next]_vars => Inv' /\ Evidence'
  BY StepInv, StepEvidence
<1>3. Inv /\ Evidence => ClosedAsReviewed
  BY EvidenceCloses
<1> QED
  BY <1>1, <1>2, <1>3, PTL DEF Spec

-----------------------------------------------------------------------------
(***************************************************************************)
(* Amendments.                                                             *)
(***************************************************************************)
\* A session that is about to write was so, or has just evaluated its amendment.
LEMMA AmendmentContinues ==
  ASSUME Inv, [Next]_vars, NEW s \in Sessions, pc'[s] \in {"recheck", "write"}
  PROVE  job'[s] = job[s] /\ (pc[s] \in {"recheck", "write"} \/ AmendEvaluate(s))
<1>1. pc \in [Sessions -> {"idle", "record"} \cup Amending] /\ DOMAIN job = Sessions
  BY DEF Inv, SessionsTyped
<1>2. ASSUME NEW t \in Sessions, Finish(t)
      PROVE  s # t /\ pc'[s] = pc[s] /\ job'[s] = job[s]
  BY <1>1, <1>2 DEF Finish, Goto
<1>3. ASSUME NEW t \in Sessions, NEW l, Goto(t, l), l \notin {"recheck", "write"},
             NEW j, job' = [job EXCEPT ![t] = j]
      PROVE  s # t /\ pc'[s] = pc[s] /\ job'[s] = job[s]
  BY <1>1, <1>3 DEF Goto
<1>4. ASSUME NEW t \in Sessions, Step(t)
      PROVE  job'[s] = job[s] /\ (pc[s] \in {"recheck", "write"} \/ AmendEvaluate(s))
  <2>1. CASE RecordPublish(t) \/ RecordRefused(t) \/ AmendWrite(t) \/ AmendEnds(t)
    BY <1>2, <2>1 DEF RecordPublish, RecordRefused, AmendWrite, AmendEnds
  <2>2. CASE PreviewDigest(t)
    BY <1>3, <2>2 DEF PreviewDigest
  <2>3. CASE AmendEvaluate(t) \/ AmendRecheck(t)
    BY <1>1, <2>3 DEF AmendEvaluate, AmendRecheck, Goto
  <2> QED
    BY <1>4, <2>1, <2>2, <2>3 DEF Step, ReviewStep, AmendStep
<1>5. ASSUME NEW t \in Sessions, NEW n \in DOMAIN node, Begin(t, n)
      PROVE  pc'[s] = pc[s] /\ job'[s] = job[s]
  <2>1. CASE \E a \in Artifacts : RecordLoad(t, n, a) \/ PreviewLoad(t, n, a) \/ AmendDryRun(t, n, a)
    BY <1>3, <2>1 DEF RecordLoad, PreviewLoad, AmendDryRun
  <2> QED
    BY <1>5, <2>1 DEF Begin, ReviewCommand, Sync, SetTests, Claim, Release
<1>6. ASSUME NEW a \in Artifacts, NEW c \in Rewrites, Resolve(a, c)
      PROVE  pc'[s] = pc[s] /\ job'[s] = job[s]
  BY <1>6 DEF Resolve
<1> QED
  BY <1>4, <1>5, <1>6 DEF Next, vars

LEMMA AlwaysDue == Spec => [](Inv /\ Ordered /\ AmendmentsDue)
<1>1. Init => AmendmentsDue
  BY DEF Init, AmendmentsDue
<1>2. ASSUME Inv, AmendmentsDue, [Next]_vars, NEW s \in Sessions,
             pc'[s] \in {"recheck", "write"}
      PROVE  LET held == job'[s].base[2]
             IN  /\ ~Aligned(job'[s].report)
                 /\ \A m \in DOMAIN job'[s].report.revise : held[m] = None \/ held[m] = Name[s]
  <2>1. job'[s] = job[s] /\ (pc[s] \in {"recheck", "write"} \/ AmendEvaluate(s))
    BY <1>2, AmendmentContinues
  <2>2. CASE pc[s] \in {"recheck", "write"}
    BY <1>2, <2>1, <2>2 DEF AmendmentsDue
  <2>3. CASE AmendEvaluate(s)
    <3>1. job[s].base[2] = claim /\ Amendable(s, job[s].gate, job[s].report)
      BY <2>3 DEF AmendEvaluate, graph
    <3> QED
      BY <2>1, <3>1 DEF Amendable, HeldByOther
  <2> QED
    BY <2>1, <2>2, <2>3
<1>3. Inv /\ AmendmentsDue /\ [Next]_vars => AmendmentsDue'
  BY <1>2 DEF AmendmentsDue
<1>4. Inv /\ Ordered /\ AmendmentsDue /\ [Next]_vars => Inv' /\ Ordered' /\ AmendmentsDue'
  BY <1>3, StepInv, StepOrdered
<1> QED
  BY <1>1, <1>4, InitSafe, InitOrdered, PTL DEF Spec

\* Who changes the record of amendments writes one.
LEMMA WhoAmends ==
  ASSUME Inv, [Next]_vars, amended' # amended, NEW s \in Sessions,
         pc[s] = "write", pc'[s] # "write"
  PROVE  AmendWrite(s)
<1>1. pc \in [Sessions -> {"idle", "record"} \cup Amending]
  BY DEF Inv, SessionsTyped
<1>2. PICK t \in Sessions : AmendWrite(t)
  <2>1. ASSUME NEW t \in Sessions, Step(t) PROVE AmendWrite(t)
    BY <2>1 DEF Step, ReviewStep, AmendStep, RecordPublish, RecordRefused, PreviewDigest, AmendEvaluate, AmendRecheck,
                AmendEnds, graph
  <2>2. ASSUME NEW t \in Sessions, NEW n \in DOMAIN node, Begin(t, n)
        PROVE  amended' = amended
    BY <2>2 DEF Begin, ReviewCommand, RecordLoad, PreviewLoad, AmendDryRun, Sync, SetTests, Claim, Release, graph
  <2>3. ASSUME NEW a \in Artifacts, NEW c \in Rewrites, Resolve(a, c)
        PROVE  amended' = amended
    BY <2>3 DEF Resolve, graph
  <2> QED
    BY <2>1, <2>2, <2>3 DEF Next, vars
<1>3. t = s
  BY <1>1, <1>2 DEF AmendWrite, Finish, Goto
<1> QED
  BY <1>2, <1>3

\* A node that an amendment adds is below its gate, unobserved, and no review
\* has it: of the others none is above it, as the graph has no cycle.
LEMMA ExtendedNotGreen ==
  ASSUME Inv, Ordered, NEW s \in Sessions, AmendWrite(s),
         NEW e \in DOMAIN job[s].report.extend
  PROVE  Derive(node')[job[s].gate].state # "GREEN"
<1> DEFINE n == job[s].gate
           c == job[s].report
<1>1. /\ n \in DOMAIN node /\ node[n].gate = "review"
      /\ IsAmended(node', node, n, c) /\ Compiles(node')
  BY AmendWrites
<1>2. PICK g \in DOMAIN node, R \in SUBSET DOMAIN node : AmendedBy(s, g, R)
  BY AmendByNode
<1>3. g = n
  BY <1>2 DEF AmendedBy
<1> HIDE DEF n, c
<1>4. /\ IsFiniteSet(DOMAIN node') /\ DOMAIN node \subseteq DOMAIN node'
      /\ \A m \in DOMAIN node' \ DOMAIN node : node'[m].obs = None
      /\ node'[n].gate = "review"
  BY <1>1, <1>2, <1>3 DEF AmendedBy
<1>5. e \in DOMAIN node' /\ e \notin DOMAIN node /\ e \in node'[n].deps
  BY <1>1 DEF IsAmended, c
<1>6. Derive(node')[e].state # "GREEN"
  BY <1>4, <1>5, GreenMeans
<1>7. e \in DependencyClosure(node', n) \ {n}
  <2>1. e \in PresentDeps(node', n)
    BY <1>5 DEF PresentDeps
  <2> QED
    BY <1>1, <1>4, <1>5, <2>1, ClosureLaws
<1>8. TopoSort(node') = DOMAIN node'
  BY <1>1 DEF Compiles
<1>9. ASSUME NEW q \in DependencyClosure(node', n), node'[q].obs # None, q # n
      PROVE  e \notin DependencyClosure(node', q)
  <2>1. q \in DOMAIN node' /\ q \in DOMAIN node
    BY <1>4, <1>9, ClosureLaws
  <2>2. n \notin DependencyClosure(node', q)
    <3>1. n \notin DependencyClosure(node', n)
      BY <1>1, <1>4, <1>8, TopoAcyclic
    <3>2. DependencyClosure(node', q) \subseteq DependencyClosure(node', n)
      BY <1>4, ClosureTransitive
    <3> QED
      BY <3>1, <3>2
  <2> DEFINE S == DependencyClosure(node', q) \cap DOMAIN node
  <2>3. \A m \in DOMAIN node \ {n} : PresentDeps(node', m) \subseteq DOMAIN node
    <3>1. \A m \in DOMAIN node \ {n} : node'[m].deps = node[m].deps
      BY <1>1 DEF IsAmended
    <3> QED
      BY <3>1, GraphNumbers DEF PresentDeps
  <2>4. PresentDeps(node', q) \subseteq S
    BY <1>4, <1>9, <2>1, <2>3, ClosureLaws
  <2>5. \A m \in S : PresentDeps(node', m) \subseteq S
    BY <1>4, <2>2, <2>3, ClosureLaws
  <2>6. S \in SUBSET DOMAIN node'
    BY <1>4
  <2>7. DependencyClosure(node', q) \subseteq S
    <3> HIDE DEF S
    <3> QED
      BY <1>4, <2>4, <2>5, <2>6, ClosureLaws
  <2> QED
    BY <1>5, <2>7
<1>10. node'[n].obs # None => Outdated(node', n, e)
  <2> SUFFICES ASSUME node'[n].obs # None PROVE Outdated(node', n, e)
    OBVIOUS
  <2>1. node[n].obs # None
    BY <1>1, <1>2 DEF AmendedBy
  <2>2. /\ node'[n].obs.reviewed # None
        /\ DOMAIN node'[n].obs.reviewed \subseteq DOMAIN node
    <3>1. CASE node[n].obs.reviewed = None
      BY <1>1, <1>2, <1>3, <2>1, <3>1 DEF AmendedBy
    <3>2. CASE node[n].obs.reviewed # None
      BY <1>1, <1>2, <1>3, <2>1, <3>2 DEF AmendedBy, Ordered, ReviewsLookDown
    <3> QED
      BY <3>1, <3>2
  <2> QED
    BY <1>5, <2>2 DEF Outdated
<1>11. \A r \in {n} \cup DependencyClosure(node', n) :
         node'[r].gate = "review" /\ node'[r].obs # None /\ e \in DependencyClosure(node', r) \ {r}
         => Outdated(node', r, e)
  BY <1>9, <1>10
<1> QED
  BY <1>1, <1>4, <1>5, <1>6, <1>7, <1>11, OutdatedNotGreen DEF n

\* An amendment takes GREEN from the review it comes from, whatever it revises
\* or adds, and also when that review is from before reviewed sets.
THEOREM AmendmentsStaleTheirReview == Spec => AmendmentStalesItsReview
<1>1. ASSUME Inv, Ordered, AmendmentsDue, [Next]_vars, NEW s \in Sessions,
             amended' # amended, pc[s] = "write", pc'[s] # "write"
      PROVE  Derive(node')[job[s].gate].state # "GREEN"
  <2> DEFINE n == job[s].gate
             c == job[s].report
  <2>1. AmendWrite(s)
    BY <1>1, WhoAmends
  <2>2. DOMAIN c.revise # {} \/ DOMAIN c.extend # {}
    BY <1>1 DEF AmendmentsDue, Aligned
  <2>3. CASE DOMAIN c.extend # {}
    BY <1>1, <2>1, <2>3, ExtendedNotGreen
  <2>4. CASE DOMAIN c.revise # {}
    <3>1. PICK g \in DOMAIN node, R \in SUBSET DOMAIN node : AmendedBy(s, g, R)
      BY <1>1, <2>1, AmendByNode
    <3>2. g = n /\ R = DOMAIN c.revise
      BY <3>1 DEF AmendedBy
    <3>3. PICK m \in R : m \in DependencyClosure(node, n) \ {n}
      BY <1>1, <2>1, <2>4, <3>2, AmendWrites DEF Plannable
    <3>4. n \in DOMAIN node' /\ node'[n].gate = "review" /\ m \in DependencyClosure(node', n) \ {n}
      BY <3>1, <3>2, <3>3 DEF AmendedBy
    <3> HIDE DEF n, c
    <3> QED
      BY <1>1, <3>1, <3>3, <3>4, RevisedNotGreen DEF n
  <2> QED
    BY <2>2, <2>3, <2>4
<1>2. Inv /\ Ordered /\ AmendmentsDue /\ [Next]_vars =>
        [\A s \in Sessions : amended' # amended /\ pc[s] = "write" /\ pc'[s] # "write" =>
           Derive(node')[job[s].gate].state # "GREEN"]_amended
  BY <1>1
<1> QED
  BY <1>2, AlwaysDue, PTL DEF Spec, AmendmentStalesItsReview

\* The contract of a node that somebody else has claimed is left alone by every
\* amendment, though the claims were read when it was planned.
THEOREM ClaimsAreRespected == Spec => ClaimedContractsKept
<1>1. ASSUME Inv, AmendmentsDue, [Next]_vars, NEW s \in Sessions,
             amended' # amended, pc[s] = "write", pc'[s] # "write",
             NEW n \in DOMAIN node, HeldByOther(n, Name[s])
      PROVE  Obligation(node', n) = Obligation(node, n)
  <2>1. AmendWrite(s)
    BY <1>1, WhoAmends
  <2>2. PICK g \in DOMAIN node, R \in SUBSET DOMAIN node : AmendedBy(s, g, R)
    BY <1>1, <2>1, AmendByNode
  <2>3. job[s].base[2] = claim
    BY <2>1 DEF AmendWrite, graph
  <2>4. \A m \in R : claim[m] = None \/ claim[m] = Name[s]
    BY <1>1, <2>2, <2>3 DEF AmendmentsDue, AmendedBy
  <2>5. n \notin R
    BY <1>1, <2>4 DEF HeldByOther
  <2> QED
    BY <2>2, <2>5 DEF AmendedBy
<1>2. Inv /\ AmendmentsDue /\ [Next]_vars =>
        [\A s \in Sessions : amended' # amended /\ pc[s] = "write" /\ pc'[s] # "write" =>
           \A n \in DOMAIN node :
             HeldByOther(n, Name[s]) => Obligation(node', n) = Obligation(node, n)]_amended
  BY <1>1
<1> QED
  BY <1>2, AlwaysDue, PTL DEF Spec, ClaimedContractsKept

=============================================================================
