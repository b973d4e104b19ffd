---------------------------- MODULE GraphStates ----------------------------
(***************************************************************************)
(* internal/graph/states and the parts of internal/graph/algorithms it     *)
(* stands on: what state each node of a plan graph is in, derived from     *)
(* structure and observations alone.                                       *)
(*                                                                         *)
(* A graph g is a function from node ids to records with the fields        *)
(*   deps   ids the node depends on, some perhaps not in the graph         *)
(*   gate   "tests", "command" or "review"                                 *)
(*   full   a review gate over all four lanes                              *)
(*   role   "implementation", "review" or "integration_acceptance"         *)
(*   rev    contract revision                                              *)
(*   obs    None, or the latest observation: result, seq, rev, clean and,  *)
(*          of a review, reviewed: None or scope node |-> revision         *)
(***************************************************************************)
EXTENDS Naturals, FiniteSets

CONSTANT None

\* The smallest subset of U to which step, a function that only grows with its
\* argument, adds nothing of U: what a worklist ends with, after |U| rounds at
\* the latest.
Least(U, step) ==
  LET round[i \in 0 .. Cardinality(U)] ==
        IF i = 0 THEN {}
        ELSE LET before == round[i - 1] IN before \cup (U \cap step[before])
  IN  U \cap round[Cardinality(U)]

\* Deps that are in the graph; a dangling one gates no traversal.
PresentDeps(g, n) == g[n].deps \cap DOMAIN g

DependencyClosure(g, n) ==
  Least(DOMAIN g, [S \in SUBSET DOMAIN g |->
                     PresentDeps(g, n) \cup UNION {PresentDeps(g, m) : m \in S}])

\* The nodes TopoSort emits: neither in a cycle nor downstream of one.
TopoSort(g) ==
  Least(DOMAIN g, [S \in SUBSET DOMAIN g |-> {n \in DOMAIN g : PresentDeps(g, n) \subseteq S}])

\* What review gate n reviews: its dependency closure less what the full
\* review gates inside it, where they are current, already cover.
ReviewScope(g, n, current) ==
  LET closure == DependencyClosure(g, n) \ {n}
      inner   == {r \in closure : g[r].gate = "review" /\ g[r].full /\ r \in current}
  IN  closure \ UNION {{r} \cup DependencyClosure(g, r) : r \in inner}

\* Mutant: the sequence numbers compared the wrong way round.
ObservedBefore(g, m, v) ==
  m \in DOMAIN g /\ g[m].obs # None /\ g[m].obs.seq < v.seq

\* m has been observed since v was.
ObservedSince(g, m, v) ==
  m \in DOMAIN g /\ g[m].obs # None /\ g[m].obs.seq > v.seq

DependencyStale(g, n) == {d \in g[n].deps : ObservedSince(g, d, g[n].obs)}

\* Mutant: a reviewed set binds sequence numbers only.
ReviewStaleBySequence(g, n, current) ==
  LET v     == g[n].obs
      scope == ReviewScope(g, n, current)
  IN  IF g[n].gate # "review" THEN {}
      ELSE {m \in scope : \/ v.reviewed # None /\ m \notin DOMAIN v.reviewed
                         \/ ObservedSince(g, m, v)}

\* An observation from before reviewed sets were recorded binds revision 1.
ReviewStale(g, n, current) ==
  LET v     == g[n].obs
      scope == ReviewScope(g, n, current)
  IN  IF g[n].gate # "review" THEN {}
      ELSE IF v.reviewed = None
        THEN {m \in scope : g[m].rev > 1 \/ ObservedSince(g, m, v)}
        ELSE (DOMAIN v.reviewed \ scope) \cup
             {m \in scope : \/ m \notin DOMAIN v.reviewed
                            \/ g[m].rev > v.reviewed[m]
                            \/ ObservedSince(g, m, v)}

Workable == {"READY", "RED", "STALE"}

\* green: which of the nodes below n are GREEN.
NodeState(g, n, green) ==
  LET v         == g[n].obs
      depsGreen == g[n].deps \subseteq green
      unproven  == v = None \/ v.rev # g[n].rev
      stale     == \/ DependencyStale(g, n) # {}
                   \/ ~v.clean
                   \/ ReviewStale(g, n, green) # {}
      state     == IF unproven THEN IF depsGreen THEN "READY" ELSE "BLOCKED"
                   ELSE IF v.result = "fail" THEN "RED"
                   ELSE IF stale THEN "STALE" ELSE "GREEN"
  IN  [state    |-> state,
       frontier |-> depsGreen /\ state \in Workable,
       inCycle  |-> FALSE]

Derive(g) ==
  LET ordered == TopoSort(g)
      st[n \in ordered] ==
         NodeState(g, n, {d \in DependencyClosure(g, n) \ {n} : st[d].state = "GREEN"})
  IN  [n \in DOMAIN g |->
         IF n \in ordered THEN st[n]
         ELSE [state |-> "BLOCKED", frontier |-> FALSE, inCycle |-> TRUE]]

Frontier(g) == {n \in DOMAIN g : Derive(g)[n].frontier}

ReviewScopeFromStates(g, n, st) ==
  ReviewScope(g, n, {m \in DOMAIN g : st[m].state = "GREEN"})

\* The nodes a passed full review covers, and the integration nodes whose
\* whole upstream is covered.
Closed(g) ==
  LET st     == Derive(g)
      green  == {n \in DOMAIN g : st[n].state = "GREEN"}
      passed == {r \in green : g[r].gate = "review" /\ g[r].full
                               /\ g[r].obs # None /\ g[r].obs.result = "pass"}
      direct == passed \cup
                UNION {ReviewScopeFromStates(g, r, st) \cap green : r \in passed}
      upstream == [n \in {m \in green : g[m].role = "integration_acceptance"} |->
                     DependencyClosure(g, n) \ {n}]
  IN  Least(DOMAIN g, [S \in SUBSET DOMAIN g |->
        direct \cup {n \in DOMAIN upstream : upstream[n] # {} /\ upstream[n] \subseteq S}])
=============================================================================
