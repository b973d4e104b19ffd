--------------------------- MODULE MCGraphReview ---------------------------
(***************************************************************************)
(* Small instances of GraphReview: a node, a full review of it, and what   *)
(* stands on that review.                                                  *)
(***************************************************************************)
EXTENDS GraphReview, TLC

CONSTANTS a, r1, r2, x, ghost, f, s1, s2

Hazardous == [id |-> "t", proof |-> 1, hazard |-> TRUE]
Reproved  == [id |-> "t", proof |-> 2, hazard |-> TRUE]
AllTests  == {Hazardous, Reproved}
Proofs    == {{Hazardous}, {Reproved}}

Work(deps) == [deps |-> deps, gate |-> "tests", full |-> FALSE, role |-> "implementation",
               contract |-> 1, tests |-> {Hazardous}]
Review(deps) == [deps |-> deps, gate |-> "review", full |-> TRUE, role |-> "review",
                 contract |-> 1, tests |-> {}]

Nested  == (a :> Work({}) @@ r1 :> Review({a}) @@ r2 :> Review({r1}))

\* Nothing is observed, or everything is, by reviews without a reviewed set.
Unobserved == [at |-> << >>, seq |-> 4]
Legacy     == [at |-> (a :> 1 @@ r1 :> 2 @@ r2 :> 3), seq |-> 3]
Either     == {Unobserved, Legacy}

\* What the theorem about ClosedAsReviewed assumes of the instance.
ASSUME WholeAssumption == LegacyIsWhole

Reviewer   == (s1 :> {"record", "preview", "dryrun"} @@ s2 :> {"record", "sync", "settests", "claim", "release"})

Report(i)  == [full |-> TRUE, text |-> i, revise |-> << >>, extend |-> << >>]
Revising(n, fields) == [Report(0) EXCEPT !.revise = n :> (fields @@ [contract |-> None, tests |-> None])]
Extending(deps)     == [Report(0) EXCEPT !.extend = x :> Work(deps)]

Passes    == {Report(1), Report(2)}
NewTests  == Revising(a, [tests |-> {Reproved}])
NewDuty   == Revising(r1, [contract |-> 2])
Addition  == Extending({a})
Dangling  == Extending({a, ghost})
AllReports == Passes \cup {NewTests, NewDuty, Addition, Dangling}

OnePass   == {Report(1)}

OwnNames  == [s \in Sessions |-> s]
=============================================================================
