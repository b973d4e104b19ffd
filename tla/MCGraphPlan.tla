---------------------------- MODULE MCGraphPlan ----------------------------
(***************************************************************************)
(* Instances of GraphPlan: a plan related to a spec with one acceptance    *)
(* criterion; a node a with its review r, and a node b that depends on a   *)
(* with a review q; a may be split into c and d.                           *)
(***************************************************************************)
EXTENDS GraphPlan

CONSTANTS a, b, c, d, r, q, readme, spec, s1, s2

Criterion == [family |-> "AC", number |-> 1]
Cite      == [by |-> None, id |-> Criterion]

Work(deps) ==
  [deps |-> deps, gate |-> "tests", full |-> TRUE, role |-> "implementation", rev |-> 1,
   obs |-> None, lanes |-> {}, command |-> FALSE,
   tests |-> <<[id |-> "t", file |-> "f", satisfies |-> {"computes-number"}]>>,
   hazards |-> {"computes-number"}, written |-> TRUE, cites |-> {Cite}, phase |-> None,
   artifacts |-> {}, inputs |-> {}, claim |-> None]

Review(deps) ==
  [Work(deps) EXCEPT !.gate = "review", !.role = "review", !.tests = <<>>, !.hazards = {}]

Declare(id, n) == [id |-> id, node |-> n]

First    == <<Declare(a, Work({})), Declare(r, Review({a}))>>
Second   == <<Declare(b, Work({a})), Declare(q, Review({b}))>>
Payloads == {First, Second}
Children == <<Declare(c, Work({})), Declare(d, [Work({c}) EXCEPT !.hazards = None])>>
Dangling == <<Declare(c, Work({})), Declare(d, Work({b}))>>
SplitA   == a :> {Children, Dangling}
Tombs    == b :> {[verified |-> TRUE, replacedBy |-> {a}]}

Related  == readme :> [kind |-> "plan", related |-> {spec}, of |-> None, ids |-> {}] @@
            spec :> [kind |-> "spec", related |-> {}, of |-> None, ids |-> {Criterion}]
NoInputs == {}
Known    == {"computes-number"}
Lanes    == {"correctness"}

Interchangeable == Permutations(Sessions)
=============================================================================
