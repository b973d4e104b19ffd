---------------------------- MODULE MCGraphWalk ----------------------------
(***************************************************************************)
(* Small instances of GraphWalk: a node and its dependant.                 *)
(***************************************************************************)
EXTENDS GraphWalk, TLC

CONSTANTS a, b, s1, s2, s3, p, q

Chain       == (a :> {} @@ b :> {a})
Pair        == (a :> {} @@ b :> {})
Single      == (a :> {})
OwnPath     == (a :> {p})
OwnPaths    == (a :> {p} @@ b :> {q})
SharedPath  == (a :> {p} @@ b :> {p, q})
OnePathEach == {{p}, {q}}
AnyPaths    == SUBSET {p, q}

\* A test that discharges a hazard, the same test id with another proof, and a
\* plain test.
Hazardous == [id |-> "t", proof |-> 1, hazard |-> TRUE]
Reproved  == [id |-> "t", proof |-> 2, hazard |-> TRUE]
PlainTest == [id |-> "u", proof |-> 1, hazard |-> FALSE]

Plain     == {{PlainTest}}
Proofs    == {{Hazardous}, {Reproved}}
AllTests  == {Hazardous, Reproved, PlainTest}
AllGates  == {{Hazardous}, {Reproved}, {PlainTest}, {Hazardous, PlainTest}}

Ids       == {"t", "u"}
PassFail  == {[i \in Ids |-> o] : o \in {"pass", "fail"}}
PassOnly  == {[i \in Ids |-> "pass"]}

OwnNames  == [s \in Sessions |-> s]

Interchangeable == Permutations(Sessions)
=============================================================================
