---------------------------- MODULE MCGraphViews ----------------------------
(***************************************************************************)
(* Instances of GraphViews: a node in a labelled phase, one in no phase,   *)
(* and a node that compile adds to a phase that sorts before them.         *)
(***************************************************************************)
EXTENDS GraphViews

CONSTANTS a, b, c

Fresh(id, label) == [id |-> id, label |-> label, obs |-> 0, rev |-> 0, closed |-> FALSE,
                    claimed |-> FALSE, contract |-> 0]

OnePhase  == <<Fresh(a, 2)>>
Before    == <<Fresh(c, 1)>>
Stems     == (1 :> "core") @@ (2 :> "core")

\* What others do commutes with the steps of a session that does not read it:
\* it is enough to take such a step once the session reads it, or is done.
WhereItIsRead ==
  \A s \in Sessions : pc[s] # "idle" =>
    /\ graph' # graph     => pc[s] \in {"append", "record"}
    /\ reviews' # reviews => pc[s] \in {"preflight", "judge", "readme"}
    /\ readme'.prose # readme.prose => pc[s] \in {"commit", "flip"}
=============================================================================
