--------------------------- MODULE GraphContracts ---------------------------
(***************************************************************************)
(* Changes to what a node of a plan graph owes (internal/graph/ops): which *)
(* of its recorded reds survive, and when its contract revision moves.     *)
(*                                                                         *)
(* On top of the fields of GraphStates a node has                          *)
(*   tests   the gate's tests, records [id, proof, hazard]: proof is what  *)
(*           testProofKey compares, hazard whether it discharges one       *)
(*   red     ids of the tests seen failing (red_seqs)                      *)
(***************************************************************************)
EXTENDS GraphStates

\* Mutant: a red survives if its test id does.
CarryOverById(old, new, red) == {t.id : t \in new} \cap red

\* Reds that survive a change of the gate: those of tests that are unchanged.
CarryOver(old, new, red) == {t.id : t \in old \cap new} \cap red

\* A gate whose every hazard-discharging test has been seen failing.
RedSeen(g, n) == \A t \in g[n].tests : t.hazard => t.id \in g[n].red

\* set-tests: an observed node advances its revision.
WithTests(g, n, new) ==
  LET seen == g[n].obs # None
  IN  [g EXCEPT
         ![n].tests = new,
         ![n].rev   = IF seen THEN @ + 1 ELSE @,
         ![n].red   = IF seen THEN CarryOver(g[n].tests, new, @)
                              ELSE @ \cap {t.id : t \in new}]
=============================================================================
