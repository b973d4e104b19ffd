-------------------------- MODULE MCArtifactStore --------------------------
(***************************************************************************)
(* Small instances of ArtifactStore, and of what the v1 commands write     *)
(* through it.  A behaviour is one of either part, the other stands still  *)
(* in one of its initial states.                                           *)
(***************************************************************************)
EXTENDS ArtifactStore, Identifiers, TLC

CONSTANTS p1, p2, p3

VARIABLE part

\* No process is distinguished from another one, except by being allowed Init.
Symmetry == Permutations({p2, p3})

-----------------------------------------------------------------------------
Line(n)         == [num |-> n, form |-> "live"]
Other(n, f)     == [num |-> n, form |-> f]
Sent(items)     == [status |-> Unstated, lacks |-> {}, cites |-> {}, items |-> items]

\* Restating, appending before what is there, striking in both ways, hiding in
\* a fence, asserting the status, citing, and an old artifact with gaps.
MCPayloads ==
  {[Sent(<<Line(1), Line(2)>>) EXCEPT !.status = "draft"], Sent(<<Line(0), Line(0), Line(1)>>),
   Sent(<<Line(1), Other(2, "struck")>>),
   Sent(<<Other(1, "fenced"), Other(2, "idStruck")>>),
   [Sent(<<Line(0), Line(2)>>) EXCEPT !.cites = {2}],
   [Sent(<<Line(1)>>) EXCEPT !.lacks = {"section", "field"}]}
MCRetirements == {{}, {2}}
MCVerbs       == {<<"draft", "complete">>}

-----------------------------------------------------------------------------
StoreStill      == Init /\ file = Absent
IdentifierStill == IdentifierInit /\ doc = NoDoc

PartInit ==
  \/ part = "store" /\ Init /\ IdentifierStill
  \/ part = "identifiers" /\ StoreStill /\ IdentifierInit

PartNext ==
  /\ UNCHANGED part
  /\ \/ part = "store" /\ Next /\ UNCHANGED idVars
     \/ part = "identifiers" /\ IdentifierNext /\ UNCHANGED vars

MCSpec == PartInit /\ [][PartNext]_<<part, vars, idVars>> /\ Fairness
=============================================================================
