----------------------------- MODULE Citations -----------------------------
(***************************************************************************)
(* internal/rules/graphapi.go: how the citation index decides what one     *)
(* bare identifier stands for.  Every source that the citing document      *)
(* reaches and that defines the identifier is registered in turn, in the   *)
(* order in which authors listed it under `related`, which the model takes *)
(* to be any.  A source that the document is directly related to has       *)
(* priority.                                                               *)
(***************************************************************************)
EXTENDS Naturals, FiniteSets

CONSTANTS Sources, None

ASSUME CitationsAssumption == IsFiniteSet(Sources) /\ None \notin Sources

VARIABLES definers,   \* the sources that define the identifier
          direct,     \* the sources with priority
          todo,       \* the definers still to be registered
          byKey,      \* None, or the source the identifier resolves to
          ambiguous,  \* the definers it was found ambiguous between
          priorityHit \* whether byKey was registered with priority

citationVars == <<definers, direct, todo, byKey, ambiguous, priorityHit>>

CitationInit ==
  /\ direct \in SUBSET Sources /\ definers \in SUBSET Sources /\ todo = definers
  /\ byKey = None /\ ambiguous = {} /\ priorityHit = FALSE

\* Mutant: priority decides only where nothing was registered before.
DisplacesNever(s) == FALSE

\* A direct source takes over from one that is not.
Displaces(s) == s \in direct /\ ~priorityHit

Register(s) ==
  IF byKey # None
  THEN IF Displaces(s)
       THEN byKey' = s /\ priorityHit' = TRUE /\ UNCHANGED ambiguous
       ELSE IF s \notin direct /\ priorityHit
       THEN UNCHANGED <<byKey, ambiguous, priorityHit>>
       ELSE byKey' = None /\ ambiguous' = ambiguous \cup {byKey, s} /\ UNCHANGED priorityHit
  ELSE IF ambiguous # {}
  THEN IF s \in direct
       THEN byKey' = s /\ priorityHit' = TRUE /\ ambiguous' = {}
       ELSE ambiguous' = ambiguous \cup {s} /\ UNCHANGED <<byKey, priorityHit>>
  ELSE byKey' = s /\ priorityHit' = (s \in direct) /\ UNCHANGED ambiguous

CitationNext == \E s \in todo : Register(s) /\ todo' = todo \ {s} /\ UNCHANGED <<definers, direct>>

CitationSpec == CitationInit /\ [][CitationNext]_citationVars

Resolved == byKey

-----------------------------------------------------------------------------
Direct == definers \cap direct
Tied   == IF Direct # {} THEN Cardinality(Direct) > 1 ELSE Cardinality(definers) > 1

\* In whatever order the sources are registered, the identifier resolves to
\* the one directly related definer, or without one to the only definer.
OneDefinerWins ==
  todo = {} /\ definers # {} /\ ~Tied
    => Resolved # None /\ (Direct # {} => Resolved \in Direct)

\* A tie between definers that nothing tells apart resolves for none of them.
TiesStayAmbiguous == todo = {} /\ Tied => Resolved = None
=============================================================================
