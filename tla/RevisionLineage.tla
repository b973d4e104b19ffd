-------------------------- MODULE RevisionLineage --------------------------
(***************************************************************************)
(* Rewrite lineage: Git's post-rewrite hook captures the old-new rows of a *)
(* rebase or an amend (internal/hook/postrewrite.go), and a later          *)
(* `sdd graph remap-revisions` appends the rows that matter to the graph's *)
(* revision_lineage (internal/graph/ops/remap.go) while other sessions     *)
(* record observations.  A row is a pair of revisions; a capture keeps     *)
(* whatever Git said, squashes and all, and remap owns the policy.         *)
(***************************************************************************)
EXTENDS Naturals, FiniteSets

CONSTANTS
    Sessions,     \* operators capturing and remapping
    Nodes,        \* graph nodes
    Revisions,    \* full commit ids
    NoRevision,   \* a node with no Git observation
    MaxRows,      \* the capture's row limit (maxPostRewriteRows)
    MaxSyncs,     \* bound: observations recorded and commits pruned
    MaxCaptures   \* bound: rewrites captured

ASSUME LineageAssumption ==
    /\ IsFiniteSet(Revisions)
    /\ NoRevision \notin Revisions
    /\ MaxRows \in Nat \ {0}
    /\ MaxSyncs \in Nat
    /\ MaxCaptures \in Nat

VARIABLES
    observed,   \* node -> the revision of its recorded observation
    lineage,    \* the graph's revision_lineage, a set of old-new pairs
    available,  \* commits the repository still has
    remap,      \* session -> where it is
    syncs,
    captures,
    ever        \* every revision an observation ever named

lineageVars == <<observed, lineage, available, remap, syncs, captures, ever>>

Pairs == Revisions \X Revisions
Graphs == [observed : [Nodes -> Revisions \cup {NoRevision}], lineage : SUBSET Pairs]
Graph == [observed |-> observed, lineage |-> lineage]
NoGraph == [observed |-> [n \in Nodes |-> NoRevision], lineage |-> {}]

Resting == [pc |-> "idle", rows |-> {}, digest |-> NoGraph]

LineageTypeOK ==
    /\ observed \in [Nodes -> Revisions \cup {NoRevision}]
    /\ lineage \in SUBSET Pairs
    /\ available \in SUBSET Revisions
    /\ \A s \in Sessions :
          /\ remap[s].pc \in {"idle", "captured", "previewed", "evaluated"}
          /\ remap[s].rows \in SUBSET Pairs
          /\ remap[s].digest \in Graphs
    /\ syncs \in 0..MaxSyncs
    /\ captures \in 0..MaxCaptures
    /\ ever \in SUBSET Revisions

(***************************************************************************)
(* What remapRevisionsWithWrite decides about one graph and one set of rows *)
(***************************************************************************)
Olds(ps) == {p[1] : p \in ps}
News(ps) == {p[2] : p \in ps}
Functional(ps) == \A p, q \in ps : p[1] = q[1] => p = q

\* the least set that holds what the rows lead to from the roots: a chain old,
\* mid, new works whatever the order of the rows
ReachableFrom(roots, ps) ==
    LET Closed(S) == roots \subseteq S /\ \A p \in ps : p[1] \in S => p[2] \in S
    IN  {r \in Revisions : \A S \in SUBSET Revisions : Closed(S) => r \in S}

Moving(ps) == {p \in ps : p[1] # p[2]}

\* validateRemapLineage: no self row, no two olds to one new, no cycle
LineageValid(ps) ==
    /\ \A p, q \in ps : p[2] = q[2] => p = q
    /\ \A p \in ps : p[1] \notin ReachableFrom({p[2]}, ps)

ChangedBinding(g, ps) == \E p \in Moving(ps), q \in g.lineage : p[1] = q[1] /\ p # q

Roots(g) == ({g.observed[n] : n \in Nodes} \ {NoRevision}) \cup Olds(g.lineage) \cup News(g.lineage)
Relevant(g, ps) == ReachableFrom(Roots(g), Moving(ps))

\* rows that are recorded, and rows that count as a reason to go on
Recorded(g, ps) == {p \in Moving(ps) : p[1] \in Relevant(g, ps)}
Matters(g, ps) == {p \in ps : p \in g.lineage \/ p[1] \in Relevant(g, ps)}

\* existence is asked of Git only for the rows a graph can reference
Probed(g, ps) == Olds(Recorded(g, ps)) \cup News(Recorded(g, ps))

Accepts(g, ps) ==
    /\ ps # {} /\ Functional(ps)
    /\ ~ChangedBinding(g, ps)
    /\ LineageValid(g.lineage \cup Moving(ps))
    /\ Probed(g, ps) \subseteq available
    /\ Matters(g, ps) # {}

Final(g, ps) == g.lineage \cup Recorded(g, ps)

\* RevisionChain: what status and audit print for a recorded revision
ChainEnds(r, ps) == \E t \in ReachableFrom({r}, ps) : t \notin Olds(ps)

(***************************************************************************)
(* Actions                                                                 *)
(***************************************************************************)
Go(s, next) == remap' = [remap EXCEPT ![s] = next]
Back(s) == Go(s, Resting)

\* The dispatcher hands Git's rows to CapturePostRewrite: all of them, or
\* nothing.  Too many rows, or a spool that came short, is not captured.
CapturePostRewrite(s) ==
    /\ remap[s].pc = "idle"
    /\ captures < MaxCaptures
    /\ captures' = captures + 1
    /\ \E rows \in SUBSET Pairs :
          /\ Cardinality(rows) \in 1..MaxRows
          /\ Go(s, [Resting EXCEPT !.pc = "captured", !.rows = rows])
    /\ UNCHANGED <<observed, lineage, available, syncs, ever>>

\* --dry-run prints the digest the write will be conditioned on
Preview(s) ==
    /\ remap[s].pc = "captured"
    /\ IF Accepts(Graph, remap[s].rows)
         THEN Go(s, [remap[s] EXCEPT !.pc = "previewed", !.digest = Graph])
         ELSE Back(s)
    /\ UNCHANGED <<observed, lineage, available, syncs, captures, ever>>

\* the graph is read and judged again, and must be the one that was previewed;
\* a remap that adds nothing writes nothing
Evaluate(s) ==
    /\ remap[s].pc = "previewed"
    /\ IF /\ Accepts(Graph, remap[s].rows)
          /\ Graph = remap[s].digest
          /\ Final(Graph, remap[s].rows) # lineage
         THEN Go(s, [remap[s] EXCEPT !.pc = "evaluated"])
         ELSE Back(s)
    /\ UNCHANGED <<observed, lineage, available, syncs, captures, ever>>

\* a write that trusts the digest it compared a moment ago
WriteFinalBlind(s) ==
    /\ remap[s].pc = "evaluated"
    /\ lineage' = Final(remap[s].digest, remap[s].rows)
    /\ Back(s)
    /\ UNCHANGED <<observed, available, syncs, captures, ever>>

\* one write under that digest, and no retry
WriteFinal(s) ==
    /\ remap[s].pc = "evaluated"
    /\ lineage' = IF Graph = remap[s].digest
                     THEN Final(remap[s].digest, remap[s].rows) ELSE lineage
    /\ Back(s)
    /\ UNCHANGED <<observed, available, syncs, captures, ever>>

\* another session's sync; p4, plain and shortened revisions are NoRevision here
Observe(n) ==
    /\ syncs < MaxSyncs
    /\ \E r \in available \cup {NoRevision} :
          /\ observed' = [observed EXCEPT ![n] = r]
          /\ ever' = ever \cup ({r} \ {NoRevision})
    /\ syncs' = syncs + 1
    /\ UNCHANGED <<lineage, available, remap, captures>>

\* Git prunes a commit nothing reaches any more
Prune ==
    /\ syncs < MaxSyncs
    /\ syncs' = syncs + 1
    /\ \E r \in available : available' = available \ {r}
    /\ UNCHANGED <<observed, lineage, remap, captures, ever>>

LineageInit ==
    /\ observed = [n \in Nodes |-> NoRevision]
    /\ lineage = {}
    /\ available = Revisions
    /\ remap = [s \in Sessions |-> Resting]
    /\ syncs = 0
    /\ captures = 0
    /\ ever = {}

\* graph remap-revisions: a dry run, then the same under the digest it printed.
RemapRevisions(s) == Preview(s) \/ Evaluate(s) \/ WriteFinal(s)

LineageNext ==
    \/ \E s \in Sessions : CapturePostRewrite(s) \/ RemapRevisions(s)
    \/ \E n \in Nodes : Observe(n)
    \/ Prune

LineageSpec == LineageInit /\ [][LineageNext]_lineageVars

(***************************************************************************)
(* Properties                                                              *)
(***************************************************************************)
\* What concurrent remaps build up together, from rows each of them judged on
\* its own read, stays a set of disjoint chains that start at a revision some
\* observation named: a reader following one always comes to an end.
LineageIsChains ==
    /\ LineageTypeOK
    /\ \A p, q \in lineage : p[2] = q[2] => p = q
    /\ \A r \in Revisions : ChainEnds(r, lineage)
    /\ Olds(lineage) \subseteq ReachableFrom(ever, lineage)

\* Lineage is an append-only account: whatever sessions race, a row that was
\* recorded is never dropped and never bound to another commit (remap.go,
\* "Revision remapping records Git's rewrite identity without rewriting any
\* observation").
LineageAppendOnly ==
    [][lineage' # lineage
         => lineage \subseteq lineage' /\ Functional(lineage') /\ LineageIsChains']_lineage
=============================================================================
