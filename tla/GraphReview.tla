---------------------------- MODULE GraphReview ----------------------------
(***************************************************************************)
(* Review gates: internal/graph/review (record a frozen artifact, preview  *)
(* its findings) and the amendments of internal/graph/ops/amend.go, with   *)
(* the commands that observe, claim and edit the nodes below a gate.       *)
(*                                                                         *)
(* A review artifact is a file; what it says is its digest.  Admissible    *)
(* ones are resolved, frozen and of this plan, so a content is             *)
(*   full     whether its lanes are all four                               *)
(*   text     what tells one report from another                           *)
(*   revise   node |-> [contract, tests], None where a finding leaves them *)
(*   extend   new node |-> its payload                                     *)
(* and one without open findings says Aligned, any other Amend.            *)
(*                                                                         *)
(* A payload has the fields deps, gate, full, role, contract and tests.    *)
(* sync, set-tests, claim and release are one step each: GraphWalk has     *)
(* their inner steps, and the fences that make the last of them stand for  *)
(* the whole.  judged and failed are history.                        *)
(***************************************************************************)
EXTENDS GraphContracts

CONSTANTS Plan,                \* the compiled plan: id |-> payload
          Earlier,             \* [at, seq]: when an earlier binary observed what
          Tests,               \* [id, proof, hazard], as in GraphContracts
          Gates,               \* the test lists a gate may have
          Contracts,           \* what else a node may owe
          Artifacts, Contents, \* review files, and what they may say
          Sessions, Name,      \* who runs commands, and under which --by
          Commands,            \* bound: the commands each session uses
          Rewrites,            \* bound: what a report may be changed to
          Claimable,           \* bound: the nodes that get claimed
          MaxSeq, MaxRev       \* bounds

TestIds == {t.id : t \in Tests}
Names   == {Name[s] : s \in Sessions}
Ids     == DOMAIN Plan \cup
           UNION {DOMAIN c.extend \cup UNION {c.extend[n].deps : n \in DOMAIN c.extend} :
                    c \in Contents}

Payload == {p \in [deps : SUBSET Ids, gate : {"tests", "review"}, full : BOOLEAN,
                   role : {"implementation", "review", "integration_acceptance"},
                   contract : Contracts, tests : Gates \cup {{}}] :
              p.gate = "tests" \/ p.tests = {}}

ReviewedSets == UNION {[S -> 1 .. MaxRev] : S \in SUBSET Ids}

Observation == [result : {"pass", "fail"}, seq : 1 .. MaxSeq, rev : 1 .. MaxRev,
                clean : {TRUE}, reviewed : {None} \cup ReviewedSets,
                report : {None} \cup Contents]

ASSUME ReviewAssumption ==
  /\ Plan \in [DOMAIN Plan -> Payload]
  /\ \A n \in DOMAIN Plan : Plan[n].deps \subseteq DOMAIN Plan
  /\ Gates \subseteq SUBSET Tests
  /\ \A g \in Gates : \A t, u \in g : t.id = u.id => t = u   \* "declared twice"
  /\ \A c \in Contents :
       /\ c.revise \in [DOMAIN c.revise -> [contract : Contracts \cup {None}, tests : Gates \cup {None}]]
       /\ c.extend \in [DOMAIN c.extend -> Payload]
  /\ Rewrites \subseteq Contents
  /\ MaxSeq \in Nat /\ MaxRev \in Nat \ {0}

\* What an earlier binary has observed is all GREEN.
ASSUME EarlierAssumption ==
  \A e \in Earlier :
    /\ e.seq \in 0 .. MaxSeq
    /\ DOMAIN e.at \subseteq DOMAIN Plan
    /\ e.at \in [DOMAIN e.at -> 1 .. e.seq]
    /\ \A m, n \in DOMAIN e.at : m # n => e.at[m] # e.at[n]
    /\ \A n \in DOMAIN e.at : \A d \in Plan[n].deps : d \in DOMAIN e.at /\ e.at[d] < e.at[n]

ASSUME FiniteAssumption == IsFiniteSet(Ids)

ASSUME NoneAssumption ==
  /\ None \notin Contracts /\ None \notin Gates
  /\ None \notin Contents /\ None \notin Names /\ None \notin Observation
  /\ None \notin ReviewedSets

VARIABLES node, claim, seq, amended,   \* the graph file
          file,                        \* the review artifacts
          pc, job,                     \* the step each session is at, and its data
          judged,  \* of a gate: what its latest observation evaluated
          failed   \* tests, each with the node it has been seen to fail on

graph   == <<node, claim, seq, amended>>
history == <<judged, failed>>
vars    == <<node, claim, seq, amended, file, pc, job, judged, failed>>

NoJob == [gate |-> None, artifact |-> None, report |-> None, own |-> None,
          scope |-> None, base |-> None, exact |-> FALSE]

\* What a node owes, whatever the revision.
Obligation(g, n) == [contract |-> g[n].contract, tests |-> g[n].tests]

Snapshot(g, n) == [owes |-> Obligation(g, n), rev |-> g[n].rev, deps |-> g[n].deps]

CurrentScope(g, n) == ReviewScopeFromStates(g, n, Derive(g))

Compiled(payload) ==
  [deps |-> payload.deps, gate |-> payload.gate, full |-> payload.full,
   role |-> payload.role, contract |-> payload.contract, tests |-> payload.tests,
   rev |-> 1, red |-> {}, obs |-> None]

Hazards(n) == {t \in Plan[n].tests : t.hazard}

\* A compiled plan, or one on which an earlier binary has observed passes: its
\* reviews carry no reviewed set, and its reds are on record.
InitGraph(at) ==
  [n \in DOMAIN Plan |->
     IF n \notin DOMAIN at THEN Compiled(Plan[n])
     ELSE [Compiled(Plan[n]) EXCEPT
             !.red = {t.id : t \in Hazards(n)},
             !.obs = [result |-> "pass", seq |-> at[n], rev |-> 1,
                      clean |-> TRUE, reviewed |-> None, report |-> None]]]

Init ==
  \E earlier \in Earlier :
    LET observed == DOMAIN earlier.at
        reviews  == {n \in observed : Plan[n].gate = "review"}
    IN  /\ node    = InitGraph(earlier.at)
        /\ seq     = earlier.seq
        /\ judged  = [n \in reviews |->
                        [m \in ReviewScope(node, n, observed) |-> Obligation(node, m)]]
        /\ failed  = UNION {{n} \X Hazards(n) : n \in observed}
        /\ claim   = [n \in DOMAIN Plan |-> None]
        /\ amended = {}
        /\ file    \in [Artifacts -> Contents]
        /\ pc      = [s \in Sessions |-> "idle"]
        /\ job     = [s \in Sessions |-> NoJob]

Goto(s, l)   == pc' = [pc EXCEPT ![s] = l]
Finish(s)    == Goto(s, "idle") /\ job' = [job EXCEPT ![s] = NoJob]
Starts(s, c) == pc[s] = "idle" /\ c \in Commands[s]

HeldByOther(n, by) == claim[n] # None /\ claim[n] # by

-----------------------------------------------------------------------------
(***************************************************************************)
(* Review evidence.                                                        *)
(***************************************************************************)
Aligned(c) == DOMAIN c.revise = {} /\ DOMAIN c.extend = {}

\* AdmitArtifact: the lanes suffice, and the report is no one's evidence yet.
Admitted(n, c) ==
  /\ c # None
  /\ node[n].gate = "review" /\ node[n].role = "review"
  /\ Aligned(c) /\ node[n].full => c.full
  /\ \A m \in DOMAIN node : node[m].obs # None => node[m].obs.report # c
  /\ c \notin amended

\* Record up to the update, of a report without open findings.
RecordLoad(s, n, a) ==
  LET scope == CurrentScope(node, n)
  IN  /\ Starts(s, "record")
      /\ ~HeldByOther(n, Name[s])
      /\ Admitted(n, file[a])
      /\ Aligned(file[a])
      /\ job' = [job EXCEPT ![s] =
                   [NoJob EXCEPT !.gate = n, !.artifact = a, !.report = file[a],
                                 !.own = Snapshot(node, n),
                                 !.scope = [m \in scope |-> Snapshot(node, m)]]]
      /\ Goto(s, "record")
      /\ UNCHANGED <<graph, file, history>>

\* Mutants: the scope's contracts, or the other evidence, not looked at again.
FencedByScopeIds(s) ==
  LET j == job[s]
  IN  /\ ~HeldByOther(j.gate, Name[s])
      /\ Snapshot(node, j.gate) = j.own
      /\ CurrentScope(node, j.gate) = DOMAIN j.scope
      /\ file[j.artifact] = j.report
      /\ Admitted(j.gate, j.report)

FencedAdmittedBefore(s) ==
  LET j == job[s]
  IN  /\ ~HeldByOther(j.gate, Name[s])
      /\ Snapshot(node, j.gate) = j.own
      /\ CurrentScope(node, j.gate) = DOMAIN j.scope
      /\ \A m \in DOMAIN j.scope : Snapshot(node, m) = j.scope[m]
      /\ file[j.artifact] = j.report

\* Nothing that was evaluated has changed since.
RecordFenced(s) ==
  LET j == job[s]
  IN  /\ ~HeldByOther(j.gate, Name[s])
      /\ Snapshot(node, j.gate) = j.own
      /\ CurrentScope(node, j.gate) = DOMAIN j.scope
      /\ \A m \in DOMAIN j.scope : Snapshot(node, m) = j.scope[m]
      /\ file[j.artifact] = j.report
      /\ Admitted(j.gate, j.report)

\* The update, and the release of the claim it completes.
RecordPublish(s) ==
  LET j == job[s]
      n == j.gate
  IN  /\ pc[s] = "record"
      /\ RecordFenced(s)
      /\ seq < MaxSeq
      /\ seq' = seq + 1
      /\ node' = [node EXCEPT
           ![n].obs = [result |-> "pass", seq |-> seq + 1, rev |-> j.own.rev, clean |-> TRUE,
                       reviewed |-> [m \in DOMAIN j.scope |-> j.scope[m].rev],
                       report |-> j.report]]
      /\ claim' = [claim EXCEPT ![n] = None]
      /\ judged' = [m \in DOMAIN judged \cup {n} |->
                      IF m = n THEN [k \in DOMAIN j.scope |-> j.scope[k].owes] ELSE judged[m]]
      /\ Finish(s)
      /\ UNCHANGED <<amended, file, failed>>

RecordRefused(s) ==
  /\ pc[s] = "record"
  /\ ~RecordFenced(s) \/ seq = MaxSeq
  /\ Finish(s)
  /\ UNCHANGED <<graph, file, history>>

-----------------------------------------------------------------------------
(***************************************************************************)
(* Amendments: preview, then apply under two digests.                      *)
(***************************************************************************)
\* applyRevise: the fields a finding names, over those it leaves.
Over(new, old) == IF new = None THEN old ELSE new

Revised(g, n, c) == [g[n] EXCEPT !.contract = Over(c.revise[n].contract, @),
                                 !.tests    = Over(c.revise[n].tests, @)]

\* PlanAmendmentsInScope: every open finding has an admissible target.
Plannable(g, n, c) ==
  LET reach == DependencyClosure(g, n) \ {n}
  IN  /\ \A m \in DOMAIN c.revise :
           /\ m \in reach
           /\ Revised(g, m, c) # g[m]
           /\ g[m].gate # "tests" => c.revise[m].tests = None
      /\ \A m \in DOMAIN c.extend : m \notin DOMAIN g /\ c.extend[m].deps \cap reach # {}

\* LegacyReviewedSet: an observation without a reviewed set is given the one it
\* stood for, at the revisions before the amendment.
LegacyReviewedSet(g, n) ==
  LET scope == CurrentScope(g, n)
      bound == IF scope = {} THEN PresentDeps(g, n) ELSE scope
  IN  [m \in bound |-> g[m].rev]

\* Mutant: such an observation is left as it is.
ReviewUnpinned(g, n) == g[n].obs

ReviewPinned(g, n) ==
  LET v == g[n].obs
  IN  IF v = None \/ v.reviewed # None THEN v
      ELSE [v EXCEPT !.reviewed = LegacyReviewedSet(g, n)]

\* applyAmendments to the graph g, from gate n's report c.
Amended(g, n, c) ==
  [m \in DOMAIN g \cup DOMAIN c.extend |->
     IF m \in DOMAIN c.extend THEN Compiled(c.extend[m])
     ELSE IF m = n
       THEN [g[n] EXCEPT !.deps = @ \cup DOMAIN c.extend, !.obs = ReviewPinned(g, n)]
     ELSE IF m \in DOMAIN c.revise
       THEN LET new == Revised(g, m, c)
            IN  [new EXCEPT !.rev = @ + 1, !.red = CarryOver(g[m].tests, new.tests, @)]
     ELSE g[m]]

\* Validate: the amended graph would still compile.
Compiles(g) == TopoSort(g) = DOMAIN g /\ \A n \in DOMAIN g : g[n].deps \subseteq DOMAIN g

\* Mutant: a contract that somebody else has claimed.
AmendableByAnyone(s, n, c) ==
  /\ Admitted(n, c) /\ ~Aligned(c)
  /\ Plannable(node, n, c)
  /\ Compiles(Amended(node, n, c))

\* What AmendFromReview checks on the graph and the report it reads.
Amendable(s, n, c) ==
  /\ Admitted(n, c) /\ ~Aligned(c)
  /\ Plannable(node, n, c)
  /\ \A m \in DOMAIN c.revise : ~HeldByOther(m, Name[s])
  /\ Compiles(Amended(node, n, c))

\* The driver's preview of report c: the graph whose digest it prints, and
\* whether that is the graph the plan was made for.
Previewed(n, a, c, exact) ==
  [NoJob EXCEPT !.gate = n, !.artifact = a, !.report = c, !.base = graph, !.exact = exact]

\* Record of a report with open findings: the plan is of one read of the graph,
\* the digest that is printed with it of the next.
PreviewLoad(s, n, a) ==
  /\ Starts(s, "preview")
  /\ ~HeldByOther(n, Name[s])
  /\ Admitted(n, file[a])
  /\ ~Aligned(file[a]) /\ Plannable(node, n, file[a])
  /\ job' = [job EXCEPT ![s] = Previewed(n, a, file[a], TRUE)]
  /\ Goto(s, "preview")
  /\ UNCHANGED <<graph, file, history>>

PreviewDigest(s) ==
  LET j == job[s]
  IN  /\ pc[s] = "preview"
      /\ job' = [job EXCEPT ![s] = Previewed(j.gate, j.artifact, j.report, graph = j.base)]
      /\ Goto(s, "previewed")
      /\ UNCHANGED <<graph, file, history>>

\* amend --dry-run: the plan and the digest are of one read.
AmendDryRun(s, n, a) ==
  /\ Starts(s, "dryrun")
  /\ Amendable(s, n, file[a])
  /\ job' = [job EXCEPT ![s] = Previewed(n, a, file[a], TRUE)]
  /\ Goto(s, "previewed")
  /\ UNCHANGED <<graph, file, history>>

\* amend under the digests of the preview, up to the second look at the report.
AmendEvaluate(s) ==
  LET j == job[s]
  IN  /\ pc[s] = "previewed"
      /\ graph = j.base
      /\ file[j.artifact] = j.report
      /\ Amendable(s, j.gate, j.report)
      /\ Goto(s, "recheck")
      /\ UNCHANGED <<graph, file, job, history>>

AmendRecheck(s) ==
  /\ pc[s] = "recheck"
  /\ file[job[s].artifact] = job[s].report
  /\ Goto(s, "write")
  /\ UNCHANGED <<graph, file, job, history>>

\* WriteAtomicExpecting: no retry.
AmendWrite(s) ==
  LET j == job[s]
  IN  /\ pc[s] = "write"
      /\ graph = j.base
      /\ seq < MaxSeq
      /\ \A m \in DOMAIN j.report.revise : node[m].rev < MaxRev
      /\ node' = Amended(node, j.gate, j.report)
      /\ claim' = [m \in DOMAIN node' |-> IF m \in DOMAIN claim THEN claim[m] ELSE None]
      /\ seq' = seq + 1
      /\ amended' = amended \cup {j.report}
      /\ Finish(s)
      /\ UNCHANGED <<file, history>>

\* A fence refuses, or the driver drops the preview.
AmendEnds(s) ==
  LET j == job[s]
  IN  /\ \/ pc[s] = "previewed"
         \/ pc[s] = "recheck" /\ file[j.artifact] # j.report
         \/ pc[s] = "write" /\ graph # j.base
      /\ Finish(s)
      /\ UNCHANGED <<graph, file, history>>

-----------------------------------------------------------------------------
(***************************************************************************)
(* The commands on the other nodes, and the review flow that writes files. *)
(***************************************************************************)
\* sync of a report in which the given tests fail.
Sync(s, n, fails) ==
  LET owed   == node[n].tests
      passes == fails = {}
  IN  /\ Starts(s, "sync")
      /\ node[n].gate = "tests"
      /\ ~HeldByOther(n, Name[s])
      /\ fails \subseteq {t.id : t \in owed}
      /\ passes => RedSeen(node, n)
      /\ seq < MaxSeq
      /\ seq' = seq + 1
      /\ node' = [node EXCEPT
           ![n].obs = [result |-> IF passes THEN "pass" ELSE "fail", seq |-> seq + 1,
                       rev |-> node[n].rev, clean |-> TRUE, reviewed |-> None,
                       report |-> None],
           ![n].red = @ \cup fails]
      /\ claim' = IF passes THEN [claim EXCEPT ![n] = None] ELSE claim
      /\ failed' = failed \cup ({n} \X {t \in owed : t.id \in fails})
      /\ UNCHANGED <<amended, file, pc, job, judged>>

SetTests(s, n, new) ==
  /\ Starts(s, "settests")
  /\ node[n].gate = "tests"
  /\ ~HeldByOther(n, Name[s])
  /\ new # node[n].tests \/ (node[n].obs # None /\ Cardinality(new) > 1)   \* or reordered
  /\ node[n].obs # None => node[n].rev < MaxRev
  /\ node' = WithTests(node, n, new)
  /\ UNCHANGED <<claim, seq, amended, file, pc, job, history>>

Claim(s, n) ==
  /\ Starts(s, "claim")
  /\ n \in Claimable
  /\ claim[n] = None
  /\ n \in Frontier(node)
  /\ claim' = [claim EXCEPT ![n] = Name[s]]
  /\ UNCHANGED <<node, seq, amended, file, pc, job, history>>

Release(s, n) ==
  /\ Starts(s, "release")
  /\ claim[n] = Name[s]
  /\ claim' = [claim EXCEPT ![n] = None]
  /\ UNCHANGED <<node, seq, amended, file, pc, job, history>>

\* A reviewer resolves a report, or reopens one to say something else.
Resolve(a, c) ==
  /\ file[a] # c
  /\ file' = [file EXCEPT ![a] = c]
  /\ UNCHANGED <<graph, pc, job, history>>

\* graph review records an Aligned report and previews any other; graph amend
\* applies one.  What they read first is in the job of the session.
ReviewCommand(s, n, a) == RecordLoad(s, n, a) \/ PreviewLoad(s, n, a)
ReviewStep(s) == RecordPublish(s) \/ RecordRefused(s) \/ PreviewDigest(s)
AmendStep(s)  == AmendEvaluate(s) \/ AmendRecheck(s) \/ AmendWrite(s) \/ AmendEnds(s)

Begin(s, n) == \/ \E a \in Artifacts : ReviewCommand(s, n, a) \/ AmendDryRun(s, n, a)
               \/ \E fails \in SUBSET TestIds : Sync(s, n, fails)
               \/ \E new \in Gates : SetTests(s, n, new)
               \/ Claim(s, n) \/ Release(s, n)

Step(s) == ReviewStep(s) \/ AmendStep(s)

Next == \/ \E s \in Sessions : Step(s) \/ \E n \in DOMAIN node : Begin(s, n)
        \/ \E a \in Artifacts, c \in Rewrites : Resolve(a, c)

Spec == Init /\ [][Next]_vars

-----------------------------------------------------------------------------
(***************************************************************************)
(* Properties.                                                             *)
(***************************************************************************)
Obligations == [contract : Contracts, tests : Gates \cup {{}}]
Snapshots   == [owes : Obligations, rev : 1 .. MaxRev, deps : SUBSET Ids]
NodeRecord  == [deps : SUBSET Ids, gate : {"tests", "review"}, full : BOOLEAN,
                role : {"implementation", "review", "integration_acceptance"},
                contract : Contracts, tests : Gates \cup {{}}, rev : 1 .. MaxRev,
                red : SUBSET TestIds, obs : {None} \cup Observation]
Amending    == {"preview", "previewed", "recheck", "write"}

GraphTyped ==
  /\ DOMAIN node \subseteq Ids
  /\ node \in [DOMAIN node -> NodeRecord]
  /\ \A n \in DOMAIN node : /\ node[n].deps \subseteq DOMAIN node
                            /\ node[n].gate = "tests" \/ node[n].tests = {}
  /\ claim \in [DOMAIN node -> {None} \cup Names]
  /\ seq \in 0 .. MaxSeq
  /\ amended \subseteq Contents

SessionsTyped ==
  /\ pc \in [Sessions -> {"idle", "record"} \cup Amending]
  /\ DOMAIN job = Sessions
  /\ \A s \in Sessions :
       LET j == job[s]
       IN  /\ pc[s] # "idle" => j.gate \in DOMAIN node /\ j.report \in Contents
           /\ pc[s] = "record" => /\ j.own \in Snapshots
                                  /\ DOMAIN j.scope \subseteq Ids
                                  /\ j.scope \in [DOMAIN j.scope -> Snapshots]

TypeOK ==
  /\ GraphTyped /\ SessionsTyped
  /\ file \in [Artifacts -> Contents]
  /\ DOMAIN judged \subseteq Ids
  /\ \A n \in DOMAIN judged : /\ DOMAIN judged[n] \subseteq Ids
                              /\ judged[n] \in [DOMAIN judged[n] -> Obligations]
  /\ failed \subseteq Ids \X Tests

\* What closes a node is a review of it as it is: in whatever order nodes were
\* amended, observed and reviewed, some review evaluated the contract and tests
\* that the node has now, and was recorded after the node's latest observation.
\* A gate closes itself, and an integration node by what is below it.
ClosedAsReviewed ==
  \A n \in Closed(node) :
     \/ node[n].gate = "review" \/ node[n].role = "integration_acceptance"
     \/ \E r \in DOMAIN judged :
          /\ n \in DOMAIN judged[r] /\ judged[r][n] = Obligation(node, n)
          /\ node[r].obs.seq > node[n].obs.seq

\* "a later contract change stales the review" (Record): when what an observed
\* node owes changes, no review above it is GREEN any more, however deep it is
\* nested, and whether or not its observation has a reviewed set.
ContractChangeStales ==
  [][\A n \in DOMAIN node : \A r \in DOMAIN node :
       /\ node[n].obs # None /\ Obligation(node', n) # Obligation(node, n)
       /\ node[r].gate = "review" /\ n \in DependencyClosure(node, r) \ {r}
       => Derive(node')[r].state # "GREEN"]_node

\* An amendment takes GREEN from the review it comes from, also when it only
\* adds a node and when the review is from before reviewed sets.
AmendmentStalesItsReview ==
  [][\A s \in Sessions : amended' # amended /\ pc[s] = "write" /\ pc'[s] # "write" =>
       Derive(node')[job[s].gate].state # "GREEN"]_amended

\* A node that passes at its present revision has been seen to fail each
\* hazard-discharging test it declares, by the proof it declares now: no
\* amendment carries over the red of another proof.
RedBeforeGreen ==
  \A n \in DOMAIN node :
     LET v == node[n].obs
     IN  v # None /\ v.result = "pass" /\ v.rev = node[n].rev =>
           \A t \in node[n].tests : t.hazard => <<n, t>> \in failed

\* "One review artifact supplies evidence once": of the observations a graph
\* has, no two are of one report, whoever recorded them and when.
EvidenceOnce ==
  \A m, n \in DOMAIN node :
     /\ m # n /\ node[m].obs # None /\ node[n].obs # None /\ node[m].obs.report # None
     => node[m].obs.report # node[n].obs.report

\* An amendment leaves the contract of a node alone that somebody else has
\* claimed, though the claims were read when it was planned.
ClaimedContractsKept ==
  [][\A s \in Sessions : amended' # amended /\ pc[s] = "write" /\ pc'[s] # "write" =>
       \A n \in DOMAIN node :
         HeldByOther(n, Name[s]) => Obligation(node', n) = Obligation(node, n)]_amended

(***************************************************************************)
(* The strengthening that makes the invariants inductive.                  *)
(***************************************************************************)
\* An amendment past its evaluation is still one of the graph it was read from.
AmendmentsPlanned ==
  \A s \in Sessions : pc[s] \in {"recheck", "write"} =>
     LET base == job[s].base[1]
     IN  /\ base[job[s].gate].gate = "review"
         /\ Plannable(base, job[s].gate, job[s].report)
         /\ Compiles(Amended(base, job[s].gate, job[s].report))

\* Nothing is observed at a revision to come, nor a red without an observation.
ObservedRevisions ==
  \A n \in DOMAIN node : IF node[n].obs = None THEN node[n].red = {}
                         ELSE node[n].obs.rev <= node[n].rev

\* A recorded red is one of the very test that is declared now.
RedsAreProofs ==
  \A n \in DOMAIN node : \A t \in node[n].tests :
     t.id \in node[n].red => <<n, t>> \in failed

\* Every observation has a sequence number of its own; what is older than a
\* review without a reviewed set is of the first revision.
ObservationsOrdered ==
  \A n \in DOMAIN node : node[n].obs # None =>
    /\ node[n].obs.seq <= seq
    /\ \A m \in DOMAIN node : m # n /\ node[m].obs # None =>
         /\ node[m].obs.seq # node[n].obs.seq
         /\ node[n].gate = "review" /\ node[n].obs.reviewed = None
            /\ node[m].obs.seq < node[n].obs.seq => node[m].obs.rev = 1

\* A review binds no revision to come, and evaluates what is below it.
ReviewsLookDown ==
  /\ \A n \in DOMAIN node : node[n].obs # None =>
       LET reviewed == node[n].obs.reviewed
       IN  reviewed # None => /\ DOMAIN reviewed \subseteq DOMAIN node
                              /\ \A m \in DOMAIN reviewed : reviewed[m] <= node[m].rev
  /\ \A n \in DOMAIN judged :
       /\ n \in DOMAIN node /\ node[n].gate = "review" /\ node[n].obs # None
       /\ DOMAIN judged[n] \subseteq DependencyClosure(node, n) \ {n}

\* The contract of m is still at the revision that review r binds.
Binds(r, m) ==
  LET reviewed == node[r].obs.reviewed
  IN  IF reviewed = None THEN m \in DependencyClosure(node, r) /\ node[m].rev = 1
                         ELSE m \in DOMAIN reviewed /\ node[m].rev = reviewed[m]

\* Review r, or one below it, evaluated m as it is, after m was observed.
Vouched(r, m) ==
  \E q \in DOMAIN judged \cap ({r} \cup DependencyClosure(node, r)) :
    /\ m \in DOMAIN judged[q] /\ judged[q][m] = Obligation(node, m)
    /\ node[q].obs.seq > node[m].obs.seq

\* What a review binds has been evaluated: by it, or by a review below it that
\* was current when it left m out of its own scope.
BoundIsVouched ==
  \A r, m \in DOMAIN node :
     /\ node[r].gate = "review" /\ node[m].gate = "tests"
     /\ node[r].obs # None /\ node[m].obs # None
     /\ node[m].obs.seq < node[r].obs.seq /\ node[m].obs.rev = node[m].rev
     /\ Binds(r, m)
     => Vouched(r, m)

\* An amendment below an old review gives it nothing to answer for that it
\* was recorded after: all of that was below it already.
LegacyReviewsCover ==
  \A r, m \in DOMAIN node :
     /\ node[r].gate = "review" /\ node[m].gate = "tests"
     /\ node[r].obs # None /\ node[m].obs # None
     /\ node[r].obs.reviewed = None /\ node[m].obs.seq < node[r].obs.seq
     => m \in DependencyClosure(node, r)

Ordered  == ObservationsOrdered /\ ReviewsLookDown
Evidence == Ordered /\ BoundIsVouched /\ LegacyReviewsCover

\* Where it holds: no earlier review left aside work that was done before it.
\* An amendment that brings such work below the review would have it closed,
\* reviewed by nobody, until the new node is observed: AmendWrite pins the
\* reviewed set of its own gate, and of no other.
LegacyIsWhole ==
  \A e \in Earlier : \A r, m \in DOMAIN e.at :
     Plan[r].gate = "review" /\ Plan[m].gate = "tests" /\ e.at[m] < e.at[r]
     => m \in DependencyClosure(Plan, r)

\* An amendment past its evaluation is of open findings, on contracts that
\* nobody else had claimed in the graph it was read from.
AmendmentsDue ==
  \A s \in Sessions : pc[s] \in {"recheck", "write"} =>
    LET held == job[s].base[2]
    IN  /\ ~Aligned(job[s].report)
        /\ \A m \in DOMAIN job[s].report.revise : held[m] = None \/ held[m] = Name[s]

IInv == /\ TypeOK /\ AmendmentsPlanned /\ EvidenceOnce
        /\ ObservedRevisions /\ RedsAreProofs /\ RedBeforeGreen
=============================================================================
