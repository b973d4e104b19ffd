----------------------------- MODULE GraphWalk -----------------------------
(***************************************************************************)
(* The walk over one plan graph: internal/graph/claims (claim, renew,      *)
(* expire, release), internal/graph/sync (sync, reverify), set-tests,      *)
(* set-artifacts and gc of internal/graph/ops, the workspaces of           *)
(* internal/graph/provider, and the commands of cmd/sdd that call them.    *)
(*                                                                         *)
(* A session runs one command at a time.  A read of the graph file is one  *)
(* step and gstore.Update is one step (ArtifactStore shows it atomic),     *)
(* except where the update's fn leaves something behind when its write     *)
(* collides: the confirm step of a claim.  Between those steps, and        *)
(* between them and the steps on the workspaces, other sessions run.       *)
(*                                                                         *)
(* The graph is node (contracts and observations), claim and seq; the      *)
(* workspace of node n is the directory dir[n].  Time is the set lapsed of *)
(* claims whose lease has run out.  A report says pass or fail for some    *)
(* test ids.  judged and failed are history: what the latest observation   *)
(* was evaluated against, and which tests a node has been seen to fail.    *)
(***************************************************************************)
EXTENDS GraphContracts

CONSTANTS Nodes, Deps, Paths,   \* the plan: ids, dependencies, write-sets
          Tests,                \* [id, proof, hazard]: a test and its proof
          Gates,                \* the test lists a gate may have
          Reports,              \* [SUBSET ids -> {"pass", "fail"}]
          Sessions, Name,       \* who runs commands, and under which --by
          Isolated,             \* git worktrees, or one shared tree
          Capacity,             \* provider.Capacity
          ClaimAttempts,        \* claimAttempts (8 in the code)
          UpdateAttempts,       \* updateAttempts (16 in the code)
          Commands,             \* bound: the commands sessions use
          MaxSeq, MaxRev, MaxClaims, MaxCrashes,  \* bounds
          WriteSets             \* bound: the write-sets a node may be given

TestIds   == {t.id : t \in Tests}
Instances == Sessions \X (1 .. MaxClaims)

Names     == {Name[s] : s \in Sessions}
Results   == {"pass", "fail"}

Observation == [result : Results, seq : 1 .. MaxSeq, rev : 1 .. MaxRev, clean : BOOLEAN,
                report : Reports, reviewed : {None}]
NodeRecord  == [deps : SUBSET Nodes, paths : WriteSets, gate : {"tests"}, full : {FALSE},
                role : {"implementation"}, rev : 1 .. MaxRev, tests : Gates,
                red : SUBSET TestIds, obs : {None} \cup Observation]
ClaimRecord == [by : Names, inst : Instances]
Claims      == [Nodes -> {None} \cup ClaimRecord]
Worktree    == [inst : Instances, work : {"none", "dirty", "committed"}]

ASSUME WalkAssumption ==
  /\ IsFiniteSet(Nodes)
  /\ Deps \in [Nodes -> SUBSET Nodes]
  /\ Paths \in [Nodes -> WriteSets]
  /\ Gates \subseteq (SUBSET Tests) \ {{}}
  /\ \A g \in Gates : \A t, u \in g : t.id = u.id => t = u   \* "declared twice"
  /\ \A r \in Reports : DOMAIN r \subseteq TestIds /\ \A i \in DOMAIN r : r[i] \in Results
  /\ Isolated \in BOOLEAN
  /\ Capacity \in Nat /\ ClaimAttempts \in Nat /\ UpdateAttempts \in Nat
  /\ MaxSeq \in Nat /\ MaxRev \in Nat \ {0} /\ MaxClaims \in Nat /\ MaxCrashes \in Nat

ASSUME NoneAssumption ==
  None \notin Nodes \cup Names \cup Observation \cup ClaimRecord \cup Worktree

VARIABLES node, claim, seq,     \* the graph file
          lapsed,               \* claim instances whose lease has run out
          dir,                  \* dir[n]: None or the worktree for n
          pc, job,              \* the step each session is at, and its data
          drawn,                \* claim instances each session has drawn
          crashes,
          told,                 \* instances whose claimant was told of them
          dead,                 \* instances whose claimant was killed
          judged, failed        \* history

graph  == <<node, claim, seq>>
record == <<judged, failed>>
vars   == <<node, claim, seq, lapsed, dir, pc, job, drawn, crashes, told, dead,
            judged, failed>>

NoJob == [node |-> None, base |-> None, new |-> None, raced |-> FALSE,
          tries |-> 0, hits |-> 0, eval |-> None, report |-> None,
          todo |-> {}, active |-> {}]

Init ==
  /\ \E tests \in [Nodes -> Gates] :
       node = [n \in Nodes |-> [deps |-> Deps[n], paths |-> Paths[n], gate |-> "tests",
                                full |-> FALSE, role |-> "implementation", rev |-> 1,
                                tests |-> tests[n], red |-> {}, obs |-> None]]
  /\ claim   = [n \in Nodes |-> None]
  /\ seq     = 0
  /\ lapsed  = {}
  /\ dir     = [n \in Nodes |-> None]
  /\ pc      = [s \in Sessions |-> "idle"]
  /\ job     = [s \in Sessions |-> NoJob]
  /\ drawn   = [s \in Sessions |-> 0]
  /\ crashes = 0
  /\ told = {} /\ dead = {}
  /\ judged  = [n \in Nodes |-> None]
  /\ failed  = {}

Goto(s, l)    == pc' = [pc EXCEPT ![s] = l]
Finish(s)     == Goto(s, "idle") /\ job' = [job EXCEPT ![s] = NoJob]
Starts(s, c)  == pc[s] = "idle" /\ c \in Commands

MyInstance(s) == <<s, drawn[s]>>

Claimed(cl)    == {n \in Nodes : cl[n] # None}
Expired(cl)    == [n \in Nodes |->
                     IF cl[n] # None /\ cl[n].inst \in lapsed THEN None ELSE cl[n]]
HeldBy(n, by)  == claim[n] # None /\ claim[n].by = by
HeldByOther(n, by) == claim[n] # None /\ claim[n].by # by

-----------------------------------------------------------------------------
(***************************************************************************)
(* claims.go: select, confirm in a compare-and-swap cycle, allocate.       *)
(***************************************************************************)
\* Mutant: write-sets are not compared.
SelectableAnyPath(cl) ==
  {n \in Nodes \ Claimed(cl) : /\ Cardinality(Claimed(cl)) < Capacity
                               /\ Derive(node)[n].frontier}

Selectable(cl) ==
  LET st == Derive(node)
  IN  {n \in Nodes \ Claimed(cl) :
         /\ Cardinality(Claimed(cl)) < Capacity
         /\ st[n].frontier
         /\ \A m \in Claimed(cl) : node[n].paths \cap node[m].paths = {}}

\* claim and ClaimNode: a candidate of the graph as it is now, and a fresh
\* instance to name the claim by.
SelectFor(s, tries) ==
  /\ drawn[s] < MaxClaims
  /\ drawn' = [drawn EXCEPT ![s] = @ + 1]
  /\ \E n \in Selectable(Expired(claim)) :
       job' = [job EXCEPT ![s] = [NoJob EXCEPT !.node = n, !.tries = tries]]
  /\ Goto(s, "confirm")
  /\ UNCHANGED <<graph, lapsed, dir, crashes, told, dead, record>>

\* Begun only while every attempt could still draw an instance.
ClaimBegin(s) ==
  Starts(s, "claim") /\ drawn[s] + ClaimAttempts <= MaxClaims /\ SelectFor(s, 0)
ClaimAgain(s) == pc[s] = "select" /\ SelectFor(s, job[s].tries)
ClaimRefused(s) ==
  /\ pc[s] = "select"
  /\ Selectable(Expired(claim)) = {}
  /\ Finish(s)
  /\ UNCHANGED <<graph, lapsed, dir, drawn, crashes, told, dead, record>>

\* Mutant: the confirm step only checks that nobody has claimed the node.
ConfirmUnclaimed(s) ==
  LET n  == job[s].node
      cl == Expired(claim)
      ok == cl[n] = None /\ Cardinality(Claimed(cl)) < Capacity
  IN  /\ pc[s] = "confirm"
      /\ job' = [job EXCEPT
           ![s].base  = graph,
           ![s].new   = IF ok THEN [cl EXCEPT ![n] = [by |-> Name[s], inst |-> MyInstance(s)]]
                        ELSE cl,
           ![s].raced = @ \/ ~ok]
      /\ Goto(s, "write")
      /\ UNCHANGED <<graph, lapsed, dir, drawn, crashes, told, dead, record>>

\* The update's fn on a fresh read.  raced is set outside of it and stays set.
Confirm(s) ==
  LET n  == job[s].node
      cl == Expired(claim)
      ok == n \in Selectable(cl)
  IN  /\ pc[s] = "confirm"
      /\ job' = [job EXCEPT
           ![s].base  = graph,
           ![s].new   = IF ok THEN [cl EXCEPT ![n] = [by |-> Name[s], inst |-> MyInstance(s)]]
                        ELSE cl,
           ![s].raced = @ \/ ~ok]
      /\ Goto(s, "write")
      /\ UNCHANGED <<graph, lapsed, dir, drawn, crashes, told, dead, record>>

\* ValidateCandidate: a required input of the candidate does not resolve.
ConfirmInvalid(s) ==
  /\ pc[s] = "confirm"
  /\ job[s].node \in Selectable(Expired(claim))
  /\ Finish(s)
  /\ UNCHANGED <<graph, lapsed, dir, drawn, crashes, told, dead, record>>

\* The write of that update; raced is read once it has landed.
ConfirmWrite(s) ==
  /\ pc[s] = "write"
  /\ graph = job[s].base
  /\ claim' = job[s].new
  /\ IF ~job[s].raced THEN Goto(s, "allocate") /\ UNCHANGED job
     ELSE IF job[s].tries + 1 < ClaimAttempts
       THEN Goto(s, "select") /\ job' = [job EXCEPT ![s].tries = @ + 1]
       ELSE Finish(s)
  /\ UNCHANGED <<node, seq, lapsed, dir, drawn, crashes, told, dead, record>>

ConfirmCollides(s) ==
  /\ pc[s] = "write"
  /\ graph # job[s].base
  /\ IF job[s].hits + 1 < UpdateAttempts
       THEN Goto(s, "confirm") /\ job' = [job EXCEPT ![s].hits = @ + 1,
                                                     ![s].base = None, ![s].new = None]
       ELSE Finish(s)
  /\ UNCHANGED <<graph, lapsed, dir, drawn, crashes, told, dead, record>>

\* Mutant: a worktree that is already there is taken over.
AllocateReuses(s) ==
  LET n == job[s].node
  IN  /\ pc[s] = "allocate"
      /\ dir' = IF Isolated /\ dir[n] = None
                  THEN [dir EXCEPT ![n] = [inst |-> MyInstance(s), work |-> "none"]]
                  ELSE dir
      /\ told' = told \cup {MyInstance(s)}
      /\ Finish(s)
      /\ UNCHANGED <<graph, lapsed, drawn, crashes, dead, record>>

\* provider.Allocate: a worktree, unless one is there; nothing in a shared tree.
Allocate(s) ==
  LET n == job[s].node
  IN  /\ pc[s] = "allocate"
      /\ IF ~Isolated THEN UNCHANGED dir
         ELSE /\ dir[n] = None
              /\ dir' = [dir EXCEPT ![n] = [inst |-> MyInstance(s), work |-> "none"]]
      /\ told' = told \cup {MyInstance(s)}
      /\ Finish(s)
      /\ UNCHANGED <<graph, lapsed, drawn, crashes, dead, record>>

\* A leftover worktree is never reused; and git itself may fail.
AllocateFails(s) ==
  /\ pc[s] = "allocate"
  /\ Isolated
  /\ Goto(s, "rollback")
  /\ UNCHANGED <<graph, lapsed, dir, job, drawn, crashes, told, dead, record>>

\* Mutant: whatever claim is on the node is rolled back.
RollbackAny(s) ==
  /\ pc[s] = "rollback"
  /\ claim' = [claim EXCEPT ![job[s].node] = None]
  /\ Finish(s)
  /\ UNCHANGED <<node, seq, lapsed, dir, drawn, crashes, told, dead, record>>

\* Roll back our own claim only: By and Instance both match.
Rollback(s) ==
  LET n == job[s].node
  IN  /\ pc[s] = "rollback"
      /\ claim' = IF HeldBy(n, Name[s]) /\ claim[n].inst = MyInstance(s)
                    THEN [claim EXCEPT ![n] = None] ELSE claim
      /\ Finish(s)
      /\ UNCHANGED <<node, seq, lapsed, dir, drawn, crashes, told, dead, record>>

-----------------------------------------------------------------------------
(***************************************************************************)
(* `sdd graph release`: the claim first, then its workspace if idle.       *)
(***************************************************************************)
Release(s, n, force) ==
  /\ Starts(s, "release")
  /\ claim[n] # None
  /\ HeldBy(n, Name[s]) \/ (force /\ "force" \in Commands)
  /\ claim' = [claim EXCEPT ![n] = None]
  /\ IF Isolated THEN Goto(s, "idlecheck") /\ job' = [job EXCEPT ![s].node = n]
                 ELSE UNCHANGED <<pc, job>>
  /\ UNCHANGED <<node, seq, lapsed, dir, drawn, crashes, told, dead, record>>

\* IdleWorkspace: nothing uncommitted and nothing unmerged.
CheckIdle(s) ==
  LET n == job[s].node
  IN  /\ pc[s] = "idlecheck"
      /\ IF dir[n] # None /\ dir[n].work = "none"
           THEN Goto(s, "teardown") /\ UNCHANGED job
           ELSE Finish(s)
      /\ UNCHANGED <<graph, lapsed, dir, drawn, crashes, told, dead, record>>

\* provider.Release: `git worktree remove --force` of whatever is at the path.
Teardown(s) ==
  /\ pc[s] = "teardown"
  /\ dir' = [dir EXCEPT ![job[s].node] = None]
  /\ Finish(s)
  /\ UNCHANGED <<graph, lapsed, drawn, crashes, told, dead, record>>

-----------------------------------------------------------------------------
(***************************************************************************)
(* sync.go: evaluate a report against a read of the graph, then publish.   *)
(***************************************************************************)
Snapshot(n) == [rev |-> node[n].rev, tests |-> node[n].tests, paths |-> node[n].paths]

GateIds(n)        == {t.id : t \in node[n].tests}
Resolved(n, r)    == GateIds(n) \subseteq DOMAIN r
FailedIds(n, r)   == {i \in GateIds(n) : r[i] = "fail"}
Outcome(n, r)     == IF FailedIds(n, r) = {} THEN "pass" ELSE "fail"
SameObservation(n, r) ==
  node[n].obs # None /\ node[n].obs.rev = node[n].rev /\ node[n].obs.report = r

\* In a worktree an observation is isolated; in the shared tree it is while
\* at most one claim is active.
IsolationClean(handle) == handle \/ Cardinality(Claimed(claim)) <= 1

\* Run up to the publication; by is None for reverify.
Evaluable(n, r, by) ==
  LET handle == Isolated /\ claim[n] # None
  IN  /\ ~HeldByOther(n, by)
      /\ Resolved(n, r)
      /\ by = None \/ ~SameObservation(n, r)
      /\ handle => dir[n] # None
      /\ Outcome(n, r) = "pass" => RedSeen(node, n) /\ (handle => dir[n].work # "dirty")

Evaluation(n, r, by) ==
  LET handle == Isolated /\ claim[n] # None
  IN  [snap   |-> Snapshot(n), handle |-> handle, report |-> r, by |-> by,
       result |-> Outcome(n, r), red |-> FailedIds(n, r), clean |-> IsolationClean(handle),
       inst   |-> IF claim[n] = None THEN None ELSE claim[n].inst]

Sync(s, n, r) ==
  /\ Starts(s, "sync")
  /\ Evaluable(n, r, Name[s])
  /\ job' = [job EXCEPT ![s].node = n, ![s].eval = Evaluation(n, r, Name[s])]
  /\ Goto(s, "publish")
  /\ UNCHANGED <<graph, lapsed, dir, drawn, crashes, told, dead, record>>

\* Mutants: only the claim, or only the obligation, is compared.
FencedByClaim(n, e) == ~HeldByOther(n, e.by) /\ (Isolated /\ claim[n] # None) = e.handle
FencedBySnapshot(n, e) == Snapshot(n) = e.snap

\* The claim is whose it was, and the obligation and workspace what they were.
Fenced(n, e) ==
  /\ ~HeldByOther(n, e.by)
  /\ Snapshot(n) = e.snap
  /\ (Isolated /\ claim[n] # None) = e.handle

Historical(n, e) == e.by # None /\ ~HeldByOther(n, e.by) /\ SameObservation(n, e.report)

\* After a publication or a refusal: back to the batch, or done.
Resume(s) ==
  IF job[s].eval.by = None
    THEN Goto(s, "reverify") /\ job' = [job EXCEPT ![s].node = None, ![s].eval = None]
    ELSE Finish(s)

Merges(n, e) == HeldBy(n, e.by) /\ e.result = "pass" /\ e.clean

\* fn of the publishing update; a merge clears the claim, else it is renewed.
Publish(s) ==
  LET n == job[s].node
      e == job[s].eval
  IN  /\ pc[s] = "publish"
      /\ Fenced(n, e) /\ ~Historical(n, e)
      /\ seq < MaxSeq
      /\ seq' = seq + 1
      /\ node' = [node EXCEPT
           ![n].obs = [result |-> e.result, seq |-> seq + 1, rev |-> node[n].rev,
                       clean |-> e.clean, report |-> e.report, reviewed |-> None],
           ![n].red = @ \cup e.red]
      /\ IF Merges(n, e)
           THEN claim' = [claim EXCEPT ![n] = None] /\ UNCHANGED lapsed
           ELSE /\ lapsed' = IF HeldBy(n, e.by) THEN lapsed \ {claim[n].inst} ELSE lapsed
                /\ UNCHANGED claim
      /\ judged' = [judged EXCEPT ![n] = e.snap]
      /\ failed' = failed \cup {<<n, t>> : t \in {u \in e.snap.tests : u.id \in e.red}}
      /\ IF Merges(n, e) /\ e.handle
           THEN Goto(s, "teardown") /\ job' = [job EXCEPT ![s].eval = None]
           ELSE Resume(s)
      /\ UNCHANGED <<dir, drawn, crashes, told, dead>>

PublishRefused(s) ==
  LET n == job[s].node
      e == job[s].eval
  IN  /\ pc[s] = "publish"
      /\ ~Fenced(n, e) \/ Historical(n, e) \/ seq = MaxSeq
      /\ Resume(s)
      /\ UNCHANGED <<graph, lapsed, dir, drawn, crashes, told, dead, record>>

\* reverify.go: one report against every node not claimed when the batch
\* began, dependencies first.
ReverifyBegin(s, r) ==
  /\ Starts(s, "reverify")
  /\ TopoSort(node) = Nodes   \* the cycle preflight
  /\ job' = [job EXCEPT ![s].todo = TopoSort(node) \ Claimed(claim), ![s].report = r]
  /\ Goto(s, "reverify")
  /\ UNCHANGED <<graph, lapsed, dir, drawn, crashes, told, dead, record>>

\* Mutant: a node whose evaluation is refused stays on the list.
ReverifyNodeStuck(s, n) ==
  LET r == job[s].report
  IN  /\ pc[s] = "reverify"
      /\ n \in job[s].todo
      /\ DependencyClosure(node, n) \cap job[s].todo = {}
      /\ Evaluable(n, r, None)
      /\ job' = [job EXCEPT ![s].node = n, ![s].todo = @ \ {n},
                            ![s].eval = Evaluation(n, r, None)]
      /\ Goto(s, "publish")
      /\ UNCHANGED <<graph, lapsed, dir, drawn, crashes, told, dead, record>>

ReverifyNode(s, n) ==
  LET r    == job[s].report
      rest == job[s].todo \ {n}
  IN  /\ pc[s] = "reverify"
      /\ n \in job[s].todo
      /\ DependencyClosure(node, n) \cap job[s].todo = {}
      /\ IF Evaluable(n, r, None)
           THEN /\ job' = [job EXCEPT ![s].node = n, ![s].todo = rest,
                                      ![s].eval = Evaluation(n, r, None)]
                /\ Goto(s, "publish")
           ELSE /\ job' = [job EXCEPT ![s].todo = rest]
                /\ UNCHANGED pc
      /\ UNCHANGED <<graph, lapsed, dir, drawn, crashes, told, dead, record>>

ReverifyEnd(s) ==
  /\ pc[s] = "reverify"
  /\ job[s].todo = {}
  /\ Finish(s)
  /\ UNCHANGED <<graph, lapsed, dir, drawn, crashes, told, dead, record>>

-----------------------------------------------------------------------------
(***************************************************************************)
(* ops.go: changes to what a node owes.                                    *)
(***************************************************************************)
\* A test that is the same record has the same testProofKey.
SetTests(s, n, new) ==
  LET seen == node[n].obs # None
  IN  /\ Starts(s, "settests")
      /\ ~HeldByOther(n, Name[s])
      /\ new # node[n].tests \/ (seen /\ Cardinality(new) > 1)   \* or reordered
      /\ seen => node[n].rev < MaxRev
      /\ node' = WithTests(node, n, new)
      /\ UNCHANGED <<claim, seq, lapsed, dir, pc, job, drawn, crashes, told, dead, record>>

SetArtifacts(s, n, new) ==
  LET seen == node[n].obs # None
  IN  /\ Starts(s, "setartifacts")
      /\ ~HeldByOther(n, Name[s])
      /\ new \notin {{}, node[n].paths}
      /\ seen => node[n].rev < MaxRev
      /\ node' = [node EXCEPT ![n].paths = new,
                              ![n].rev   = IF seen THEN @ + 1 ELSE @]
      /\ UNCHANGED <<claim, seq, lapsed, dir, pc, job, drawn, crashes, told, dead, record>>

-----------------------------------------------------------------------------
(***************************************************************************)
(* GC: expire, read the claims, list the workspaces, reap them one by one. *)
(***************************************************************************)
GCExpire(s) ==
  /\ Starts(s, "gc")
  /\ claim' = Expired(claim)
  /\ Goto(s, "gcload")
  /\ UNCHANGED <<node, seq, lapsed, dir, job, drawn, crashes, told, dead, record>>

GCLoad(s) ==
  /\ pc[s] = "gcload"
  /\ job' = [job EXCEPT ![s].active = IF Isolated THEN Claimed(claim) ELSE {}]
  /\ Goto(s, "gclist")
  /\ UNCHANGED <<graph, lapsed, dir, drawn, crashes, told, dead, record>>

GCList(s) ==
  /\ pc[s] = "gclist"
  /\ job' = [job EXCEPT ![s].todo = {n \in Nodes : dir[n] # None}]
  /\ Goto(s, "gcreap")
  /\ UNCHANGED <<graph, lapsed, dir, drawn, crashes, told, dead, record>>

\* provider.Release and, if the directory is still there, RemoveAll.
GCReap(s, n) ==
  /\ pc[s] = "gcreap"
  /\ n \in job[s].todo
  /\ job' = [job EXCEPT ![s].todo = @ \ {n}]
  /\ dir' = IF n \in job[s].active THEN dir ELSE [dir EXCEPT ![n] = None]
  /\ UNCHANGED <<graph, lapsed, pc, drawn, crashes, told, dead, record>>

GCEnd(s) ==
  /\ pc[s] = "gcreap"
  /\ job[s].todo = {}
  /\ Finish(s)
  /\ UNCHANGED <<graph, lapsed, dir, drawn, crashes, told, dead, record>>

-----------------------------------------------------------------------------
(***************************************************************************)
(* Around the commands: time, the workers, and death.                      *)
(***************************************************************************)
LeaseLapses(n) ==
  /\ claim[n] # None
  /\ lapsed' = lapsed \cup {claim[n].inst}
  /\ UNCHANGED <<graph, dir, pc, job, drawn, crashes, told, dead, record>>

\* Somebody works in the worktree at n's path: edits, commits, merges.
WorkerWorks(n) ==
  /\ dir[n] # None
  /\ \E w \in {"none", "dirty", "committed"} \ {dir[n].work} :
       /\ w = "none" => dir[n].work = "committed"
       /\ dir' = [dir EXCEPT ![n].work = w]
  /\ UNCHANGED <<graph, lapsed, pc, job, drawn, crashes, told, dead, record>>

Crash(s) ==
  /\ pc[s] # "idle"
  /\ crashes < MaxCrashes
  /\ crashes' = crashes + 1
  /\ dead' = dead \cup {MyInstance(s)}
  /\ Finish(s)
  /\ UNCHANGED <<graph, lapsed, dir, drawn, told, record>>

(* The commands of cmd/sdd/graph.go: the flags choose, one operation does it. *)

\* next --claim, once it has selected a node; what it prints of the node's
\* inputs and citations is left out.
ClaimStep(s) == \/ ClaimAgain(s) \/ ClaimRefused(s) \/ Confirm(s) \/ ConfirmInvalid(s)
                \/ ConfirmWrite(s) \/ ConfirmCollides(s)
                \/ Allocate(s) \/ AllocateFails(s) \/ Rollback(s)
SyncStep(s)  == \/ Publish(s) \/ PublishRefused(s) \/ ReverifyEnd(s)
                \/ \E n \in Nodes : ReverifyNode(s, n)
GCStep(s)    == \/ GCLoad(s) \/ GCList(s) \/ GCEnd(s)
                \/ \E n \in Nodes : GCReap(s, n)
\* release removes an idle workspace itself, after the claim is gone.
ReleaseStep(s) == CheckIdle(s) \/ Teardown(s)
ReapStep(s)  == ReleaseStep(s) \/ GCStep(s)
Step(s)      == ClaimStep(s) \/ SyncStep(s) \/ ReapStep(s)

\* A report is read before anything of the graph is; the views that
\* set-artifacts renders at its end are GraphViews'.
SyncCommand(s)         == \E n \in Nodes : \E r \in Reports : Sync(s, n, r)
ReverifyCommand(s)     == \E r \in Reports : ReverifyBegin(s, r)
SetTestsCommand(s)     == \E n \in Nodes : \E new \in Gates : SetTests(s, n, new)
SetArtifactsCommand(s) == \E n \in Nodes : \E new \in WriteSets : SetArtifacts(s, n, new)

Begin(s) == \/ ClaimBegin(s) \/ GCExpire(s)
            \/ \E n \in Nodes : \E force \in BOOLEAN : Release(s, n, force)
            \/ SyncCommand(s) \/ ReverifyCommand(s)
            \/ SetTestsCommand(s) \/ SetArtifactsCommand(s)

Next == \/ \E s \in Sessions : Begin(s) \/ Step(s) \/ Crash(s)
        \/ \E n \in Nodes : LeaseLapses(n) \/ WorkerWorks(n)

Spec == Init /\ [][Next]_vars

\* A command that has begun keeps being scheduled.
FairSpec == Spec /\ \A s \in Sessions : WF_vars(Step(s))

-----------------------------------------------------------------------------
(***************************************************************************)
(* Properties.                                                             *)
(***************************************************************************)
Snapshots   == [rev : 1 .. MaxRev, tests : Gates, paths : WriteSets]
Evaluations == [snap : Snapshots, handle : BOOLEAN, report : Reports,
                by : {None} \cup Names, result : Results, red : SUBSET TestIds,
                clean : BOOLEAN, inst : {None} \cup Instances]
Job == [node : {None} \cup Nodes,
        base : {None} \cup ([Nodes -> NodeRecord] \X Claims \X (0 .. MaxSeq)),
        new : {None} \cup Claims, raced : BOOLEAN, tries : Nat, hits : Nat,
        eval : {None} \cup Evaluations, report : {None} \cup Reports,
        todo : SUBSET Nodes, active : SUBSET Nodes]
ClaimSteps == {"confirm", "write", "allocate", "rollback"}
PCs == ClaimSteps \cup {"idle", "select", "idlecheck", "teardown", "publish", "reverify",
                        "gcload", "gclist", "gcreap"}

TypeOK ==
  /\ node \in [Nodes -> NodeRecord]
  /\ claim \in Claims
  /\ seq \in 0 .. MaxSeq
  /\ lapsed \subseteq Instances
  /\ dir \in [Nodes -> {None} \cup Worktree]
  /\ pc \in [Sessions -> PCs]
  /\ job \in [Sessions -> Job]
  /\ drawn \in [Sessions -> 0 .. MaxClaims]
  /\ crashes \in 0 .. MaxCrashes
  /\ told \subseteq Instances
  /\ judged \in [Nodes -> {None} \cup Snapshots]
  /\ failed \subseteq Nodes \X Tests

\* What an observation of the current revision vouches for is the present
\* obligation: the tests and write-set its report was evaluated against are
\* the node's own, whatever was edited while the report was evaluated.
ObservationsMatchContract ==
  \A n \in Nodes : node[n].obs # None /\ node[n].obs.rev = node[n].rev =>
     judged[n] = Snapshot(n)

\* The hazard-discharging tests of a node that passes at its present revision,
\* as they are declared now, have each been seen to fail on it: a red of an
\* earlier proof does not count, whatever carried it over.
RedBeforeGreen ==
  \A n \in Nodes :
     LET v == node[n].obs
     IN  v # None /\ v.result = "pass" /\ v.rev = node[n].rev =>
           \A t \in node[n].tests : t.hazard => <<n, t>> \in failed

\* Never more claims than the provider sustains workspaces.
WithinCapacity == Cardinality(Claimed(claim)) <= Capacity

\* No two claimed nodes write one path.
ClaimedPathsDisjoint ==
  \A m, n \in Claimed(claim) : m # n => node[m].paths \cap node[n].paths = {}

\* A claim whose lease runs is ended by a session of the name that holds it, and
\* by nobody else, as long as nobody forces a release.
LiveClaimsKept ==
  [][\A n \in Nodes :
       LET c == claim[n]
       IN  c # None /\ c.inst \notin lapsed /\ c # claim'[n] =>
             claim'[n] = None /\ \E s \in Sessions : Name[s] = c.by /\ pc'[s] # pc[s]]_claim

\* A node is claimed only while it is workable with its dependencies GREEN: the
\* confirm step judges the graph it writes to, not the one it selected from.
ClaimsOnFrontier ==
  [][\A n \in Nodes : claim'[n] # None /\ claim'[n] # claim[n] => n \in Frontier(node)]_claim

\* "a stale claim cannot sync": what was evaluated under one claim of a node is
\* not published once that claim has ended.
PublishesUnderItsClaim ==
  [][\A s \in Sessions :
       LET e == job[s].eval
       IN  pc[s] = "publish" /\ pc'[s] # "publish" /\ e.inst # None =>
             LET n == job[s].node IN claim[n] # None /\ claim[n].inst = e.inst]_seq

\* Who was told of a claim that still stands has the node's worktree, and it is
\* the one made for that claim.
ClaimantHasWorktree ==
  Isolated => \A n \in Claimed(claim) : claim[n].inst \in told =>
     dir[n] # None /\ dir[n].inst = claim[n].inst

\* Every command returns: races and collisions are retried a bounded number of
\* times, and nobody waits for anybody.
CommandsEnd == \A s \in Sessions : pc[s] # "idle" ~> pc[s] = "idle"

\* A claim in the graph has somebody who knows of it: its claimant was told, or
\* is still at it, or died.  After a lost race "nothing was recorded".
EveryClaimHasClaimant ==
  \A n \in Claimed(claim) :
     LET i == claim[n].inst
     IN  \/ i \in told \cup dead
         \/ pc[i[1]] \in {"allocate", "rollback"} /\ i = MyInstance(i[1])

(***************************************************************************)
(* The strengthening that makes the invariants inductive.                  *)
(***************************************************************************)
\* What a session's data is at each step; a claim about to be written keeps
\* to the capacity whatever graph it is written over.
JobAtStep ==
  \A s \in Sessions :
     /\ pc[s] \in ClaimSteps \cup {"idlecheck", "teardown", "publish"} => job[s].node \in Nodes
     /\ pc[s] \in ClaimSteps => drawn[s] # 0
     /\ pc[s] = "write" => /\ job[s].new \in Claims
                           /\ Cardinality(Claimed(job[s].new)) <= Capacity
     /\ pc[s] = "publish" => /\ job[s].eval \in Evaluations
                             /\ job[s].eval.by = None => job[s].report \in Reports
     /\ pc[s] = "reverify" => job[s].report \in Reports

\* Nothing is observed at a revision to come, nor a red without an observation.
ObservedRevisions ==
  \A n \in Nodes : IF node[n].obs = None THEN node[n].red = {}
                   ELSE node[n].obs.rev <= node[n].rev

\* A pass under evaluation has its reds, unless the contract has moved on.
EvaluationsCurrent ==
  \A s \in Sessions : pc[s] = "publish" =>
     LET e == job[s].eval
         n == job[s].node
     IN  /\ e.snap.rev <= node[n].rev
         /\ e.result = "pass" /\ e.snap.rev = node[n].rev =>
              \A t \in e.snap.tests : t.hazard => t.id \in node[n].red

\* A recorded red is one of the very test that is declared now.
RedsAreProofs ==
  \A n \in Nodes : \A t \in node[n].tests : t.id \in node[n].red => <<n, t>> \in failed

IInv == /\ TypeOK /\ JobAtStep /\ WithinCapacity
        /\ ObservedRevisions /\ EvaluationsCurrent /\ RedsAreProofs
        /\ ObservationsMatchContract /\ RedBeforeGreen
=============================================================================
