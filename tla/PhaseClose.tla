----------------------------- MODULE PhaseClose -----------------------------
(***************************************************************************)
(* The lifecycle of a v1 plan: completion evidence, phase reviews and the  *)
(* `complete` verbs, over the Git histories of the target and planning     *)
(* repositories.  A transition verb reads its document, sweeps, writes the *)
(* candidate in place, sweeps again and then writes either the candidate   *)
(* for good or the document it found: between the two sweeps everybody     *)
(* else sees the candidate, and a verb that dies there leaves it.          *)
(*                                                                         *)
(* Bounds: MaxCommits commits per repository, MaxSrc source versions, two  *)
(* intents per document.  Histories do not move while a gate sweeps (the   *)
(* answers of one process are memoised, see vcs/cache.go).                 *)
(***************************************************************************)
EXTENDS CloseRules, Sequences

CONSTANTS MaxCommits, MaxSrc

ASSUME CloseAssumption == MaxSrc \in Nat

VARIABLES colocated,    \* whether the planning root lies in the target
          git,          \* the histories
          src,          \* the sources in the target worktree
          docs,         \* the planning documents on disk
          gate,         \* the transition being checked: none or one
          report        \* what the last transition said

vars == <<colocated, git, src, docs, gate, report>>

World == [colocated |-> colocated, git |-> git, src |-> src, docs |-> docs]
HeadAt(r) == HeadOf(World, r)
DocsRepo == PlanRepo(World)

Intents == {0, 1}
Statuses == {"planned", "complete"}

FreshDocs ==
  [phase   |-> [status |-> "planned", criteria |-> FALSE, intent |-> 0, ev |-> {},
                task |-> [t \in Tasks |-> [status |-> "planned", boxes |-> FALSE, ev |-> {}]]],
   plan    |-> [status |-> "draft", entry |-> "planned", intent |-> 0, ev |-> {}],
   reviews |-> [id \in ReviewIds |-> {}]]

FirstCommit == [anc |-> {1}, parents |-> {}, src |-> 0, docs |-> FreshDocs, touches |-> FALSE]

Init == /\ colocated \in BOOLEAN
        /\ git = [r \in Repos |-> [commits |-> <<FirstCommit>>, head |-> 1]]
        /\ src = 0
        /\ docs = FreshDocs
        /\ gate = {}
        /\ report = "none"

----------------------------------------------------------------------------
\* Git, as the people and agents around the planner use it.

Holds(r, part) == IF colocated THEN r = "target"
                  ELSE (part = "src") = (r = "target")

NewCommit(r, parents, anc, s, d) ==
  LET n == Len(git[r].commits) + 1
  IN /\ n <= MaxCommits
     /\ git' = [git EXCEPT ![r] =
          [commits |-> Append(@.commits,
              [anc |-> anc \cup {n}, parents |-> parents, src |-> s, docs |-> d,
               touches |-> \E p \in parents : At(World, r, p).src # s]),
           head |-> n]]

\* A commit of the sources, of the planning documents, or of both.
Commit(r, parts) ==
  LET h == At(World, r, HeadAt(r))
      s == IF "src" \in parts THEN src ELSE h.src
      d == IF "docs" \in parts THEN docs ELSE h.docs
  IN /\ gate = {}
     /\ \A p \in parts : Holds(r, p)
     /\ <<s, d>> # <<h.src, h.docs>>
     /\ NewCommit(r, {HeadAt(r)}, h.anc, s, d)
     /\ UNCHANGED <<colocated, src, docs, gate, report>>

\* `commit --amend` with everything in the worktree: the head is replaced by
\* a sibling, and evidence that names it names a commit outside the history.
AmendHead(r) ==
  LET h == At(World, r, HeadAt(r))
  IN /\ gate = {} /\ h.parents # {}
     /\ NewCommit(r, h.parents, h.anc \ {HeadAt(r)},
                  IF Holds(r, "src") THEN src ELSE h.src,
                  IF Holds(r, "docs") THEN docs ELSE h.docs)
     /\ UNCHANGED <<colocated, src, docs, gate, report>>

WorktreeClean(r) ==
  LET h == At(World, r, HeadAt(r))
  IN /\ Holds(r, "src") => h.src = src
     /\ Holds(r, "docs") => h.docs = docs

\* Another commit is checked out, or the branch is reset to it.
Checkout(r, c) ==
  /\ gate = {} /\ WorktreeClean(r) /\ c # HeadAt(r)
  /\ git' = [git EXCEPT ![r].head = c]
  /\ src' = IF Holds(r, "src") THEN At(World, r, c).src ELSE src
  /\ docs' = IF Holds(r, "docs") THEN At(World, r, c).docs ELSE docs
  /\ UNCHANGED <<colocated, gate, report>>

\* A side line is merged; it brings its sources, the documents stay ours.
Merge(r, c) ==
  LET h == At(World, r, HeadAt(r))
  IN /\ gate = {} /\ WorktreeClean(r)
     /\ ~InHead(World, r, c) /\ ~Ancestor(World, r, HeadAt(r), c)
     /\ NewCommit(r, {HeadAt(r), c}, h.anc \cup At(World, r, c).anc, At(World, r, c).src, h.docs)
     /\ src' = IF Holds(r, "src") THEN At(World, r, c).src ELSE src
     /\ UNCHANGED <<colocated, docs, gate, report>>

EditSource(v) ==
  /\ v # src
  /\ src' = v
  /\ UNCHANGED <<colocated, git, docs, gate, report>>

----------------------------------------------------------------------------
\* Documents: what authors and the atomic verbs write.

Write(d) == docs' = d /\ d # docs /\ UNCHANGED <<colocated, git, src, gate, report>>

TickSubtasks(t)  == Write([docs EXCEPT !.phase.task[t].boxes = TRUE])
TickCriteria     == Write([docs EXCEPT !.phase.criteria = TRUE])
SetEntry(status) == Write([docs EXCEPT !.plan.entry = status])
EditPhase(i)     == Write([docs EXCEPT !.phase.intent = i])
EditPlan(i)      == Write([docs EXCEPT !.plan.intent = i])

\* `evidence add`: HEAD of a clean worktree, or a revision that is named and
\* exists.  The record replaces the one that was there.
CanRecord(rev) == \/ rev = HeadAt("target") /\ Clean(World)
                  \/ Exists(World, "target", rev)

EvidenceTask(t, rev) ==
  CanRecord(rev) /\ Write([docs EXCEPT !.phase.task[t].ev = {[rev |-> rev]}])

\* The final-review line is composed for a review that exists; its range is
\* the caller's.
FinalLines(ranges) ==
  {{}} \cup {{[review |-> id, frozen |-> f]} :
               id \in {i \in ReviewIds : docs.reviews[i] # {}}, f \in ranges}

EvidencePhase(rev, final) ==
  /\ CanRecord(rev)
  /\ Write([docs EXCEPT !.phase.ev =
       {[rev |-> rev, final |-> final, tasks |-> TaskIdentities(docs.phase)]}])

\* Refused while a completed phase lacks a checkpoint or a final review.
EvidencePlan(rev) ==
  /\ CanRecord(rev)
  /\ docs.plan.entry = "complete" => \E e \in docs.phase.ev : e.final # {}
  /\ Write([docs EXCEPT !.plan.ev = {[rev |-> rev, phases |-> PhaseIdentities(World)]}])

\* `review scaffold`: a forward range of existing commits, at a path that
\* holds no frozen review.
Scaffold(id, base, end) ==
  /\ base # end /\ Ancestor(World, "target", base, end)
  /\ \A r \in docs.reviews[id] : ~r.frozen
  /\ Write([docs EXCEPT !.reviews[id] =
       {[base |-> base, end |-> end, planning |-> HeadAt(DocsRepo), lanes |-> "placeholder",
         verdict |-> "Aligned", open |-> FALSE, status |-> "open", frozen |-> FALSE]}])

\* `review evidence set` on all four lanes.
LaneEvidence(id, result) ==
  \E r \in docs.reviews[id] :
    /\ ~r.frozen
    /\ Write([docs EXCEPT !.reviews[id] = {[r EXCEPT !.lanes = result]}])

\* The reviewer settles verdict and findings through the write path, which
\* refuses a frozen review.
Judge(id, verdict, open) ==
  \E r \in docs.reviews[id] :
    /\ ~r.frozen
    /\ Write([docs EXCEPT !.reviews[id] = {[r EXCEPT !.verdict = verdict, !.open = open]}])

\* `plan activate` has no gate.
Activate == /\ docs.plan.status = "approved"
            /\ Write([docs EXCEPT !.plan.status = "active"])

----------------------------------------------------------------------------
\* Transitions behind the gate.

Kinds == {"task", "phase", "plan", "approve", "resolve"}

\* The file a transition rewrites, read from or put back into the documents.
FileOf(kind, target, d) ==
  CASE kind \in {"task", "phase"}   -> d.phase
    [] kind \in {"plan", "approve"} -> d.plan
    [] kind = "resolve"             -> d.reviews[target]

PutFile(kind, target, d, file) ==
  CASE kind \in {"task", "phase"}   -> [d EXCEPT !.phase = file]
    [] kind \in {"plan", "approve"} -> [d EXCEPT !.plan = file]
    [] kind = "resolve"             -> [d EXCEPT !.reviews[target] = file]

Updated(kind, target, file) ==
  CASE kind = "task"    -> [file EXCEPT !.task[target].status = "complete"]
    [] kind \in {"phase", "plan"} -> [file EXCEPT !.status = "complete"]
    [] kind = "approve" -> [file EXCEPT !.status = "approved"]
    [] kind = "resolve" -> {[r EXCEPT !.status = "resolved", !.frozen = TRUE] : r \in file}

\* What a verb asks before it tries: `complete` takes any status, `approve`
\* a draft, `resolve` an open review (or one that was resolved and not yet
\* frozen) whose schema, verdict and findings agree.
Admissible(kind, target) ==
  CASE kind \in {"task", "phase", "plan"} -> TRUE
    [] kind = "approve" -> docs.plan.status = "draft"
    [] kind = "resolve" -> /\ docs.reviews[target] # {}
                           /\ \A r \in docs.reviews[target] :
                                /\ r.status = "open" \/ ~r.frozen
                                /\ SchemaValid(r)
                                /\ r.open = (r.verdict = "Amend")

\* Read, sweep, write the candidate in place.
GateBegin(kind, target) ==
  LET file == FileOf(kind, target, docs)
      candidate == Updated(kind, target, file)
  IN /\ gate = {}
     /\ Admissible(kind, target)
     /\ gate' = {[kind |-> kind, target |-> target, original |-> file,
                  updated |-> candidate, before |-> Findings(World)]}
     /\ docs' = PutFile(kind, target, docs, candidate)
     /\ report' = "none"
     /\ UNCHANGED <<colocated, git, src>>

\* What the sweep over the candidate holds against the transition: what it
\* introduces and can be helped, or, before a freeze, everything that is
\* wrong with the review itself.
Refusal(g) ==
  IF g.kind = "resolve" THEN ReviewFindings(World, g.target)
  ELSE Blocking(Findings(World) \ g.before)

\* Sweep again; the file becomes the candidate or what it was.
GateEnd ==
  \E g \in gate :
    LET ok == Refusal(g) = {}
    IN /\ docs' = PutFile(g.kind, g.target, docs, IF ok THEN g.updated ELSE g.original)
       /\ report' = IF ok THEN "passed" ELSE "refused"
       /\ gate' = {}
       /\ UNCHANGED <<colocated, git, src>>

\* The process dies between the candidate and its removal.
Crash == /\ gate # {}
         /\ gate' = {}
         /\ UNCHANGED <<colocated, git, src, docs, report>>

----------------------------------------------------------------------------
Revisions == DOMAIN git["target"].commits

GitStep ==
  \/ \E r \in Repos, parts \in {{"src"}, {"docs"}, {"src", "docs"}} : Commit(r, parts)
  \/ \E r \in Repos : AmendHead(r)
  \/ \E r \in Repos : \E c \in DOMAIN git[r].commits : Checkout(r, c) \/ Merge(r, c)
  \/ \E v \in 0..MaxSrc : EditSource(v)

AuthorStep ==
  \/ \E t \in Tasks : TickSubtasks(t)
  \/ TickCriteria
  \/ \E s \in Statuses : SetEntry(s)
  \/ \E i \in Intents : EditPhase(i) \/ EditPlan(i)
  \/ \E id \in ReviewIds : \/ Judge(id, "Aligned", FALSE)
                           \/ Judge(id, "Amend", TRUE)

Ranges == {<<r.base, r.end>> : r \in UNION {docs.reviews[id] : id \in ReviewIds}}

\* complete, of a task, a phase or the plan: the candidate has to be judged.
CompleteVerb ==
  \/ \E t \in Tasks : GateBegin("task", t)
  \/ \E kind \in {"phase", "plan"} : GateBegin(kind, kind)

VerbStep ==
  \/ \E t \in Tasks, rev \in Revisions : EvidenceTask(t, rev)
  \/ \E rev \in Revisions, final \in FinalLines(Ranges) : EvidencePhase(rev, final)
  \/ \E rev \in Revisions : EvidencePlan(rev)
  \/ \E id \in ReviewIds, base, end \in Revisions : Scaffold(id, base, end)
  \/ \E id \in ReviewIds, result \in {"pass", "changes"} : LaneEvidence(id, result)
  \/ Activate
  \/ CompleteVerb \/ GateBegin("approve", "approve")
  \/ \E id \in ReviewIds : GateBegin("resolve", id)

Next == GitStep \/ AuthorStep \/ VerbStep \/ GateEnd \/ Crash

Spec == Init /\ [][Next]_vars

----------------------------------------------------------------------------
EvidenceRecords == [rev : Nat]
PhaseEvidence   == [rev : Nat, final : SUBSET [review : ReviewIds, frozen : Nat \X Nat],
                    tasks : SUBSET (Tasks \X Nat)]
PlanEvidence    == [rev : Nat, phases : SUBSET (Nat \X ReviewIds)]
Reviews         == [base : Nat, end : Nat, planning : Nat,
                    lanes : {"placeholder", "pass", "changes"}, verdict : {"Aligned", "Amend"},
                    open : BOOLEAN, status : {"open", "resolved"}, frozen : BOOLEAN]
TaskRecords     == [status : Statuses, boxes : BOOLEAN, ev : SUBSET EvidenceRecords]
Phases          == [status : Statuses, criteria : BOOLEAN, intent : Intents,
                    ev : SUBSET PhaseEvidence, task : [Tasks -> TaskRecords]]
Plans           == [status : {"draft", "approved", "active", "complete"}, entry : Statuses,
                    intent : Intents, ev : SUBSET PlanEvidence]
Documents       == [phase : Phases, plan : Plans, reviews : [ReviewIds -> SUBSET Reviews]]
Commits         == [anc : SUBSET Nat, parents : SUBSET Nat, src : 0..MaxSrc,
                    docs : Documents, touches : BOOLEAN]

\* The shape of the state, and of the histories: a head is a commit, and a
\* commit's ancestors are commits, itself among them.
TypeOK ==
  /\ colocated \in BOOLEAN
  /\ src \in 0..MaxSrc
  /\ docs \in Documents
  /\ report \in {"none", "passed", "refused"}
  /\ gate = {} \/ \E g \in gate : gate = {g} /\ g.kind \in Kinds
  /\ \A r \in Repos :
       /\ git[r].head \in DOMAIN git[r].commits
       /\ \A c \in DOMAIN git[r].commits :
            /\ At(World, r, c) \in Commits
            /\ c \in At(World, r, c).anc
            /\ At(World, r, c).anc \subseteq DOMAIN git[r].commits

\* What a review that the phase cites says of the work: its range holds every
\* completed task, and the intents are those that were reviewed.
ReviewedWork(d, r) ==
  /\ IsValidPhaseReview(r)
  /\ CompletedTasks(d.phase) = Tasks
  /\ \A i \in TaskIdentities(d.phase) :
       i[2] \in At(World, "target", r.end).anc \ At(World, "target", r.base).anc
  /\ At(World, DocsRepo, r.planning).docs.phase.intent = d.phase.intent
  /\ At(World, DocsRepo, r.planning).docs.plan.intent = d.plan.intent

CitedReviews(d) ==
  UNION {UNION {d.reviews[f.review] : f \in e.final} : e \in d.phase.ev}

\* A root that validates with a complete phase really was reviewed: one frozen
\* aligned review covers every task, the sources at HEAD are those of its
\* endpoint, neither phase nor plan asks for something else than it did, and
\* all of that is in the history (the rules of phasereview.go and evidence.go
\* together, over amended, abandoned and merged histories).
ValidMeansReviewed ==
  Findings(World) = {} /\ docs.phase.status = "complete" =>
    \E r \in CitedReviews(docs) :
      /\ ReviewedWork(docs, r)
      /\ At(World, "target", HeadAt("target")).src = At(World, "target", r.end).src
      /\ src = At(World, "target", r.end).src
      /\ Committed(World).phase.status = "complete"
      /\ Committed(World).phase.ev = docs.phase.ev
      /\ r \in UNION {Committed(World).reviews[id] : id \in ReviewIds}

\* A phase that was not complete passes the gate.
Completes(g) == /\ g.kind = "phase" /\ gate' = {} /\ report' = "passed"
                /\ g.original.status # "complete"

\* A phase completes on reviewed work only: `sdd phase complete` refuses
\* unless one valid frozen review covers the tasks and intents, and, where
\* the planning root has its own repository, unless the target still stands
\* at the endpoint (transition.go, gateDiagnostics).
GateMeansReviewed ==
  [][\A g \in gate : Completes(g) =>
       \E r \in CitedReviews(docs) :
         /\ ReviewedWork(docs, r)
         /\ ~colocated => HeadAt("target") = r.end \/ ~Clean(World)]_vars

\* "If completing the entity would produce a diagnostic, the transition is
\* refused": with no uncommitted source, no phase completes over sources that
\* were committed after the endpoint of its frozen review.
CompletionMeansReviewed ==
  [][\A g \in gate : Completes(g) /\ src = At(World, "target", HeadAt("target")).src =>
       \E r \in CitedReviews(docs) :
         At(World, "target", HeadAt("target")).src = At(World, "target", r.end).src]_vars
=============================================================================
