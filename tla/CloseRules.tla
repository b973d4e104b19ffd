----------------------------- MODULE CloseRules -----------------------------
(***************************************************************************)
(* What `sdd validate` reports about one v1 plan with one phase: the rules *)
(* of internal/rules that look at statuses, checkboxes, completion         *)
(* evidence, the final phase review and the history they name.             *)
(*                                                                         *)
(* A world is a record                                                     *)
(*   colocated  the planning root lies in the target repository            *)
(*   git        per repository, its commits and its head                   *)
(*   src        the version of the sources in the target worktree          *)
(*   docs       the phase, the plan README and the reviews on disk         *)
(* A commit knows its ancestors (itself included), its parents, the        *)
(* sources and documents it records, and whether its diff against some     *)
(* parent touches sources.  Documents keep what a rule can tell apart:     *)
(* an intent stands for all the text that lifecycle normalisation leaves.  *)
(* An absent evidence section body, final-review line or review is {}.     *)
(***************************************************************************)
EXTENDS Naturals, FiniteSets

CONSTANTS Tasks,        \* the tasks of the phase
          ReviewIds     \* the paths a review can be written at

Repos == {"target", "planning"}

PlanRepo(w)   == IF w.colocated THEN "target" ELSE "planning"
HeadOf(w, r)  == w.git[r].head
At(w, r, c)   == w.git[r].commits[c]
Ancestor(w, r, a, c) == a \in At(w, r, c).anc
Exists(w, r, c)      == c \in DOMAIN w.git[r].commits
InHead(w, r, c)      == Ancestor(w, r, c, HeadOf(w, r))

\* The planning documents as the planning head records them.
Committed(w) == At(w, PlanRepo(w), HeadOf(w, PlanRepo(w))).docs

\* vcs.Clean of the target: nothing on disk differs from its head.
Clean(w) == /\ At(w, "target", HeadOf(w, "target")).src = w.src
            /\ w.colocated => Committed(w) = w.docs

----------------------------------------------------------------------------
\* Completion evidence: what every target of it has in common.

\* The marker is missing text at a complete status; a recorded revision must
\* exist and lie in the history of HEAD, whatever the status.
EvidenceFindings(w, who, complete, ev) ==
  (IF complete /\ ev = {} THEN {<<"pending", who>>} ELSE {})
    \cup {<<"no such revision", who, e.rev>> :
            e \in {x \in ev : ~Exists(w, "target", x.rev)}}
    \cup {<<"not an ancestor", who, e.rev>> :
            e \in {x \in ev : Exists(w, "target", x.rev) /\ ~InHead(w, "target", x.rev)}}

\* Once the record is due, the committed copy must carry the same evidence.
DurableFindings(who, done, ev, committedEv) ==
  IF ev = {}                THEN {}
  ELSE IF ~done             THEN {<<"not committed", who>>}
  ELSE IF ev # committedEv  THEN {<<"differs from its commit", who>>}
  ELSE {}

\* A task's record is due when its phase is complete.
TaskDurable(w, t) ==
  LET c == Committed(w).phase.task[t]
  IN DurableFindings(t, c.status = "complete" /\ c.boxes, w.docs.phase.task[t].ev, c.ev)

PhaseDurable(w) ==
  LET c == Committed(w)
  IN DurableFindings("phase",
       c.phase.status = "complete" /\ c.phase.criteria /\ c.plan.entry = "complete",
       w.docs.phase.ev, c.phase.ev)

PlanDurable(w) ==
  LET c == Committed(w)
  IN DurableFindings("plan", c.plan.status = "complete", w.docs.plan.ev, c.plan.ev)

\* SDD069: what is complete has every box checked.
Unchecked(complete, boxes, id) ==
  IF complete /\ ~boxes THEN {<<"unchecked", id>>} ELSE {}

TaskFindings(w, t) ==
  LET p == w.docs.phase
      k == p.task[t]
      complete == k.status = "complete"
  IN EvidenceFindings(w, t, complete, k.ev)
     \cup Unchecked(complete, k.boxes, t)
     \cup (IF complete
           THEN {<<"merge commit", t, e.rev>> :
                   e \in {x \in k.ev : Exists(w, "target", x.rev)
                                       /\ Cardinality(At(w, "target", x.rev).parents) > 1}}
           ELSE {})
     \cup (IF complete /\ p.status = "complete" THEN TaskDurable(w, t) ELSE {})

----------------------------------------------------------------------------
\* Phase reviews.

\* phaseReviewSchemaErrors, on the fields the verbs write.
SchemaValid(r) ==
  /\ r.lanes # "placeholder"
  /\ r.lanes = "pass" \/ r.verdict = "Amend"
  /\ r.verdict = "Amend" => r.open

IsValidPhaseReview(r) ==
  r.frozen /\ r.verdict = "Aligned" /\ r.status = "resolved" /\ SchemaValid(r)

\* What the validator holds against the review itself, whoever cites it.
ReviewFindings(w, id) ==
  {<<"review schema", id>> : r \in {x \in w.docs.reviews[id] : ~SchemaValid(x)}}

CompletedTasks(p) == {t \in Tasks : p.task[t].status = "complete"}

\* The identities a phase must list: each completed task with its revision.
TaskIdentities(p) ==
  UNION {{<<t, e.rev>> : e \in p.task[t].ev} : t \in CompletedTasks(p)}

\* Task revisions the range does not hold: past its end, or before its base.
EndOnly_OutOfRange(w, revs, base, end) ==
  {<<"task outside the range", i>> : i \in {x \in revs : ~Ancestor(w, "target", x[2], end)}}

OutOfRange(w, revs, base, end) ==
  {<<"task outside the range", i>> :
     i \in {x \in revs : \/ ~Ancestor(w, "target", x[2], end)
                          \/ Ancestor(w, "target", x[2], base)}}

\* The frozen range is a forward range that ends at the checkpoint and holds
\* the revision of every completed task.
IdentityFindings(w, checkpoint, frozen) ==
  LET base == frozen[1]
      end  == frozen[2]
      missing == {c \in {base, end} : ~Exists(w, "target", c)}
  IN IF base = end THEN {<<"degenerate range">>}
     ELSE (IF end # checkpoint THEN {<<"endpoint is not the checkpoint", end, checkpoint>>} ELSE {})
          \cup {<<"no such endpoint", c>> : c \in missing}
          \cup (IF missing # {} THEN {}
                ELSE IF ~Ancestor(w, "target", base, end) THEN {<<"range is not forward", base, end>>}
                ELSE OutOfRange(w, TaskIdentities(w.docs.phase), base, end))

\* A commit since the endpoint changes sources, against any of its parents.
HeadOnly_MaterialSince(w, end) == At(w, "target", HeadOf(w, "target")).touches

MaterialSince(w, end) ==
  \E c \in At(w, "target", HeadOf(w, "target")).anc \ At(w, "target", end).anc :
    At(w, "target", c).touches

\* What may have happened since the review: the code asks in this order and
\* stops at the first answer it does not like.
PostReviewFindings(w, end) ==
  LET head == HeadOf(w, "target")
      then == At(w, "target", end).docs
      now  == Committed(w)
  IN IF ~Clean(w) THEN {<<"worktree is not clean">>}
     ELSE IF head = end THEN {}
     ELSE IF ~w.colocated THEN {<<"target moved", end>>}
     ELSE IF ~InHead(w, "target", end) THEN {<<"endpoint left the history", end>>}
     ELSE IF MaterialSince(w, end) THEN {<<"material changes", end>>}
     ELSE IF then.phase.intent # now.phase.intent THEN {<<"phase intent moved">>}
     ELSE IF then.plan.intent # now.plan.intent THEN {<<"plan intent moved">>}
     ELSE {}

\* The reviewed planning revision has the intent that is on disk.
PlanningRevisionFindings(w, r) ==
  LET repo == PlanRepo(w)
      then == At(w, repo, r.planning).docs
  IN IF ~Exists(w, repo, r.planning) THEN {<<"no such planning revision", r.planning>>}
     ELSE IF ~InHead(w, repo, r.planning) THEN {<<"planning revision left the history", r.planning>>}
     ELSE (IF then.phase.intent # w.docs.phase.intent THEN {<<"phase was reviewed otherwise">>} ELSE {})
          \cup (IF then.plan.intent # w.docs.plan.intent THEN {<<"plan was reviewed otherwise">>} ELSE {})

\* The cited review is in the planning head with the bytes on disk.
ReviewCommittedFindings(w, id) ==
  LET c == Committed(w).reviews[id]
  IN IF c = {} THEN {<<"not committed", id>>}
     ELSE IF c # w.docs.reviews[id] THEN {<<"differs from its commit", id>>}
     ELSE {}

\* One final-review line, its review, and everything that hangs on the two.
FinalReviewFindings(w, e) ==
  IF Cardinality(e.final) # 1 THEN {<<"no final review">>}
  ELSE UNION {
    LET found == w.docs.reviews[f.review]
    IN IF found = {} THEN {<<"review does not resolve", f.review>>}
       ELSE UNION {
         (IF <<r.base, r.end>> # f.frozen THEN {<<"frozen identity differs", f.frozen>>} ELSE {})
         \cup (IF ~IsValidPhaseReview(r) THEN {<<"not an aligned review", f.review>>} ELSE {})
         \cup ReviewCommittedFindings(w, f.review)
         \cup IdentityFindings(w, e.rev, f.frozen)
         \cup (IF \A c \in {f.frozen[1], f.frozen[2]} : Exists(w, "target", c)
               THEN PostReviewFindings(w, f.frozen[2]) ELSE {})
         \cup PlanningRevisionFindings(w, r) : r \in found} : f \in e.final}

----------------------------------------------------------------------------
\* The phase and the plan.

\* SDD068.
IncompleteTasks(p) == {<<"incomplete task", t>> : t \in Tasks \ CompletedTasks(p)}

PhaseFindings(w) ==
  LET p == w.docs.phase
      complete == p.status = "complete"
  IN EvidenceFindings(w, "phase", complete, p.ev)
     \cup Unchecked(complete, p.criteria, "phase")
     \cup (IF ~complete THEN {}
           ELSE IncompleteTasks(p)
                \cup PhaseDurable(w)
                \cup (IF p.ev = {} THEN {<<"task identities">>, <<"no final review">>} ELSE {})
                \cup UNION {(IF e.tasks = {} \/ e.tasks # TaskIdentities(p)
                             THEN {<<"task identities">>} ELSE {})
                            \cup FinalReviewFindings(w, e) : e \in p.ev})

\* Each completed phase with its checkpoint and the review that closed it.
PhaseIdentities(w) ==
  IF w.docs.plan.entry # "complete" THEN {}
  ELSE UNION {{<<e.rev, f.review>> : f \in e.final} : e \in w.docs.phase.ev}

\* The plan's record lists each of them, and was made after them.
CheckpointFindings(w, e) ==
  (IF e.phases = {} \/ e.phases # PhaseIdentities(w) THEN {<<"phase identities">>} ELSE {})
    \cup {<<"phase outside the checkpoint", f.rev, e.rev>> :
            f \in {x \in w.docs.phase.ev : /\ w.docs.plan.entry = "complete"
                                           /\ Exists(w, "target", e.rev)
                                           /\ ~Ancestor(w, "target", x.rev, e.rev)}}

\* SDD058 and SDD059: the plan's entry of a phase, and the phase.
EntryDisagrees(w) ==
  IF w.docs.plan.entry # w.docs.phase.status
    THEN {<<"entry disagrees", w.docs.plan.entry>>} ELSE {}

IncompletePhase(w) ==
  IF w.docs.phase.status # "complete" THEN {<<"incomplete phase">>} ELSE {}

PlanFindings(w) ==
  LET q == w.docs.plan
      complete == q.status = "complete"
  IN EvidenceFindings(w, "plan", complete, q.ev)
     \cup EntryDisagrees(w)
     \cup (IF ~complete THEN {}
           ELSE IncompletePhase(w)
                \cup PlanDurable(w)
                \cup (IF q.ev = {} THEN {<<"phase identities">>} ELSE {})
                \cup UNION {CheckpointFindings(w, e) : e \in q.ev})

\* The sweep.
Findings(w) ==
  (UNION {TaskFindings(w, t) : t \in Tasks})
    \cup PhaseFindings(w) \cup PlanFindings(w)
    \cup UNION {ReviewFindings(w, id) : id \in ReviewIds}

\* splitCommitPending: what a transition cannot satisfy while it is checked.
CommitOnly_Pending(f) == f[1] = "not committed"

Pending(f) == f[1] \in {"not committed", "worktree is not clean"}

Blocking(found) == {f \in found : ~Pending(f)}
=============================================================================
