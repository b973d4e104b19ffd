---------------------------- MODULE MCPhaseClose ----------------------------
(***************************************************************************)
(* The documented way of closing a plan (shared/completion-evidence.md and *)
(* shared/review-artifacts.md), with at most MaxDeviations steps of any    *)
(* other kind in between: every history, edit and verb around a workflow   *)
(* that otherwise goes on.  The life of the reviews themselves             *)
(* (ReviewRecord) is the other part of the run; a behaviour is of one part *)
(* and leaves the other where it begins.                                   *)
(***************************************************************************)
EXTENDS PhaseClose, ReviewRecord

CONSTANTS TheTask, TheReview, MaxDeviations

VARIABLES pc,           \* the next step of the workflow
          deviations,   \* the steps taken beside it
          part

closeVars == <<vars, pc, deviations>>
mcvars == <<closeVars, recordVars, part>>

Range == <<1, HeadAt("target")>>
DocsCommit == Commit(DocsRepo, {"docs"})

\* The steps, in their documented order; a gate ends on its own.
Script ==
  \/ pc = 1  /\ GateBegin("approve", "approve")
  \/ pc = 2  /\ Activate
  \/ pc = 3  /\ EditSource(1)
  \/ pc = 4  /\ Commit("target", {"src"})
  \/ pc = 5  /\ EvidenceTask(TheTask, HeadAt("target"))
  \/ pc = 6  /\ TickSubtasks(TheTask)
  \/ pc = 7  /\ GateBegin("task", TheTask)
  \/ pc = 8  /\ Scaffold(TheReview, Range[1], Range[2])
  \/ pc = 9  /\ LaneEvidence(TheReview, "pass")
  \/ pc = 10 /\ GateBegin("resolve", TheReview)
  \/ pc = 11 /\ TickCriteria
  \/ pc = 12 /\ \E r \in docs.reviews[TheReview] :
                  EvidencePhase(r.end, {[review |-> TheReview, frozen |-> <<r.base, r.end>>]})
  \/ pc = 13 /\ SetEntry("complete")
  \/ pc = 14 /\ GateBegin("phase", "phase")
  \/ pc = 15 /\ DocsCommit
  \/ pc = 16 /\ \E e \in docs.phase.ev : EvidencePlan(e.rev)
  \/ pc = 17 /\ GateBegin("plan", "plan")
  \/ pc = 18 /\ DocsCommit

ScriptStep == gate = {} /\ Script /\ pc' = pc + 1 /\ UNCHANGED deviations

GateStep == GateEnd /\ UNCHANGED <<pc, deviations>>

Deviation == /\ deviations < MaxDeviations
             /\ GitStep \/ AuthorStep \/ VerbStep \/ Crash
             /\ deviations' = deviations + 1
             /\ UNCHANGED pc

CloseNext == ScriptStep \/ GateStep \/ Deviation

-----------------------------------------------------------------------------
\* What an author may have written into a review: nothing; a finding without
\* its body and a follow-up that floats; one deferred to task x by a follow-up
\* or by its log entry; and a report for `graph amend`.
Written1(f) == [verdict |-> "Aligned", findings |-> <<f>>, followups |-> <<>>]
F1 == [id |-> "F-01", form |-> "fine", status |-> "fixed", action |-> "", body |-> TRUE,
       log |-> "fixed", cites |-> {}]
Deferred == [F1 EXCEPT !.status = "deferred", !.log = "deferred"]
FU1(t) == [id |-> "FU-01", form |-> "fine", of |-> "F-01", task |-> t]

MCContents ==
    {Empty, [Written1([F1 EXCEPT !.body = FALSE]) EXCEPT !.followups = <<FU1("")>>],
     Written1([Deferred EXCEPT !.cites = {[as |-> "node", id |-> "x"]}]),
     [Written1(Deferred) EXCEPT !.followups = <<FU1("x")>>],
     [Written1([F1 EXCEPT !.status = "open", !.action = "revise"]) EXCEPT !.verdict = "Amend"]}

-----------------------------------------------------------------------------
CloseStill ==
    /\ pc = 0 /\ deviations = 0
    /\ Init /\ colocated

MCInit ==
    /\ part \in {"close", "record"}
    /\ IF part = "close" THEN Init /\ pc = 1 /\ deviations = 0 ELSE CloseStill
    /\ RecordInit

MCNext ==
    /\ UNCHANGED part
    /\ \/ part = "close" /\ CloseNext /\ UNCHANGED recordVars
       \/ part = "record" /\ RecordNext /\ UNCHANGED closeVars

\* Whoever follows the workflow goes on with it, and a verb ends.
MCSpec == MCInit /\ [][MCNext]_mcvars
            /\ (part = "close" => WF_closeVars(ScriptStep) /\ WF_closeVars(GateStep))

\* The gates and the rules can all be satisfied together, in the documented
\* order: a workflow that nobody disturbs ends with a complete plan and a
\* root that validates.
WorkflowCloses ==
  (part = "close" /\ [](deviations = 0)) => <>(docs.plan.status = "complete" /\ Findings(World) = {})
=============================================================================
