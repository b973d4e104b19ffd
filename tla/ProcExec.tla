------------------------------ MODULE ProcExec ------------------------------
(***************************************************************************)
(* One call of internal/procexec: a command runs under a deadline, with    *)
(* its machine output bounded and its process tree contained.  The caller, *)
(* the deadline, the output copier, the watcher that cancels the command,  *)
(* the processes themselves and the kernel that recycles process ids all   *)
(* act between the runner's steps.  Three containment adapters are         *)
(* modelled: a POSIX process group swept while its leader is a zombie      *)
(* ("zombie"), the same group where no exit can be seen without reaping    *)
(* ("reaped"), and a Windows job object ("job").                           *)
(***************************************************************************)
EXTENDS Naturals, FiniteSets

CONSTANTS
    Descendants,   \* processes the command may start
    Limit,         \* chunks of machine output the policy allows
    MaxSent        \* bound: chunks the command writes

ASSUME ProcAssumption ==
    /\ Limit \in Nat
    /\ MaxSent \in Nat

VARIABLES
    adapter, pc,
    capture,    \* the call is Capture, which returns a nonzero exit, not Run
    leader,     \* the command's own process
    code,       \* how it ended
    desc,       \* its descendants: in the group or job, escaped by setsid, gone
    sent, got,  \* chunks written by the command, chunks collected
    overflow,   \* the machine writer passed its limit
    caller,     \* the caller cancelled its context
    runCtx,     \* the context derived with the deadline
    flags,      \* what the runner remembers: swept, cleaned, errors
    stranger,   \* an unrelated group that got the recycled id
    result

procVars == <<adapter, capture, pc, leader, code, desc, sent, got, overflow, caller, runCtx,
              flags, stranger, result>>

Causes == {"access", "deadline", "cancelled", "exit", "overflow", "drain", "containment"}

\* late is history: the watcher signalled after the leader was reaped
NoFlags == [swept |-> FALSE, cleaned |-> FALSE, delay |-> FALSE, torn |-> FALSE,
            contain |-> FALSE, drain |-> FALSE, cancelled |-> FALSE, late |-> FALSE]

ProcTypeOK ==
    /\ adapter \in {"zombie", "reaped", "job"} /\ capture \in BOOLEAN
    /\ pc \in {"start", "assign", "resume", "loop", "query", "empty", "close", "join",
               "await", "sweep", "wait", "handOver", "drain", "cleanup", "signalled",
               "classify", "done"}
    /\ leader \in {"unborn", "suspended", "running", "zombie", "reaped"}
    /\ code \in {"none", "zero", "nonzero", "killed"}
    /\ desc \in [Descendants -> {"unborn", "owned", "escaped", "dead"}]
    /\ sent \in 0..MaxSent /\ got \in 0..Limit
    /\ overflow \in BOOLEAN /\ caller \in BOOLEAN
    /\ runCtx \in {"live", "deadline", "cancelled"}
    /\ flags \in [swept : BOOLEAN, cleaned : BOOLEAN, delay : BOOLEAN, torn : BOOLEAN,
                 contain : BOOLEAN, drain : BOOLEAN, cancelled : BOOLEAN, late : BOOLEAN]
    /\ stranger \in {"none", "alive", "killed"}
    /\ result \in {"none", "success"} \cup Causes

(***************************************************************************)
(* Processes                                                               *)
(***************************************************************************)
Owned == {d \in Descendants : desc[d] = "owned"}
Alive == leader \in {"suspended", "running"}
HoldsPipe == Alive \/ \E d \in Descendants : desc[d] \in {"owned", "escaped"}

\* kill(-pgid) or TerminateJobObject, when it is not refused
KillOwned ==
    /\ desc' = [d \in Descendants |-> IF d \in Owned THEN "dead" ELSE desc[d]]
    /\ leader' = IF Alive THEN "zombie" ELSE leader
    /\ code' = IF Alive THEN "killed" ELSE code

\* the same signal once the id may name somebody else
KillGroupId ==
    /\ KillOwned
    /\ stranger' = IF stranger = "alive" THEN "killed" ELSE stranger

GroupAnswers == Owned # {} \/ stranger = "alive"

Call == <<adapter, capture>>
Processes == <<leader, code, desc>>
Streams == <<sent, got, overflow>>
Contexts == <<caller, runCtx>>

Fork(d) ==
    /\ leader = "running" /\ desc[d] = "unborn"
    /\ desc' = [desc EXCEPT ![d] = "owned"]
    /\ UNCHANGED <<Call, pc, leader, code, flags, stranger, result, Streams, Contexts>>

\* a descendant ends, or leaves the group with setsid; a job cannot be left
DescendantMoves(d) ==
    /\ \/ desc[d] \in {"owned", "escaped"} /\ desc' = [desc EXCEPT ![d] = "dead"]
       \/ /\ desc[d] = "owned" /\ adapter # "job"
          /\ desc' = [desc EXCEPT ![d] = "escaped"]
    /\ UNCHANGED <<Call, pc, leader, code, flags, stranger, result, Streams, Contexts>>

LeaderWrites ==
    /\ leader = "running" /\ sent < MaxSent
    /\ sent' = sent + 1
    /\ UNCHANGED <<Call, pc, got, overflow, flags, stranger, result, Processes, Contexts>>

LeaderExits ==
    /\ leader = "running"
    /\ leader' = "zombie"
    /\ code' \in {"zero", "nonzero"}
    /\ UNCHANGED <<Call, pc, desc, flags, stranger, result, Streams, Contexts>>

\* an id is free once the leader is reaped and no member is left in its group
RecycleId ==
    /\ adapter # "job" /\ leader = "reaped" /\ Owned = {} /\ stranger = "none" /\ pc # "done"
    /\ stranger' = "alive"
    /\ UNCHANGED <<Call, pc, flags, result, Processes, Streams, Contexts>>

(***************************************************************************)
(* Contexts, the copier and the watcher                                    *)
(***************************************************************************)
CancelRunCtx(why) == runCtx' = IF runCtx = "live" THEN why ELSE runCtx

CallerCancels ==
    /\ ~caller /\ pc # "done"
    /\ caller' = TRUE
    /\ CancelRunCtx("cancelled")
    /\ UNCHANGED <<Call, pc, flags, stranger, result, Processes, Streams>>

DeadlineElapses ==
    /\ runCtx = "live" /\ pc # "done"
    /\ CancelRunCtx("deadline")
    /\ UNCHANGED <<Call, pc, caller, flags, stranger, result, Processes, Streams>>

\* machineWriter.Write: the chunk that does not fit drops everything collected,
\* flags the overflow and cancels the command
Copy ==
    /\ got < sent /\ ~overflow /\ ~flags.torn /\ pc \notin {"classify", "done"}
    /\ IF got + 1 > Limit
         THEN overflow' = TRUE /\ got' = 0 /\ CancelRunCtx("cancelled")
         ELSE got' = got + 1 /\ UNCHANGED <<overflow, runCtx>>
    /\ UNCHANGED <<Call, pc, sent, caller, flags, stranger, result, Processes>>

Copied == overflow \/ got = sent
EndOfFile == Copied /\ ~HoldsPipe

\* exec's watcher calls cmd.Cancel, which signals the group, and the signal is
\* taken to be allowed; it is told to stop only after Wait reaped the leader
WatcherCancels ==
    /\ adapter # "job" /\ runCtx # "live" /\ ~flags.cancelled
    /\ pc \in {"await", "sweep", "wait", "handOver"}
    /\ flags' = [flags EXCEPT !.cancelled = TRUE, !.late = (leader = "reaped")]
    /\ KillGroupId
    /\ UNCHANGED <<Call, pc, result, Streams, Contexts>>

(***************************************************************************)
(* The runner on POSIX                                                     *)
(***************************************************************************)
Remember(next, f) == pc' = next /\ flags' = f
Next_(next) == Remember(next, flags)
World == <<Call, result, Contexts>>
Report(cause) == pc' = "done" /\ result' = cause

\* LookPath and Start: nothing ran when either fails
StartPosix ==
    /\ pc = "start" /\ adapter # "job"
    /\ \/ /\ leader' = "running"
          /\ Next_(IF adapter = "zombie" THEN "await" ELSE "wait")
          /\ UNCHANGED result
       \/ Report("access") /\ UNCHANGED <<leader, flags>>
    /\ UNCHANGED <<Call, code, desc, stranger, Streams, Contexts>>

\* awaitExitNoReap; if it cannot tell, the sweep is left to the fallback
AwaitExit ==
    /\ pc = "await"
    /\ \/ leader = "zombie" /\ Next_("sweep")
       \/ Next_("wait")
    /\ UNCHANGED <<stranger, World, Processes, Streams>>

\* The leader is a zombie, so the id is still this command's.  Where the probe
\* counts zombies, as on Linux, it is answered by the leader alone, and a group
\* with nobody left in it counts as cleaned.
SweepGroup ==
    /\ pc = "sweep"
    /\ \/ Owned = {} /\ Remember("wait", [flags EXCEPT !.swept = TRUE]) /\ UNCHANGED Processes
       \/ Next_("wait") /\ UNCHANGED Processes
       \/ /\ Remember("wait", [flags EXCEPT !.swept = TRUE, !.cleaned = TRUE])
          /\ KillOwned \/ UNCHANGED Processes
    /\ UNCHANGED <<stranger, World, Streams>>

Reap ==
    /\ pc = "wait" /\ leader = "zombie"
    /\ leader' = "reaped"
    /\ Next_("handOver")
    /\ UNCHANGED <<code, desc, stranger, World, Streams>>

HandOver ==
    /\ pc = "handOver"
    /\ Next_("drain")
    /\ UNCHANGED <<stranger, World, Processes, Streams>>

\* the wait for the end of the pipes without its allowance
DrainForEver ==
    /\ pc = "drain"
    /\ EndOfFile /\ Next_("cleanup")
    /\ UNCHANGED <<stranger, World, Processes, Streams>>

\* The pipes reach their end, the allowance does, or reading one fails.  The
\* copier is taken to keep up: what the command wrote is collected before the
\* allowance is spent.
DrainPipes ==
    /\ pc = "drain"
    /\ \/ EndOfFile /\ Next_("cleanup")
       \/ Copied /\ HoldsPipe /\ Remember("cleanup", [flags EXCEPT !.delay = TRUE])
       \/ Remember("cleanup", [flags EXCEPT !.torn = TRUE])
    /\ UNCHANGED <<stranger, World, Processes, Streams>>

\* a sweep taken at its word
TrustSweep ==
    /\ pc = "cleanup" /\ flags.swept
    /\ Next_("classify")
    /\ UNCHANGED <<stranger, World, Processes, Streams>>

\* after a sweep: only a poll; the last probe may fail or still be answered
PollGroup ==
    /\ pc = "cleanup" /\ flags.swept
    /\ \/ ~GroupAnswers /\ Next_("classify")
       \/ GroupAnswers /\ Remember("classify", [flags EXCEPT !.contain = TRUE])
       \/ Remember("classify", [flags EXCEPT !.contain = TRUE])
    /\ UNCHANGED <<stranger, World, Processes, Streams>>

\* without a sweep: probe, kill, poll
KillAfterReap ==
    /\ pc = "cleanup" /\ ~flags.swept
    /\ \/ ~GroupAnswers /\ Next_("classify") /\ UNCHANGED <<stranger, Processes>>
       \/ GroupAnswers /\ Next_("signalled") /\ KillGroupId
       \/ Remember("classify", [flags EXCEPT !.contain = TRUE]) /\ UNCHANGED <<stranger, Processes>>
    /\ UNCHANGED <<World, Streams>>

PollSignalled ==
    /\ pc = "signalled"
    /\ \/ ~GroupAnswers /\ Remember("classify", [flags EXCEPT !.cleaned = TRUE])
       \/ Remember("classify", [flags EXCEPT !.contain = TRUE])
    /\ UNCHANGED <<stranger, World, Processes, Streams>>

(***************************************************************************)
(* The runner on Windows: created suspended, enrolled, then resumed        *)
(***************************************************************************)
StartSuspended ==
    /\ pc = "start" /\ adapter = "job"
    /\ \/ leader' = "suspended" /\ Next_("assign") /\ UNCHANGED result
       \/ \E c \in {"access", "containment"} : Report(c) /\ UNCHANGED <<leader, flags>>
       \/ /\ runCtx # "live" /\ UNCHANGED <<leader, flags>>
          /\ Report(IF caller THEN "cancelled" ELSE "deadline")
    /\ UNCHANGED <<Call, code, desc, stranger, Streams, Contexts>>

\* failing to enrol stops the process that never ran
AssignJob ==
    /\ pc = "assign"
    /\ \/ Next_("resume") /\ UNCHANGED <<result, Processes>>
       \/ Report("containment") /\ KillOwned /\ UNCHANGED flags
    /\ UNCHANGED <<Call, stranger, Streams, Contexts>>

ResumeThread ==
    /\ pc = "resume"
    /\ \/ /\ runCtx = "live"
          /\ leader' = "running" /\ Next_("loop")
          /\ UNCHANGED <<result, code, desc>>
       \/ /\ runCtx # "live" /\ KillOwned /\ UNCHANGED flags
          /\ Report(IF caller THEN "cancelled" ELSE "deadline")
       \/ Report("containment") /\ KillOwned /\ UNCHANGED flags
    /\ UNCHANGED <<Call, stranger, Streams, Contexts>>

\* the leader is polled; a cancellation terminates the job once
LoopJob ==
    /\ pc = "loop"
    /\ \/ leader = "zombie" /\ Next_("query") /\ UNCHANGED Processes
       \/ /\ Alive /\ runCtx # "live" /\ ~flags.cancelled
          /\ Remember("loop", [flags EXCEPT !.cancelled = TRUE])
          /\ KillOwned \/ UNCHANGED Processes
       \/ /\ Alive /\ flags.cancelled
          /\ Remember("query", [flags EXCEPT !.contain = TRUE]) /\ UNCHANGED Processes
    /\ UNCHANGED <<stranger, World, Streams>>

QueryJob ==
    /\ pc = "query"
    /\ IF Owned = {} /\ ~Alive
         THEN Next_("close") /\ UNCHANGED Processes
         ELSE /\ Remember("empty", [flags EXCEPT !.cleaned = TRUE])
              /\ KillOwned \/ UNCHANGED Processes
    /\ UNCHANGED <<stranger, World, Streams>>

PollJob ==
    /\ pc = "empty"
    /\ IF Owned = {} /\ ~Alive
         THEN Next_("close")
         ELSE Remember("close", [flags EXCEPT !.contain = TRUE])
    /\ UNCHANGED <<stranger, World, Processes, Streams>>

\* the job is created with kill-on-close
CloseJob ==
    /\ pc = "close"
    /\ Next_("join")
    /\ KillOwned
    /\ UNCHANGED <<stranger, World, Streams>>

JoinStreams ==
    /\ pc = "join"
    /\ \/ EndOfFile /\ Next_("classify")
       \/ Remember("classify", [flags EXCEPT !.drain = TRUE])
    /\ UNCHANGED <<stranger, World, Processes, Streams>>

(***************************************************************************)
(* execute: the order the causes are tried in.  Wait reports a nonzero     *)
(* exit before what became of the pipes.                                   *)
(***************************************************************************)
\* the exit status believed before the reasons the command was killed for
CauseByExit ==
    IF flags.contain THEN "containment"
    ELSE IF code # "zero" /\ ~capture THEN "exit"
    ELSE IF overflow THEN "overflow"
    ELSE "success"

Cause ==
    IF flags.contain THEN "containment"
    ELSE IF overflow THEN "overflow"
    ELSE IF caller THEN "cancelled"
    ELSE IF runCtx = "deadline" THEN "deadline"
    ELSE IF flags.drain THEN "drain"
    ELSE IF code # "zero" THEN IF capture THEN "success" ELSE "exit"
    ELSE IF flags.delay /\ (capture \/ ~flags.cleaned) THEN "drain"
    ELSE IF flags.torn THEN "access"
    ELSE "success"

Classify ==
    /\ pc = "classify"
    /\ Report(Cause)
    /\ UNCHANGED <<Call, flags, stranger, Processes, Streams, Contexts>>

ProcInit ==
    /\ adapter \in {"zombie", "reaped", "job"} /\ capture \in BOOLEAN
    /\ pc = "start"
    /\ leader = "unborn" /\ code = "none"
    /\ desc = [d \in Descendants |-> "unborn"]
    /\ sent = 0 /\ got = 0 /\ overflow = FALSE
    /\ caller = FALSE /\ runCtx = "live"
    /\ flags = NoFlags
    /\ stranger = "none"
    /\ result = "none"

Runner ==
    \/ StartPosix \/ AwaitExit \/ SweepGroup \/ Reap \/ HandOver \/ DrainPipes
    \/ PollGroup \/ KillAfterReap \/ PollSignalled
    \/ StartSuspended \/ AssignJob \/ ResumeThread \/ LoopJob \/ QueryJob \/ PollJob
    \/ CloseJob \/ JoinStreams \/ Classify

ProcNext ==
    \/ Runner \/ Copy \/ WatcherCancels \/ CallerCancels \/ DeadlineElapses
    \/ LeaderWrites \/ LeaderExits \/ RecycleId
    \/ \E d \in Descendants : Fork(d) \/ DescendantMoves(d)

\* The goroutines and the runner are scheduled, and time passes.  Nothing is
\* asked of the command: it need not exit, and its children need not either.
ProcFairness ==
    /\ WF_procVars(Runner)
    /\ WF_procVars(Copy)
    /\ WF_procVars(WatcherCancels)
    /\ WF_procVars(DeadlineElapses)

ProcSpec == ProcInit /\ [][ProcNext]_procVars /\ ProcFairness

(***************************************************************************)
(* Properties                                                              *)
(***************************************************************************)
\* What a call returns is what happened, whichever of the exit, the deadline,
\* the caller and the overflow came first: a success is a command that ended by
\* itself, with zero unless Capture asked, and carries every chunk it wrote
\* unless a pipe could not be read behind the nonzero exit of a Capture; and a
\* typed cause names an event that took place (Result.Stdout "never truncated on
\* success", Cause).
ReportIsTrue ==
    /\ ProcTypeOK
    /\ result = "success" =>
          /\ code = "zero" \/ (capture /\ code = "nonzero")
          /\ got = sent \/ (capture /\ code = "nonzero" /\ flags.torn)
    /\ result = "exit" => ~capture /\ code = "nonzero"
    /\ result = "overflow" => sent > Limit
    /\ result = "cancelled" => caller
    /\ result = "deadline" => runCtx = "deadline"

\* A call that does not report a containment failure leaves none of the
\* processes it owns behind, cancelled, failed or not.  A group that got the
\* recycled id is killed only by the documented fallback, which never swept, or
\* by a watcher that fired after the reap and before Wait told it to stop
\* (contain_posix.go, run_windows.go).
NothingOwnedSurvives ==
    /\ pc = "done" /\ result # "containment" => ~Alive /\ Owned = {}
    /\ stranger = "killed" => ~flags.swept \/ flags.late

\* Every call returns: a command that never exits is killed at the deadline, and
\* a descendant that escaped with the pipes open only costs the allowance.
CallReturns == <>(pc = "done")
=============================================================================
