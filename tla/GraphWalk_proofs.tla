-------------------------- MODULE GraphWalk_proofs --------------------------
(***************************************************************************)
(* Theorems about GraphWalk, for every graph, set of sessions, kind of     *)
(* workspace and bound.                                                    *)
(***************************************************************************)
EXTENDS GraphWalk, FiniteSetTheorems, TLAPS

USE WalkAssumption, NoneAssumption

-----------------------------------------------------------------------------
(***************************************************************************)
(* Claims.                                                                 *)
(***************************************************************************)
LEMMA ExpiredOnlyClears ==
  ASSUME NEW cl \in Claims
  PROVE  Expired(cl) \in Claims /\ Claimed(Expired(cl)) \subseteq Claimed(cl)
BY DEF Claims, Expired, Claimed

LEMMA ClearOnlyClears ==
  ASSUME NEW cl \in Claims, NEW n \in Nodes
  PROVE  /\ [cl EXCEPT ![n] = None] \in Claims
         /\ Claimed([cl EXCEPT ![n] = None]) \subseteq Claimed(cl)
BY DEF Claims, Claimed

LEMMA ClaimedFinite ==
  ASSUME NEW cl
  PROVE  IsFiniteSet(Claimed(cl)) /\ Cardinality(Claimed(cl)) \in Nat
<1>1. Claimed(cl) \subseteq Nodes
  BY DEF Claimed
<1> QED
  BY <1>1, FS_Subset, FS_CardinalityType

LEMMA FewerClaimsFit ==
  ASSUME NEW new, NEW old, Claimed(new) \subseteq Claimed(old),
         Cardinality(Claimed(old)) <= Capacity
  PROVE  Cardinality(Claimed(new)) <= Capacity
<1>1. Cardinality(Claimed(new)) <= Cardinality(Claimed(old))
  BY ClaimedFinite, FS_Subset
<1> QED
  BY <1>1, ClaimedFinite

LEMMA OneMoreClaimFits ==
  ASSUME NEW cl \in Claims, NEW n \in Nodes, NEW c \in ClaimRecord,
         Cardinality(Claimed(cl)) < Capacity
  PROVE  /\ [cl EXCEPT ![n] = c] \in Claims
         /\ Cardinality(Claimed([cl EXCEPT ![n] = c])) <= Capacity
<1> DEFINE new == [cl EXCEPT ![n] = c]
<1>1. \A m \in Nodes : new[m] = IF m = n THEN c ELSE cl[m]
  BY DEF Claims
<1>2. c # None
  OBVIOUS
<1>3. Claimed(new) = Claimed(cl) \cup {n}
  BY <1>1, <1>2 DEF Claimed
<1>4. new \in Claims
  BY DEF Claims
<1> HIDE DEF new
<1>5. IsFiniteSet(Claimed(cl)) /\ Cardinality(Claimed(cl)) \in Nat
  BY ClaimedFinite
<1>6. n \notin Claimed(cl) => Cardinality(Claimed(new)) = Cardinality(Claimed(cl)) + 1
  BY <1>3, <1>5, FS_AddElement, Zenon
<1>7. n \in Claimed(cl) => Claimed(new) = Claimed(cl)
  BY <1>3
<1>8. Cardinality(Claimed(new)) <= Capacity
  BY <1>5, <1>6, <1>7
<1> QED
  BY <1>4, <1>8 DEF new

-----------------------------------------------------------------------------
(***************************************************************************)
(* Types, the data of each step, and the capacity.                         *)
(***************************************************************************)
\* What a session at step l must have.
StepData(l, j, d) ==
  /\ l \in ClaimSteps \cup {"idlecheck", "teardown", "publish"} => j.node \in Nodes
  /\ l \in ClaimSteps => d # 0
  /\ l = "write" => j.new \in Claims /\ Cardinality(Claimed(j.new)) <= Capacity
  /\ l = "publish" => j.eval \in Evaluations /\ (j.eval.by = None => j.report \in Reports)
  /\ l = "reverify" => j.report \in Reports

SessionsTyped == /\ pc \in [Sessions -> PCs]
                 /\ job \in [Sessions -> Job]
                 /\ drawn \in [Sessions -> 0 .. MaxClaims]
                 /\ JobAtStep

\* One session moves, and it has what its new step asks for.
LEMMA OneSessionMoves ==
  ASSUME SessionsTyped, NEW s \in Sessions, NEW l \in PCs, NEW j \in Job,
         pc' = [pc EXCEPT ![s] = l], job' = [job EXCEPT ![s] = j],
         drawn' = drawn, StepData(l, j, drawn[s])
  PROVE  SessionsTyped'
<1>1. ASSUME NEW t \in Sessions
      PROVE  StepData(pc'[t], job'[t], drawn'[t])
  <2>1. CASE t = s
    BY <2>1 DEF SessionsTyped
  <2>2. CASE t # s
    BY <2>2 DEF SessionsTyped, JobAtStep, StepData
  <2> QED
    BY <2>1, <2>2
<1> QED
  BY <1>1 DEF SessionsTyped, JobAtStep, StepData, Claimed

WorldTyped ==
  /\ node \in [Nodes -> NodeRecord]
  /\ claim \in Claims
  /\ seq \in 0 .. MaxSeq
  /\ lapsed \subseteq Instances
  /\ dir \in [Nodes -> {None} \cup Worktree]
  /\ crashes \in 0 .. MaxCrashes
  /\ told \subseteq Instances
  /\ judged \in [Nodes -> {None} \cup Snapshots]
  /\ failed \subseteq Nodes \X Tests

Base == SessionsTyped /\ WorldTyped /\ WithinCapacity

LEMMA BaseParts == Base <=> TypeOK /\ JobAtStep /\ WithinCapacity
BY DEF Base, SessionsTyped, WorldTyped, TypeOK

LEMMA NoSessionMoves ==
  ASSUME SessionsTyped, UNCHANGED <<pc, job, drawn>>
  PROVE  SessionsTyped'
<1>1. pc' = pc /\ job' = job /\ drawn' = drawn
  OBVIOUS
<1> QED
  BY SMTT(30), <1>1 DEF SessionsTyped, JobAtStep, Claimed

LEMMA NoJobTyped == NoJob \in Job
BY DEF NoJob, Job

LEMMA OneSessionFinishes ==
  ASSUME SessionsTyped, NEW s \in Sessions, Finish(s), drawn' = drawn
  PROVE  SessionsTyped'
<1>1. StepData("idle", NoJob, drawn[s]) /\ "idle" \in PCs
  BY DEF StepData, ClaimSteps, PCs
<1> QED
  BY <1>1, NoJobTyped, OneSessionMoves DEF Finish, Goto

\* The records a step does not touch, and the claims it does not add to.
LEMMA WorldStays ==
  ASSUME Base, SessionsTyped', UNCHANGED <<graph, lapsed, record>>,
         dir' \in [Nodes -> {None} \cup Worktree], crashes' \in 0 .. MaxCrashes,
         told' \subseteq Instances
  PROVE  Base'
BY DEF Base, WorldTyped, WithinCapacity, Claimed, graph, record

LEMMA ClaimsShrink ==
  ASSUME Base, SessionsTyped', UNCHANGED <<node, seq, lapsed, dir, crashes, told, record>>,
         claim' \in Claims, Cardinality(Claimed(claim')) <= Capacity
  PROVE  Base'
BY DEF Base, WorldTyped, WithinCapacity, Claimed, record

LEMMA BaseInit == Init => Base
<1> SUFFICES ASSUME Init PROVE Base
  OBVIOUS
<1>1. node \in [Nodes -> NodeRecord]
  <2>1. PICK tests \in [Nodes -> Gates] :
          node = [n \in Nodes |-> [deps |-> Deps[n], paths |-> Paths[n], gate |-> "tests",
                                   full |-> FALSE, role |-> "implementation", rev |-> 1,
                                   tests |-> tests[n], red |-> {}, obs |-> None]]
    BY DEF Init
  <2> QED
    BY <2>1, WalkAssumption DEF NodeRecord
<1>2. WorldTyped
  BY <1>1 DEF Init, WorldTyped, Claims
<1>3. SessionsTyped
  BY NoJobTyped DEF Init, SessionsTyped, JobAtStep, ClaimSteps, PCs
<1>4. WithinCapacity
  <2>1. Claimed(claim) = {}
    BY DEF Init, Claimed
  <2> QED
    BY <2>1, FS_EmptySet DEF WithinCapacity
<1> QED
  BY <1>2, <1>3, <1>4 DEF Base

-----------------------------------------------------------------------------
(***************************************************************************)
(* The steps of a claim.                                                   *)
(***************************************************************************)
LEMMA SelectForBase ==
  ASSUME Base, NEW s \in Sessions, NEW k \in Nat, SelectFor(s, k)
  PROVE  Base'
<1>1. PICK n \in Nodes :
        job' = [job EXCEPT ![s] = [NoJob EXCEPT !.node = n, !.tries = k]]
  BY DEF SelectFor, Selectable
<1> DEFINE j == [NoJob EXCEPT !.node = n, !.tries = k]
<1>2. j \in Job /\ j.node \in Nodes
  BY DEF NoJob, Job
<1>3. drawn' = [drawn EXCEPT ![s] = drawn[s] + 1] /\ drawn[s] + 1 \in 1 .. MaxClaims
  BY DEF SelectFor, Base, SessionsTyped
<1>4. pc' = [pc EXCEPT ![s] = "confirm"]
  BY DEF SelectFor, Goto
<1> HIDE DEF j
<1>5. SessionsTyped'
  <2>1. /\ pc' \in [Sessions -> PCs]
        /\ job' \in [Sessions -> Job]
        /\ drawn' \in [Sessions -> 0 .. MaxClaims]
    BY <1>1, <1>2, <1>3, <1>4 DEF Base, SessionsTyped, PCs, ClaimSteps, j
  <2>2. ASSUME NEW t \in Sessions
        PROVE  StepData(pc'[t], job'[t], drawn'[t])
    <3>1. CASE t = s
      BY <3>1, <1>1, <1>2, <1>3, <1>4 DEF Base, SessionsTyped, StepData, ClaimSteps, j
    <3>2. CASE t # s
      BY <3>2, <1>1, <1>3, <1>4 DEF Base, SessionsTyped, JobAtStep, StepData
    <3> QED
      BY <3>1, <3>2
  <2> QED
    BY <2>1, <2>2 DEF SessionsTyped, JobAtStep, StepData, Claimed
<1> QED
  BY <1>5, WorldStays DEF SelectFor, Base, WorldTyped

LEMMA ClaimRefusedBase ==
  ASSUME Base, NEW s \in Sessions, ClaimRefused(s) \/ ConfirmInvalid(s)
  PROVE  Base'
<1>1. SessionsTyped'
  BY OneSessionFinishes DEF ClaimRefused, ConfirmInvalid, Base
<1> QED
  BY <1>1, WorldStays DEF ClaimRefused, ConfirmInvalid, Base, WorldTyped

LEMMA ConfirmBase ==
  ASSUME Base, NEW s \in Sessions, Confirm(s)
  PROVE  Base'
<1> DEFINE n   == job[s].node
           cl  == Expired(claim)
           ok  == n \in Selectable(cl)
           c   == [by |-> Name[s], inst |-> MyInstance(s)]
           new == IF ok THEN [cl EXCEPT ![n] = c] ELSE cl
           j   == [job[s] EXCEPT !.base = graph, !.new = new, !.raced = @ \/ ~ok]
<1>1. n \in Nodes /\ drawn[s] \in 1 .. MaxClaims /\ job[s] \in Job /\ claim \in Claims
  BY DEF Confirm, Base, SessionsTyped, WorldTyped, JobAtStep, ClaimSteps
<1>2. c \in ClaimRecord
  BY <1>1 DEF ClaimRecord, Names, Instances, MyInstance
<1>3. new \in Claims /\ Cardinality(Claimed(new)) <= Capacity
  <2>1. cl \in Claims /\ Cardinality(Claimed(cl)) <= Capacity
    BY <1>1, ExpiredOnlyClears, FewerClaimsFit DEF Base, WithinCapacity
  <2>2. CASE ok
    <3>1. Cardinality(Claimed(cl)) < Capacity
      BY <2>2 DEF Selectable
    <3> QED
      BY <3>1, <2>1, <2>2, <1>1, <1>2, OneMoreClaimFits
  <2>3. CASE ~ok
    BY <2>1, <2>3
  <2> QED
    BY <2>2, <2>3
<1>4. graph \in [Nodes -> NodeRecord] \X Claims \X (0 .. MaxSeq)
  BY DEF Base, WorldTyped, graph
<1>5. job' = [job EXCEPT ![s] = j] /\ pc' = [pc EXCEPT ![s] = "write"] /\ drawn' = drawn
  <2>1. job \in [Sessions -> Job]
    BY DEF Base, SessionsTyped
  <2>2. job' = [job EXCEPT ![s].base = graph, ![s].new = new, ![s].raced = @ \/ ~ok]
    BY Zenon DEF Confirm
  <2>3. job' = [job EXCEPT ![s] = j]
    <3> HIDE DEF new, ok
    <3> QED
      BY <2>1, <2>2
  <2> QED
    BY <2>3 DEF Confirm, Goto
<1>6. j \in Job /\ j.node = n /\ j.new = new
  <2> DEFINE r == job[s].raced \/ ~ok
  <2>1. r \in BOOLEAN /\ j = [job[s] EXCEPT !.base = graph, !.new = new, !.raced = r]
    OBVIOUS
  <2> HIDE DEF new, r, j
  <2> QED
    BY <2>1, <1>1, <1>3, <1>4 DEF Job
<1>7. StepData("write", j, drawn[s]) /\ "write" \in PCs
  <2> HIDE DEF new, j, n
  <2>1. drawn[s] # 0
    BY <1>1
  <2> QED
    BY <2>1, <1>1, <1>3, <1>6 DEF StepData, ClaimSteps, PCs
<1>8. SessionsTyped'
  <2> HIDE DEF j
  <2> QED
    BY <1>5, <1>6, <1>7, OneSessionMoves DEF Base
<1> QED
  BY <1>8, WorldStays DEF Confirm, Base, WorldTyped

LEMMA ConfirmWriteBase ==
  ASSUME Base, NEW s \in Sessions, ConfirmWrite(s)
  PROVE  Base'
<1>1. /\ job[s].node \in Nodes /\ drawn[s] # 0 /\ job[s] \in Job /\ pc[s] \in PCs
      /\ job[s].new \in Claims /\ Cardinality(Claimed(job[s].new)) <= Capacity
  BY DEF ConfirmWrite, Base, SessionsTyped, JobAtStep, ClaimSteps
<1>2. drawn' = drawn /\ claim' = job[s].new
  BY DEF ConfirmWrite
<1>3. SessionsTyped'
  <2>1. CASE Goto(s, "allocate") /\ job' = job
    <3>1. StepData("allocate", job[s], drawn[s]) /\ "allocate" \in PCs
      BY <1>1 DEF StepData, ClaimSteps, PCs
    <3>2. job' = [job EXCEPT ![s] = job[s]]
      BY <2>1 DEF Base, SessionsTyped
    <3> QED
      BY <2>1, <3>1, <3>2, <1>1, <1>2, OneSessionMoves DEF Goto, Base
  <2>2. CASE Goto(s, "select") /\ job' = [job EXCEPT ![s].tries = @ + 1]
    <3> DEFINE j == [job[s] EXCEPT !.tries = @ + 1]
    <3>1. StepData("select", j, drawn[s]) /\ "select" \in PCs
      BY DEF StepData, ClaimSteps, PCs
    <3>2. j \in Job
      BY <1>1 DEF Job
    <3> QED
      BY <2>2, <3>1, <3>2, <1>2, OneSessionMoves DEF Goto, Base
  <2>3. CASE Finish(s)
    BY <2>3, <1>2, OneSessionFinishes DEF Base
  <2> QED
    BY <2>1, <2>2, <2>3 DEF ConfirmWrite
<1> QED
  BY <1>1, <1>2, <1>3, ClaimsShrink DEF ConfirmWrite

LEMMA ConfirmCollidesBase ==
  ASSUME Base, NEW s \in Sessions, ConfirmCollides(s)
  PROVE  Base'
<1>1. job[s].node \in Nodes /\ drawn[s] # 0 /\ job[s] \in Job /\ drawn' = drawn
  BY DEF ConfirmCollides, Base, SessionsTyped, JobAtStep, ClaimSteps
<1>2. CASE /\ Goto(s, "confirm")
           /\ job' = [job EXCEPT ![s].hits = @ + 1, ![s].base = None, ![s].new = None]
  <2> DEFINE h == job[s].hits + 1
             j == [job[s] EXCEPT !.hits = h, !.base = None, !.new = None]
  <2>1. j \in Job /\ j.node = job[s].node
    <3>1. h \in Nat
      BY <1>1 DEF Job
    <3> HIDE DEF h
    <3> QED
      BY <3>1, <1>1 DEF Job
  <2>2. job' = [job EXCEPT ![s] = j]
    BY <1>2 DEF Base, SessionsTyped
  <2>3. StepData("confirm", j, drawn[s]) /\ "confirm" \in PCs
    BY <2>1, <1>1 DEF StepData, ClaimSteps, PCs
  <2> HIDE DEF j
  <2>4. SessionsTyped'
    BY <1>1, <1>2, <2>1, <2>2, <2>3, OneSessionMoves DEF Goto, Base
  <2> QED
    BY <2>4, WorldStays DEF ConfirmCollides, Base, WorldTyped
<1>3. CASE Finish(s)
  <2>1. SessionsTyped'
    BY <1>1, <1>3, OneSessionFinishes DEF Base
  <2> QED
    BY <2>1, WorldStays DEF ConfirmCollides, Base, WorldTyped
<1> QED
  BY <1>2, <1>3 DEF ConfirmCollides

LEMMA AllocateBase ==
  ASSUME Base, NEW s \in Sessions, Allocate(s)
  PROVE  Base'
<1>1. job[s].node \in Nodes /\ drawn[s] \in 1 .. MaxClaims
  BY DEF Allocate, Base, SessionsTyped, JobAtStep, ClaimSteps
<1>2. MyInstance(s) \in Instances
  BY <1>1 DEF MyInstance, Instances
<1>3. SessionsTyped'
  BY OneSessionFinishes DEF Allocate, Base
<1>4. dir' \in [Nodes -> {None} \cup Worktree]
  BY <1>1, <1>2 DEF Allocate, Base, WorldTyped, Worktree
<1> QED
  BY <1>2, <1>3, <1>4, WorldStays DEF Allocate, Base, WorldTyped

LEMMA AllocateFailsBase ==
  ASSUME Base, NEW s \in Sessions, AllocateFails(s)
  PROVE  Base'
<1>1. StepData("rollback", job[s], drawn[s]) /\ "rollback" \in PCs /\ job[s] \in Job
  BY DEF AllocateFails, Base, SessionsTyped, JobAtStep, StepData, ClaimSteps, PCs
<1>2. job' = [job EXCEPT ![s] = job[s]]
  BY DEF AllocateFails, Base, SessionsTyped
<1>3. SessionsTyped'
  BY <1>1, <1>2, OneSessionMoves DEF AllocateFails, Goto, Base
<1> QED
  BY <1>3, WorldStays DEF AllocateFails, Base, WorldTyped

LEMMA RollbackBase ==
  ASSUME Base, NEW s \in Sessions, Rollback(s)
  PROVE  Base'
<1>1. job[s].node \in Nodes /\ claim \in Claims
  BY DEF Rollback, Base, SessionsTyped, WorldTyped, JobAtStep, ClaimSteps
<1>2. SessionsTyped'
  BY OneSessionFinishes DEF Rollback, Base
<1>3. claim' = claim \/ claim' = [claim EXCEPT ![job[s].node] = None]
  BY DEF Rollback
<1>4. claim' \in Claims /\ Claimed(claim') \subseteq Claimed(claim)
  BY <1>1, <1>3, ClearOnlyClears
<1> QED
  BY <1>2, <1>4, FewerClaimsFit, ClaimsShrink DEF Rollback, Base, WithinCapacity

-----------------------------------------------------------------------------
(***************************************************************************)
(* The steps of a release and of gc.                                       *)
(***************************************************************************)
LEMMA ReleaseBase ==
  ASSUME Base, NEW s \in Sessions, NEW n \in Nodes, NEW force \in BOOLEAN,
         Release(s, n, force)
  PROVE  Base'
<1>1. claim' \in Claims /\ Claimed(claim') \subseteq Claimed(claim)
  BY ClearOnlyClears DEF Release, Base, WorldTyped
<1>2. SessionsTyped'
  <2>1. CASE Isolated
    <3> DEFINE j == [job[s] EXCEPT !.node = n]
    <3>1. j \in Job /\ j.node = n
      BY DEF Base, SessionsTyped, Job
    <3>2. StepData("idlecheck", j, drawn[s]) /\ "idlecheck" \in PCs
      BY <3>1 DEF StepData, ClaimSteps, PCs
    <3>3. job' = [job EXCEPT ![s] = j] /\ pc' = [pc EXCEPT ![s] = "idlecheck"] /\ drawn' = drawn
      BY <2>1 DEF Release, Goto, Base, SessionsTyped
    <3> HIDE DEF j
    <3> QED
      BY <3>1, <3>2, <3>3, OneSessionMoves DEF Base
  <2>2. CASE ~Isolated
    BY <2>2, NoSessionMoves DEF Release, Base
  <2> QED
    BY <2>1, <2>2
<1> QED
  BY <1>1, <1>2, FewerClaimsFit, ClaimsShrink DEF Release, Base, WithinCapacity

LEMMA CheckIdleBase ==
  ASSUME Base, NEW s \in Sessions, CheckIdle(s)
  PROVE  Base'
<1>1. SessionsTyped'
  <2>1. CASE Goto(s, "teardown") /\ job' = job
    <3>1. StepData("teardown", job[s], drawn[s]) /\ "teardown" \in PCs /\ job[s] \in Job
      BY DEF CheckIdle, Base, SessionsTyped, JobAtStep, StepData, ClaimSteps, PCs
    <3>2. job' = [job EXCEPT ![s] = job[s]]
      BY <2>1 DEF Base, SessionsTyped
    <3> QED
      BY <2>1, <3>1, <3>2, OneSessionMoves DEF CheckIdle, Goto, Base
  <2>2. CASE Finish(s)
    BY <2>2, OneSessionFinishes DEF CheckIdle, Base
  <2> QED
    BY <2>1, <2>2 DEF CheckIdle
<1> QED
  BY <1>1, WorldStays DEF CheckIdle, Base, WorldTyped

LEMMA TeardownBase ==
  ASSUME Base, NEW s \in Sessions, Teardown(s)
  PROVE  Base'
<1>1. SessionsTyped'
  BY OneSessionFinishes DEF Teardown, Base
<1>2. dir' \in [Nodes -> {None} \cup Worktree]
  BY DEF Teardown, Base, WorldTyped
<1> QED
  BY <1>1, <1>2, WorldStays DEF Teardown, Base, WorldTyped

LEMMA GCExpireBase ==
  ASSUME Base, NEW s \in Sessions, GCExpire(s)
  PROVE  Base'
<1>1. claim' \in Claims /\ Claimed(claim') \subseteq Claimed(claim)
  BY ExpiredOnlyClears DEF GCExpire, Base, WorldTyped
<1>2. StepData("gcload", job[s], drawn[s]) /\ "gcload" \in PCs /\ job[s] \in Job
  BY DEF Base, SessionsTyped, StepData, ClaimSteps, PCs
<1>3. job' = [job EXCEPT ![s] = job[s]]
  BY DEF GCExpire, Base, SessionsTyped
<1>4. SessionsTyped'
  BY <1>2, <1>3, OneSessionMoves DEF GCExpire, Goto, Base
<1> QED
  BY <1>1, <1>4, FewerClaimsFit, ClaimsShrink DEF GCExpire, Base, WithinCapacity

\* The steps of gc that only look, and those of a batch that only plan.
LEMMA OnlyTheListChanges ==
  ASSUME Base, NEW s \in Sessions, NEW l \in {"gclist", "gcreap", "reverify"},
         NEW j \in Job, Goto(s, l), job' = [job EXCEPT ![s] = j], drawn' = drawn,
         l = "reverify" => j.report \in Reports
  PROVE  SessionsTyped'
<1>1. StepData(l, j, drawn[s]) /\ l \in PCs
  BY DEF StepData, ClaimSteps, PCs
<1> QED
  BY <1>1, OneSessionMoves DEF Goto, Base

LEMMA GCLoadBase ==
  ASSUME Base, NEW s \in Sessions, GCLoad(s)
  PROVE  Base'
<1> DEFINE active == IF Isolated THEN Claimed(claim) ELSE {}
           j      == [job[s] EXCEPT !.active = active]
<1>1. active \subseteq Nodes
  BY DEF Claimed
<1>2. job' = [job EXCEPT ![s] = j] /\ Goto(s, "gclist") /\ drawn' = drawn
  BY DEF GCLoad, Base, SessionsTyped
<1>3. j \in Job
  <2> HIDE DEF active
  <2> QED
    BY SMTT(30), <1>1 DEF Job, Base, SessionsTyped
<1>4. SessionsTyped'
  <2> HIDE DEF j
  <2> QED
    BY <1>2, <1>3, OnlyTheListChanges
<1> QED
  BY <1>4, WorldStays DEF GCLoad, Base, WorldTyped

LEMMA GCListBase ==
  ASSUME Base, NEW s \in Sessions, GCList(s)
  PROVE  Base'
<1> DEFINE j == [job[s] EXCEPT !.todo = {n \in Nodes : dir[n] # None}]
<1>1. job' = [job EXCEPT ![s] = j] /\ Goto(s, "gcreap") /\ drawn' = drawn
  BY DEF GCList, Base, SessionsTyped
<1>2. j \in Job
  BY SMTT(30) DEF Job, Base, SessionsTyped
<1>3. SessionsTyped'
  <2> HIDE DEF j
  <2> QED
    BY <1>1, <1>2, OnlyTheListChanges
<1> QED
  BY <1>3, WorldStays DEF GCList, Base, WorldTyped

LEMMA GCReapBase ==
  ASSUME Base, NEW s \in Sessions, NEW n \in Nodes, GCReap(s, n)
  PROVE  Base'
<1> DEFINE rest == job[s].todo \ {n}
           j    == [job[s] EXCEPT !.todo = rest]
<1>1. job' = [job EXCEPT ![s] = j] /\ Goto(s, "gcreap") /\ drawn' = drawn
  BY DEF GCReap, Goto, Base, SessionsTyped
<1>2. j \in Job
  <2>1. job[s] \in Job
    BY DEF Base, SessionsTyped
  <2>2. rest \subseteq Nodes
    BY <2>1 DEF Job
  <2> HIDE DEF rest
  <2> QED
    BY <2>1, <2>2 DEF Job
<1>3. SessionsTyped'
  <2> HIDE DEF j
  <2> QED
    BY <1>1, <1>2, OnlyTheListChanges
<1>4. dir' \in [Nodes -> {None} \cup Worktree]
  BY DEF GCReap, Base, WorldTyped
<1> QED
  BY <1>3, <1>4, WorldStays DEF GCReap, Base, WorldTyped

LEMMA EndBase ==
  ASSUME Base, NEW s \in Sessions, GCEnd(s) \/ ReverifyEnd(s)
  PROVE  Base'
<1>1. SessionsTyped'
  BY OneSessionFinishes DEF GCEnd, ReverifyEnd, Base
<1> QED
  BY <1>1, WorldStays DEF GCEnd, ReverifyEnd, Base, WorldTyped

-----------------------------------------------------------------------------
(***************************************************************************)
(* The steps of sync and reverify.                                         *)
(***************************************************************************)
LEMMA ReportOutcome ==
  ASSUME Base, NEW n \in Nodes, NEW r \in Reports
  PROVE  Outcome(n, r) \in Results /\ FailedIds(n, r) \subseteq TestIds
<1>1. node[n].tests \in Gates
  BY DEF Base, WorldTyped, NodeRecord
<1>2. node[n].tests \subseteq Tests
  BY <1>1
<1> QED
  BY <1>2 DEF Outcome, Results, FailedIds, GateIds, TestIds

LEMMA ContractTyped ==
  ASSUME Base, NEW n \in Nodes
  PROVE  node[n].rev \in Nat /\ node[n].tests \in Gates
<1>1. node[n] \in NodeRecord
  BY DEF Base, WorldTyped
<1>2. node[n].rev \in 1 .. MaxRev /\ node[n].tests \in Gates
  BY <1>1 DEF NodeRecord
<1> QED
  BY <1>2

LEMMA SnapshotTyped ==
  ASSUME Base, NEW n \in Nodes
  PROVE  Snapshot(n) \in Snapshots
BY DEF Base, WorldTyped, NodeRecord, Snapshot, Snapshots

LEMMA EvaluationTyped ==
  ASSUME Base, NEW n \in Nodes, NEW r \in Reports, NEW by \in {None} \cup Names
  PROVE  Evaluation(n, r, by) \in Evaluations
<1> DEFINE handle == Isolated /\ claim[n] # None
           inst   == IF claim[n] = None THEN None ELSE claim[n].inst
           clean  == IsolationClean(handle)
<1>1. Outcome(n, r) \in Results /\ FailedIds(n, r) \subseteq TestIds
      /\ Snapshot(n) \in Snapshots
  BY ReportOutcome, SnapshotTyped
<1>2. handle \in BOOLEAN /\ clean \in BOOLEAN
  BY DEF IsolationClean, Claimed
<1>3. inst \in {None} \cup Instances
  BY DEF Base, WorldTyped, Claims, ClaimRecord
<1>4. Evaluation(n, r, by) =
        [snap |-> Snapshot(n), handle |-> handle, report |-> r, by |-> by,
         result |-> Outcome(n, r), red |-> FailedIds(n, r), clean |-> clean,
         inst |-> inst]
  BY DEF Evaluation
<1> HIDE DEF handle, inst, clean
<1> QED
  BY <1>1, <1>2, <1>3, <1>4 DEF Evaluations

\* A session goes on to publish what it evaluated.
LEMMA EvaluationIsPublished ==
  ASSUME Base, NEW s \in Sessions, NEW n \in Nodes, NEW e \in Evaluations,
         NEW rest \in SUBSET Nodes, Goto(s, "publish"), drawn' = drawn,
         e.by = None => job[s].report \in Reports,
         job' = [job EXCEPT ![s] = [job[s] EXCEPT !.node = n, !.todo = rest, !.eval = e]]
  PROVE  SessionsTyped'
<1> DEFINE j == [job[s] EXCEPT !.node = n, !.todo = rest, !.eval = e]
<1>1. job[s] \in Job
  BY DEF Base, SessionsTyped
<1>2. j \in Job /\ j.node = n /\ j.eval = e /\ j.report = job[s].report
  BY <1>1 DEF Job
<1>3. StepData("publish", j, drawn[s]) /\ "publish" \in PCs
  BY <1>2 DEF StepData, ClaimSteps, PCs
<1> HIDE DEF j
<1> QED
  BY <1>2, <1>3, OneSessionMoves DEF Goto, Base, j

LEMMA SyncBase ==
  ASSUME Base, NEW s \in Sessions, NEW n \in Nodes, NEW r \in Reports, Sync(s, n, r)
  PROVE  Base'
<1> DEFINE e    == Evaluation(n, r, Name[s])
           rest == job[s].todo
<1>1. e \in Evaluations /\ e.by # None
  BY EvaluationTyped DEF Names, Evaluation
<1>2. job[s] \in Job /\ rest \in SUBSET Nodes
  <2>1. job[s] \in Job
    BY DEF Base, SessionsTyped
  <2> QED
    BY <2>1 DEF Job
<1> HIDE DEF e
<1>3. job' = [job EXCEPT ![s] = [job[s] EXCEPT !.node = n, !.todo = rest, !.eval = e]]
  <2>1. job' = [job EXCEPT ![s].node = n, ![s].eval = e]
    BY DEF Sync, e
  <2>2. job' = [job EXCEPT ![s] = [job[s] EXCEPT !.node = n, !.eval = e]]
    BY <2>1 DEF Base, SessionsTyped
  <2>3. [job[s] EXCEPT !.node = n, !.todo = rest, !.eval = e]
         = [job[s] EXCEPT !.node = n, !.eval = e]
    BY <1>2 DEF Job
  <2> QED
    BY <2>2, <2>3
<1> HIDE DEF rest
<1>4. SessionsTyped'
  BY <1>1, <1>2, <1>3, EvaluationIsPublished DEF Sync
<1> QED
  BY <1>4, WorldStays DEF Sync, Base, WorldTyped

LEMMA ResumeTyped ==
  ASSUME Base, NEW s \in Sessions, Resume(s), drawn' = drawn,
         job[s].eval.by = None => job[s].report \in Reports
  PROVE  SessionsTyped'
<1>1. CASE /\ job[s].eval.by = None /\ Goto(s, "reverify")
           /\ job' = [job EXCEPT ![s].node = None, ![s].eval = None]
  <2> DEFINE j == [job[s] EXCEPT !.node = None, !.eval = None]
  <2>1. job[s] \in Job
    BY DEF Base, SessionsTyped
  <2>2. j \in Job /\ j.report = job[s].report
    BY <2>1 DEF Job
  <2>3. job' = [job EXCEPT ![s] = j]
    BY <1>1 DEF Base, SessionsTyped
  <2> HIDE DEF j
  <2> QED
    BY <1>1, <2>2, <2>3, OnlyTheListChanges
<1>2. CASE Finish(s)
  BY <1>2, OneSessionFinishes DEF Base
<1> QED
  BY <1>1, <1>2 DEF Resume

LEMMA PublishRefusedBase ==
  ASSUME Base, NEW s \in Sessions, PublishRefused(s)
  PROVE  Base'
<1>1. SessionsTyped'
  BY ResumeTyped DEF PublishRefused, Base, SessionsTyped, JobAtStep
<1> QED
  BY <1>1, WorldStays DEF PublishRefused, Base, WorldTyped

LEMMA PublishBase ==
  ASSUME Base, NEW s \in Sessions, Publish(s)
  PROVE  Base'
<1> DEFINE n   == job[s].node
           e   == job[s].eval
           obs == [result |-> e.result, seq |-> seq + 1, rev |-> node[n].rev,
                   clean |-> e.clean, report |-> e.report, reviewed |-> None]
           red == node[n].red \cup e.red
<1>1. n \in Nodes /\ e \in Evaluations /\ job[s] \in Job /\ node[n] \in NodeRecord
  BY DEF Publish, Base, SessionsTyped, WorldTyped, JobAtStep
<1>2. seq + 1 \in 1 .. MaxSeq /\ seq' = seq + 1
  BY DEF Publish, Base, WorldTyped
<1>3. SessionsTyped'
  <2>1. CASE Goto(s, "teardown") /\ job' = [job EXCEPT ![s].eval = None]
    <3> DEFINE j == [job[s] EXCEPT !.eval = None]
    <3>1. j \in Job /\ j.node = n
      BY <1>1 DEF Job
    <3>2. StepData("teardown", j, drawn[s]) /\ "teardown" \in PCs
      <4> HIDE DEF j
      <4> QED
        BY <3>1, <1>1 DEF StepData, ClaimSteps, PCs
    <3>3. job' = [job EXCEPT ![s] = j]
      BY <2>1 DEF Base, SessionsTyped
    <3> HIDE DEF j
    <3> QED
      BY <2>1, <3>1, <3>2, <3>3, OneSessionMoves DEF Publish, Goto, Base
  <2>2. CASE Resume(s)
    BY <2>2, ResumeTyped DEF Publish, Base, SessionsTyped, JobAtStep
  <2> QED
    BY <2>1, <2>2 DEF Publish
<1>4. obs \in Observation /\ red \subseteq TestIds
  BY <1>1, <1>2 DEF Observation, Evaluations, NodeRecord
<1>5. node' = [node EXCEPT ![n] = [node[n] EXCEPT !.obs = obs, !.red = red]]
  <2>1. node' = [node EXCEPT ![n].obs = obs, ![n].red = @ \cup e.red]
    BY Zenon DEF Publish
  <2>2. node \in [Nodes -> NodeRecord]
    BY DEF Base, WorldTyped
  <2> HIDE DEF obs
  <2> QED
    BY <1>1, <2>1, <2>2 DEF NodeRecord
<1>6. node' \in [Nodes -> NodeRecord]
  <2> HIDE DEF obs, red, n, e
  <2>1. [node[n] EXCEPT !.obs = obs, !.red = red] \in NodeRecord
    BY <1>1, <1>4 DEF NodeRecord
  <2> QED
    BY <1>1, <1>5, <2>1 DEF Base, WorldTyped
<1>7. claim' \in Claims /\ Claimed(claim') \subseteq Claimed(claim)
  <2>1. claim' = claim \/ claim' = [claim EXCEPT ![n] = None]
    BY DEF Publish
  <2>2. claim \in Claims /\ n \in Nodes
    BY <1>1 DEF Base, WorldTyped
  <2> HIDE DEF n
  <2> QED
    BY <2>1, <2>2, ClearOnlyClears
<1>8. lapsed' \subseteq Instances
  <2>1. lapsed' = lapsed \/ lapsed' = lapsed \ {claim[n].inst}
    BY DEF Publish
  <2> QED
    BY <2>1 DEF Base, WorldTyped
<1>9. judged' \in [Nodes -> {None} \cup Snapshots]
  <2>1. e.snap \in Snapshots
    BY <1>1 DEF Evaluations
  <2>2. judged' = [judged EXCEPT ![n] = e.snap] /\ judged \in [Nodes -> {None} \cup Snapshots]
    BY DEF Publish, Base, WorldTyped
  <2> HIDE DEF n, e
  <2> QED
    BY <1>1, <2>1, <2>2
<1>10. failed' \subseteq Nodes \X Tests
  <2>1. e.snap.tests \subseteq Tests
    BY <1>1 DEF Evaluations, Snapshots
  <2> QED
    BY <1>1, <2>1 DEF Publish, Base, WorldTyped
<1>11. WithinCapacity'
  BY <1>7, FewerClaimsFit DEF Base, WithinCapacity, Claimed
<1> HIDE DEF n, e
<1> QED
  BY <1>2, <1>3, <1>6, <1>7, <1>8, <1>9, <1>10, <1>11 DEF Publish, Base, WorldTyped

LEMMA ReverifyBeginBase ==
  ASSUME Base, NEW s \in Sessions, NEW r \in Reports, ReverifyBegin(s, r)
  PROVE  Base'
<1> DEFINE rest == TopoSort(node) \ Claimed(claim)
           j    == [job[s] EXCEPT !.todo = rest, !.report = r]
<1>1. rest \subseteq Nodes
  BY DEF TopoSort, Least, Base, WorldTyped
<1>2. j \in Job
  <2>1. job[s] \in Job
    BY DEF Base, SessionsTyped
  <2> HIDE DEF rest
  <2> QED
    BY <1>1, <2>1 DEF Job
<1>5. j.report = r
  <2>1. job[s] \in Job
    BY DEF Base, SessionsTyped
  <2> QED
    BY <2>1 DEF Job
<1>3. job' = [job EXCEPT ![s] = j] /\ Goto(s, "reverify") /\ drawn' = drawn
  <2>1. job' = [job EXCEPT ![s].todo = rest, ![s].report = r]
    BY DEF ReverifyBegin
  <2> HIDE DEF rest
  <2>2. job' = [job EXCEPT ![s] = j]
    BY <2>1 DEF Base, SessionsTyped
  <2> QED
    BY <2>2 DEF ReverifyBegin
<1>4. SessionsTyped'
  <2> HIDE DEF j
  <2> QED
    BY <1>2, <1>3, <1>5, OnlyTheListChanges
<1> QED
  BY <1>4, WorldStays DEF ReverifyBegin, Base, WorldTyped

LEMMA ReverifyNodeBase ==
  ASSUME Base, NEW s \in Sessions, NEW n \in Nodes, ReverifyNode(s, n)
  PROVE  Base'
<1> DEFINE r    == job[s].report
           rest == job[s].todo \ {n}
           e    == Evaluation(n, r, None)
<1>1. job[s] \in Job /\ rest \in SUBSET Nodes /\ r \in Reports
  <2>1. job[s] \in Job
    BY DEF Base, SessionsTyped
  <2>2. r \in Reports
    BY DEF ReverifyNode, Base, SessionsTyped, JobAtStep
  <2> QED
    BY <2>1, <2>2 DEF Job
<1>2. CASE /\ job' = [job EXCEPT ![s].node = n, ![s].todo = rest, ![s].eval = e]
           /\ Goto(s, "publish")
  <2>1. e \in Evaluations
    BY <1>1, EvaluationTyped
  <2> HIDE DEF e, rest
  <2>2. job' = [job EXCEPT ![s] = [job[s] EXCEPT !.node = n, !.todo = rest, !.eval = e]]
    BY <1>2 DEF Base, SessionsTyped
  <2>3. SessionsTyped'
    <3>1. drawn' = drawn /\ job[s].report \in Reports
      BY <1>1 DEF ReverifyNode
    <3> QED
      BY <1>1, <1>2, <2>1, <2>2, <3>1, EvaluationIsPublished
  <2> QED
    BY <2>3, WorldStays DEF ReverifyNode, Base, WorldTyped
<1>3. CASE job' = [job EXCEPT ![s].todo = rest] /\ pc' = pc
  <2> DEFINE j == [job[s] EXCEPT !.todo = rest]
  <2>1. j \in Job /\ j.report = r
    <3> HIDE DEF rest
    <3> QED
      BY <1>1 DEF Job
  <2>2. job' = [job EXCEPT ![s] = j]
    BY <1>3 DEF Base, SessionsTyped
  <2>3. Goto(s, "reverify") /\ drawn' = drawn
    BY <1>3 DEF ReverifyNode, Goto, Base, SessionsTyped
  <2> HIDE DEF j
  <2>4. SessionsTyped'
    BY <1>1, <2>1, <2>2, <2>3, OnlyTheListChanges
  <2> QED
    BY <2>4, WorldStays DEF ReverifyNode, Base, WorldTyped
<1> QED
  BY <1>2, <1>3 DEF ReverifyNode

-----------------------------------------------------------------------------
(***************************************************************************)
(* Changes of contract, time, workers and death.                           *)
(***************************************************************************)
LEMMA EditBase ==
  ASSUME Base, NEW n \in Nodes, NEW r \in NodeRecord, node' = [node EXCEPT ![n] = r],
         UNCHANGED <<claim, seq, lapsed, dir, pc, job, drawn, crashes, told, dead, record>>
  PROVE  Base'
<1>1. SessionsTyped'
  BY NoSessionMoves DEF Base
<1> QED
  BY <1>1 DEF Base, WorldTyped, WithinCapacity, Claimed, record

LEMMA SetTestsBase ==
  ASSUME Base, NEW s \in Sessions, NEW n \in Nodes, NEW new \in Gates, SetTests(s, n, new)
  PROVE  Base'
<1> DEFINE seen == node[n].obs # None
           rev  == IF seen THEN node[n].rev + 1 ELSE node[n].rev
           red  == IF seen THEN CarryOver(node[n].tests, new, node[n].red)
                   ELSE node[n].red \cap {t.id : t \in new}
           r    == [node[n] EXCEPT !.tests = new, !.rev = rev, !.red = red]
<1>1. node[n] \in NodeRecord /\ node \in [Nodes -> NodeRecord]
  BY DEF Base, WorldTyped
<1>2. rev \in 1 .. MaxRev /\ red \in SUBSET TestIds
  BY <1>1 DEF SetTests, NodeRecord, CarryOver
<1>3. node' = [node EXCEPT ![n] = r]
  <2>1. node' = [node EXCEPT
           ![n].tests = new,
           ![n].rev   = IF seen THEN @ + 1 ELSE @,
           ![n].red   = IF seen THEN CarryOver(node[n].tests, new, @)
                                ELSE @ \cap {t.id : t \in new}]
    BY Zenon DEF SetTests, WithTests
  <2>2. node' = [node EXCEPT ![n].tests = new, ![n].rev = rev, ![n].red = red]
    BY <1>1, <2>1 DEF NodeRecord
  <2> HIDE DEF rev, red
  <2> QED
    BY <1>1, <2>2
<1>4. r \in NodeRecord
  <2> HIDE DEF rev, red
  <2> QED
    BY <1>1, <1>2 DEF NodeRecord
<1> HIDE DEF r
<1> QED
  BY <1>3, <1>4, EditBase DEF SetTests

LEMMA SetArtifactsBase ==
  ASSUME Base, NEW s \in Sessions, NEW n \in Nodes, NEW new \in WriteSets,
         SetArtifacts(s, n, new)
  PROVE  Base'
<1> DEFINE seen == node[n].obs # None
           rev  == IF seen THEN node[n].rev + 1 ELSE node[n].rev
           r    == [node[n] EXCEPT !.paths = new, !.rev = rev]
<1>1. node[n] \in NodeRecord /\ node \in [Nodes -> NodeRecord]
  BY DEF Base, WorldTyped
<1>2. rev \in 1 .. MaxRev
  BY <1>1 DEF SetArtifacts, NodeRecord
<1>3. node' = [node EXCEPT ![n] = r]
  <2>1. node' = [node EXCEPT ![n].paths = new, ![n].rev = IF seen THEN @ + 1 ELSE @]
    BY Zenon DEF SetArtifacts
  <2>2. node' = [node EXCEPT ![n].paths = new, ![n].rev = rev]
    BY <1>1, <2>1 DEF NodeRecord
  <2> HIDE DEF rev
  <2> QED
    BY <1>1, <2>2
<1>4. r \in NodeRecord
  <2> HIDE DEF rev
  <2> QED
    BY <1>1, <1>2 DEF NodeRecord
<1> HIDE DEF r
<1> QED
  BY <1>3, <1>4, EditBase DEF SetArtifacts

LEMMA LeaseLapsesBase ==
  ASSUME Base, NEW n \in Nodes, LeaseLapses(n)
  PROVE  Base'
<1>1. SessionsTyped'
  BY NoSessionMoves DEF LeaseLapses, Base
<1>2. lapsed' \subseteq Instances
  BY DEF LeaseLapses, Base, WorldTyped, Claims, ClaimRecord
<1> QED
  BY <1>1, <1>2 DEF LeaseLapses, Base, WorldTyped, WithinCapacity, Claimed, graph, record

LEMMA WorkerWorksBase ==
  ASSUME Base, NEW n \in Nodes, WorkerWorks(n)
  PROVE  Base'
<1>1. SessionsTyped'
  BY NoSessionMoves DEF WorkerWorks, Base
<1>2. dir' \in [Nodes -> {None} \cup Worktree]
  BY DEF WorkerWorks, Base, WorldTyped, Worktree
<1> QED
  BY <1>1, <1>2, WorldStays DEF WorkerWorks, Base, WorldTyped

LEMMA CrashBase ==
  ASSUME Base, NEW s \in Sessions, Crash(s)
  PROVE  Base'
<1>1. SessionsTyped'
  BY OneSessionFinishes DEF Crash, Base
<1>2. crashes' \in 0 .. MaxCrashes
  BY DEF Crash, Base, WorldTyped
<1> QED
  BY <1>1, <1>2, WorldStays DEF Crash, Base, WorldTyped

LEMMA StutterBase ==
  ASSUME Base, UNCHANGED vars
  PROVE  Base'
<1>1. SessionsTyped'
  BY NoSessionMoves DEF vars, Base
<1> QED
  BY <1>1, WorldStays DEF vars, graph, record, Base, WorldTyped

LEMMA BaseNext ==
  ASSUME Base, [Next]_vars
  PROVE  Base'
<1>1. CASE UNCHANGED vars
  BY <1>1, StutterBase
<1>2. ASSUME NEW s \in Sessions, Begin(s)
      PROVE  Base'
  <2>1. CASE ClaimBegin(s)
    BY <2>1, SelectForBase DEF ClaimBegin
  <2>2. CASE GCExpire(s)
    BY <2>2, GCExpireBase
  <2>3. CASE \E n \in Nodes : \E force \in BOOLEAN : Release(s, n, force)
    BY <2>3, ReleaseBase
  <2>4. CASE \E n \in Nodes : \E r \in Reports : Sync(s, n, r)
    BY <2>4, SyncBase
  <2>5. CASE \E r \in Reports : ReverifyBegin(s, r)
    BY <2>5, ReverifyBeginBase
  <2>6. CASE \E n \in Nodes : \E new \in Gates : SetTests(s, n, new)
    BY <2>6, SetTestsBase
  <2>7. CASE \E n \in Nodes : \E new \in WriteSets : SetArtifacts(s, n, new)
    BY <2>7, SetArtifactsBase
  <2> QED
    BY <1>2, <2>1, <2>2, <2>3, <2>4, <2>5, <2>6, <2>7 DEF Begin, SyncCommand,
      ReverifyCommand, SetTestsCommand, SetArtifactsCommand
<1>3. ASSUME NEW s \in Sessions, ClaimStep(s)
      PROVE  Base'
  <2>1. CASE ClaimAgain(s)
    <3>1. job[s].tries \in Nat
      BY DEF Base, SessionsTyped, Job
    <3> QED
      BY <2>1, <3>1, SelectForBase DEF ClaimAgain
  <2> QED
    BY <1>3, <2>1, ClaimRefusedBase, ConfirmBase, ConfirmWriteBase, ConfirmCollidesBase,
       AllocateBase, AllocateFailsBase, RollbackBase DEF ClaimStep
<1>4. ASSUME NEW s \in Sessions, SyncStep(s)
      PROVE  Base'
  BY <1>4, PublishBase, PublishRefusedBase, EndBase, ReverifyNodeBase DEF SyncStep
<1>5. ASSUME NEW s \in Sessions, ReapStep(s)
      PROVE  Base'
  BY <1>5, CheckIdleBase, TeardownBase, GCLoadBase, GCListBase, EndBase, GCReapBase
     DEF ReapStep, ReleaseStep, GCStep
<1>6. ASSUME NEW s \in Sessions, Crash(s)
      PROVE  Base'
  BY <1>6, CrashBase
<1>7. ASSUME NEW n \in Nodes, LeaseLapses(n) \/ WorkerWorks(n)
      PROVE  Base'
  BY <1>7, LeaseLapsesBase, WorkerWorksBase
<1> QED
  BY <1>1, <1>2, <1>3, <1>4, <1>5, <1>6, <1>7 DEF Next, Step

-----------------------------------------------------------------------------
(***************************************************************************)
(* What observations vouch for.                                            *)
(***************************************************************************)
Vouched == /\ ObservedRevisions /\ EvaluationsCurrent /\ RedsAreProofs
           /\ ObservationsMatchContract /\ RedBeforeGreen

LEMMA VouchedInit == Init => Vouched
<1> SUFFICES ASSUME Init PROVE Vouched
  OBVIOUS
<1>1. \A n \in Nodes : node[n].obs = None /\ node[n].red = {}
  BY DEF Init
<1>2. \A s \in Sessions : pc[s] # "publish"
  BY DEF Init
<1> QED
  BY <1>1, <1>2 DEF Vouched, ObservedRevisions, EvaluationsCurrent, RedsAreProofs,
     ObservationsMatchContract, RedBeforeGreen

\* Steps that neither touch a node nor begin a publication.
LEMMA NothingNewVouched ==
  ASSUME Vouched, UNCHANGED <<node, record>>,
         \A s \in Sessions : pc'[s] = "publish" =>
            pc[s] = "publish" /\ job'[s].eval = job[s].eval /\ job'[s].node = job[s].node
  PROVE  Vouched'
<1>1. node' = node /\ judged' = judged /\ failed' = failed
  BY DEF record
<1>2. ObservedRevisions' /\ RedsAreProofs'
  BY <1>1 DEF Vouched, ObservedRevisions, RedsAreProofs
<1>3. ObservationsMatchContract' /\ RedBeforeGreen'
  BY <1>1 DEF Vouched, ObservationsMatchContract, RedBeforeGreen, Snapshot
<1>4. EvaluationsCurrent'
  BY <1>1 DEF Vouched, EvaluationsCurrent
<1> QED
  BY <1>2, <1>3, <1>4 DEF Vouched

\* An evaluation that may be published is of the node as it is, with its reds.
LEMMA NewEvaluationCurrent ==
  ASSUME Base, Vouched, NEW s \in Sessions, NEW n \in Nodes, NEW r, NEW by,
         Evaluable(n, r, by), UNCHANGED <<node, record>>,
         pc' = [pc EXCEPT ![s] = "publish"],
         job'[s].node = n, job'[s].eval = Evaluation(n, r, by),
         \A t \in Sessions \ {s} : job'[t] = job[t]
  PROVE  Vouched'
<1>1. node' = node /\ judged' = judged /\ failed' = failed
  BY DEF record
<1>2. ObservedRevisions' /\ RedsAreProofs'
  BY <1>1 DEF Vouched, ObservedRevisions, RedsAreProofs
<1>3. ObservationsMatchContract' /\ RedBeforeGreen'
  BY <1>1 DEF Vouched, ObservationsMatchContract, RedBeforeGreen, Snapshot
<1>4. node[n].rev \in Nat
  BY ContractTyped
<1>5. EvaluationsCurrent'
  <2> SUFFICES ASSUME NEW t \in Sessions, pc'[t] = "publish"
               PROVE  LET e == job'[t].eval
                          m == job'[t].node
                      IN  /\ e.snap.rev <= node[m].rev
                          /\ e.result = "pass" /\ e.snap.rev = node[m].rev =>
                               \A u \in e.snap.tests : u.hazard => u.id \in node[m].red
    BY <1>1 DEF EvaluationsCurrent
  <2>1. CASE t = s
    BY <2>1, <1>4 DEF Evaluation, Evaluable, Snapshot, RedSeen
  <2>2. CASE t # s
    <3>1. pc[t] = "publish" /\ job'[t] = job[t]
      BY <2>2 DEF Base, SessionsTyped
    <3> QED
      BY <3>1 DEF Vouched, EvaluationsCurrent
  <2> QED
    BY <2>1, <2>2
<1> QED
  BY <1>2, <1>3, <1>5 DEF Vouched

LEMMA SyncVouched ==
  ASSUME Base, Vouched, NEW s \in Sessions, NEW n \in Nodes, NEW r \in Reports, Sync(s, n, r)
  PROVE  Vouched'
<1> DEFINE e == Evaluation(n, r, Name[s])
<1>1. /\ Evaluable(n, r, Name[s])
      /\ job' = [job EXCEPT ![s].node = n, ![s].eval = e]
      /\ pc' = [pc EXCEPT ![s] = "publish"]
      /\ UNCHANGED <<node, record>>
  BY DEF Sync, Goto, graph
<1>2. job \in [Sessions -> Job] /\ job[s] \in Job
  BY DEF Base, SessionsTyped
<1> HIDE DEF e
<1>3. job'[s].node = n /\ job'[s].eval = e /\ \A t \in Sessions \ {s} : job'[t] = job[t]
  BY <1>1, <1>2 DEF Job
<1> QED
  BY <1>1, <1>3, NewEvaluationCurrent DEF e

LEMMA ReverifyNodeVouched ==
  ASSUME Base, Vouched, NEW s \in Sessions, NEW n \in Nodes, ReverifyNode(s, n)
  PROVE  Vouched'
<1> DEFINE r    == job[s].report
           rest == job[s].todo \ {n}
           e    == Evaluation(n, r, None)
<1>1. UNCHANGED <<node, record>>
  BY DEF ReverifyNode, graph
<1>2. job \in [Sessions -> Job] /\ job[s] \in Job
  BY DEF Base, SessionsTyped
<1>3. CASE /\ Evaluable(n, r, None)
           /\ job' = [job EXCEPT ![s].node = n, ![s].todo = rest, ![s].eval = e]
           /\ Goto(s, "publish")
  <2> HIDE DEF e, rest
  <2>1. job'[s].node = n /\ job'[s].eval = e /\ \A t \in Sessions \ {s} : job'[t] = job[t]
    BY <1>2, <1>3 DEF Job
  <2> HIDE DEF r
  <2> QED
    BY <1>1, <1>3, <2>1, NewEvaluationCurrent DEF Goto, e
<1>4. CASE job' = [job EXCEPT ![s].todo = rest] /\ pc' = pc
  <2>1. pc[s] = "reverify"
    BY DEF ReverifyNode
  <2>2. ASSUME NEW t \in Sessions, pc'[t] = "publish"
        PROVE  pc[t] = "publish" /\ job'[t] = job[t]
    BY <1>2, <1>4, <2>1, <2>2
  <2> QED
    BY <1>1, <2>2, NothingNewVouched
<1> QED
  BY <1>3, <1>4 DEF ReverifyNode

LEMMA PublishVouched ==
  ASSUME Base, Vouched, NEW s \in Sessions, Publish(s)
  PROVE  Vouched'
<1> DEFINE n   == job[s].node
           e   == job[s].eval
           obs == [result |-> e.result, seq |-> seq + 1, rev |-> node[n].rev,
                   clean |-> e.clean, report |-> e.report, reviewed |-> None]
           red == node[n].red \cup e.red
           now == {<<n, t>> : t \in {u \in e.snap.tests : u.id \in e.red}}
<1>1. /\ n \in Nodes /\ e \in Evaluations /\ node[n] \in NodeRecord
      /\ node \in [Nodes -> NodeRecord] /\ judged \in [Nodes -> {None} \cup Snapshots]
  BY DEF Publish, Base, SessionsTyped, WorldTyped, JobAtStep
<1>2. /\ e.snap.rev = node[n].rev /\ e.snap.tests = node[n].tests
      /\ e.snap.paths = node[n].paths /\ e.snap = Snapshot(n)
  BY DEF Publish, Fenced, Snapshot
<1>3. node' = [node EXCEPT ![n].obs = obs, ![n].red = @ \cup e.red]
  BY Zenon DEF Publish
<1>4. judged' = [judged EXCEPT ![n] = e.snap] /\ failed' = failed \cup now
  BY DEF Publish
<1>5. pc' \in [Sessions -> PCs] /\ pc'[s] # "publish"
      /\ \A t \in Sessions \ {s} : pc'[t] = pc[t] /\ job'[t] = job[t]
  <2>1. \/ Goto(s, "teardown") /\ job' = [job EXCEPT ![s].eval = None]
        \/ Resume(s)
    BY DEF Publish
  <2>2. \E l \in {"idle", "teardown", "reverify"} : pc' = [pc EXCEPT ![s] = l]
    BY <2>1 DEF Goto, Finish, Resume
  <2>3. \A t \in Sessions \ {s} : job'[t] = job[t]
    BY <2>1 DEF Finish, Resume, Base, SessionsTyped
  <2> QED
    BY <2>2, <2>3 DEF Base, SessionsTyped, PCs
<1> HIDE DEF obs
<1>6. /\ node'[n].obs = obs /\ node'[n].red = red
      /\ node'[n].tests = node[n].tests /\ node'[n].rev = node[n].rev
      /\ node'[n].paths = node[n].paths
      /\ \A m \in Nodes \ {n} : node'[m] = node[m]
  BY <1>1, <1>3 DEF NodeRecord
<1>7. obs # None /\ obs.result = e.result /\ obs.rev = node[n].rev
  <2>1. obs \in Observation
    <3>1. seq + 1 \in 1 .. MaxSeq
      BY DEF Publish, Base, WorldTyped
    <3> QED
      BY <1>1, <3>1 DEF obs, Observation, Evaluations, NodeRecord
  <2> QED
    BY <2>1 DEF obs
<1> HIDE DEF n, e, red
<1>8. node[n].rev \in Nat
  BY <1>1, ContractTyped
<1>9. ObservedRevisions'
  <2> SUFFICES ASSUME NEW m \in Nodes
               PROVE  IF node'[m].obs = None THEN node'[m].red = {}
                      ELSE node'[m].obs.rev <= node'[m].rev
    BY DEF ObservedRevisions
  <2>1. CASE m = n
    BY <2>1, <1>6, <1>7, <1>8
  <2>2. CASE m # n
    BY <2>2, <1>6 DEF Vouched, ObservedRevisions
  <2> QED
    BY <2>1, <2>2
<1>10. EvaluationsCurrent'
  <2> SUFFICES ASSUME NEW t \in Sessions, pc'[t] = "publish"
               PROVE  LET f == job'[t].eval
                          m == job'[t].node
                      IN  /\ f.snap.rev <= node'[m].rev
                          /\ f.result = "pass" /\ f.snap.rev = node'[m].rev =>
                               \A u \in f.snap.tests : u.hazard => u.id \in node'[m].red
    BY DEF EvaluationsCurrent
  <2>1. pc[t] = "publish" /\ job'[t] = job[t]
    BY <1>5
  <2>2. job[t].node \in Nodes
    BY <2>1 DEF Base, SessionsTyped, JobAtStep
  <2>3. /\ node'[job[t].node].rev = node[job[t].node].rev
        /\ node[job[t].node].red \subseteq node'[job[t].node].red
    BY <1>6, <2>2 DEF red
  <2> QED
    BY <2>1, <2>3 DEF Vouched, EvaluationsCurrent
<1>11. RedsAreProofs'
  <2> SUFFICES ASSUME NEW m \in Nodes, NEW t \in node'[m].tests, t.id \in node'[m].red
               PROVE  <<m, t>> \in failed'
    BY DEF RedsAreProofs
  <2>1. CASE m # n
    BY <2>1, <1>4, <1>6 DEF Vouched, RedsAreProofs
  <2>2. CASE m = n /\ t.id \in node[n].red
    BY <2>2, <1>1, <1>4, <1>6 DEF Vouched, RedsAreProofs
  <2>3. CASE m = n /\ t.id \in e.red
    BY <2>3, <1>2, <1>4, <1>6
  <2> QED
    BY <2>1, <2>2, <2>3, <1>6 DEF red
<1>12. ObservationsMatchContract'
  <2> SUFFICES ASSUME NEW m \in Nodes, node'[m].obs # None, node'[m].obs.rev = node'[m].rev
               PROVE  judged'[m] = Snapshot(m)'
    BY DEF ObservationsMatchContract
  <2>1. CASE m = n
    BY <2>1, <1>1, <1>2, <1>4, <1>6 DEF Snapshot
  <2>2. CASE m # n
    BY <2>2, <1>1, <1>4, <1>6 DEF Vouched, ObservationsMatchContract, Snapshot
  <2> QED
    BY <2>1, <2>2
<1>13. RedBeforeGreen'
  <2> SUFFICES ASSUME NEW m \in Nodes, node'[m].obs # None, node'[m].obs.result = "pass",
                      node'[m].obs.rev = node'[m].rev,
                      NEW t \in node'[m].tests, t.hazard
               PROVE  <<m, t>> \in failed'
    BY DEF RedBeforeGreen
  <2>1. CASE m = n
    <3>1. t.id \in node[n].red
      BY <2>1, <1>2, <1>6, <1>7 DEF Vouched, EvaluationsCurrent, Publish, n, e
    <3> QED
      BY <2>1, <3>1, <1>1, <1>4, <1>6 DEF Vouched, RedsAreProofs
  <2>2. CASE m # n
    BY <2>2, <1>4, <1>6 DEF Vouched, RedBeforeGreen
  <2> QED
    BY <2>1, <2>2
<1> QED
  BY <1>9, <1>10, <1>11, <1>12, <1>13 DEF Vouched

\* An edit of an observed node advances its revision: what was observed or is
\* being evaluated is of the past, and a red survives only with its test.
LEMMA ObservedEditVouched ==
  ASSUME Base, Vouched, NEW n \in Nodes, NEW r,
         node' = [node EXCEPT ![n] = r], UNCHANGED <<pc, job, record>>,
         r.obs = node[n].obs, r.rev = node[n].rev + 1, node[n].obs # None,
         \A t \in r.tests : t.id \in r.red => t \in node[n].tests /\ t.id \in node[n].red
  PROVE  Vouched'
<1>1. /\ judged' = judged /\ failed' = failed /\ pc' = pc /\ job' = job
      /\ node'[n] = r /\ \A m \in Nodes \ {n} : node'[m] = node[m]
  BY DEF record, Base, WorldTyped
<1>2. node[n].rev \in Nat /\ node[n].obs.rev <= node[n].rev
  BY ContractTyped DEF Vouched, ObservedRevisions
<1>3. node[n].obs.rev \in Nat
  <2>1. node[n] \in NodeRecord
    BY DEF Base, WorldTyped
  <2>2. node[n].obs \in Observation
    BY <2>1 DEF NodeRecord
  <2> QED
    BY <2>2 DEF Observation
<1>4. ObservedRevisions'
  <2> SUFFICES ASSUME NEW m \in Nodes
               PROVE  IF node'[m].obs = None THEN node'[m].red = {}
                      ELSE node'[m].obs.rev <= node'[m].rev
    BY DEF ObservedRevisions
  <2>1. CASE m = n
    BY <2>1, <1>1, <1>2, <1>3
  <2>2. CASE m # n
    BY <2>2, <1>1 DEF Vouched, ObservedRevisions
  <2> QED
    BY <2>1, <2>2
<1>5. EvaluationsCurrent'
  <2> SUFFICES ASSUME NEW t \in Sessions, pc[t] = "publish"
               PROVE  LET e == job[t].eval
                          m == job[t].node
                      IN  /\ e.snap.rev <= node'[m].rev
                          /\ e.result = "pass" /\ e.snap.rev = node'[m].rev =>
                               \A u \in e.snap.tests : u.hazard => u.id \in node'[m].red
    BY <1>1 DEF EvaluationsCurrent
  <2>1. job[t].node \in Nodes /\ job[t].eval.snap.rev \in Nat
    <3>1. job[t].node \in Nodes /\ job[t].eval \in Evaluations
      BY DEF Base, SessionsTyped, JobAtStep
    <3>2. job[t].eval.snap \in Snapshots
      BY <3>1 DEF Evaluations
    <3> QED
      BY <3>1, <3>2 DEF Snapshots
  <2>2. CASE job[t].node = n
    <3>1. job[t].eval.snap.rev <= node[n].rev
      BY <2>2 DEF Vouched, EvaluationsCurrent
    <3> QED
      BY <2>1, <2>2, <3>1, <1>1, <1>2
  <2>3. CASE job[t].node # n
    BY <2>1, <2>3, <1>1 DEF Vouched, EvaluationsCurrent
  <2> QED
    BY <2>2, <2>3
<1>6. RedsAreProofs'
  BY <1>1 DEF Vouched, RedsAreProofs
<1>7. ObservationsMatchContract'
  <2> SUFFICES ASSUME NEW m \in Nodes, node'[m].obs # None, node'[m].obs.rev = node'[m].rev
               PROVE  judged'[m] = Snapshot(m)'
    BY DEF ObservationsMatchContract
  <2>1. m # n
    BY <1>1, <1>2, <1>3
  <2> QED
    BY <2>1, <1>1 DEF Vouched, ObservationsMatchContract, Snapshot
<1>8. RedBeforeGreen'
  <2> SUFFICES ASSUME NEW m \in Nodes, node'[m].obs # None, node'[m].obs.result = "pass",
                      node'[m].obs.rev = node'[m].rev,
                      NEW t \in node'[m].tests, t.hazard
               PROVE  <<m, t>> \in failed'
    BY DEF RedBeforeGreen
  <2>1. m # n
    BY <1>1, <1>2, <1>3
  <2> QED
    BY <2>1, <1>1 DEF Vouched, RedBeforeGreen
<1> QED
  BY <1>4, <1>5, <1>6, <1>7, <1>8 DEF Vouched

\* An edit of a node that was never observed: it has no reds to lose.
LEMMA UnobservedEditVouched ==
  ASSUME Base, Vouched, NEW n \in Nodes, NEW r,
         node' = [node EXCEPT ![n] = r], UNCHANGED <<pc, job, record>>,
         r.obs = None, r.rev = node[n].rev, node[n].obs = None,
         r.red \subseteq node[n].red
  PROVE  Vouched'
<1>1. /\ judged' = judged /\ failed' = failed /\ pc' = pc /\ job' = job
      /\ node'[n] = r /\ \A m \in Nodes \ {n} : node'[m] = node[m]
  BY DEF record, Base, WorldTyped
<1>2. node[n].red = {} /\ r.red = {}
  BY DEF Vouched, ObservedRevisions
<1>3. ObservedRevisions'
  <2> SUFFICES ASSUME NEW m \in Nodes
               PROVE  IF node'[m].obs = None THEN node'[m].red = {}
                      ELSE node'[m].obs.rev <= node'[m].rev
    BY DEF ObservedRevisions
  <2> QED
    BY <1>1, <1>2 DEF Vouched, ObservedRevisions
<1>4. \A m \in Nodes : node'[m].rev = node[m].rev /\ node'[m].red = node[m].red
  BY <1>1, <1>2
<1>5. EvaluationsCurrent'
  <2>1. \A t \in Sessions : pc[t] = "publish" => job[t].node \in Nodes
    BY DEF Base, SessionsTyped, JobAtStep
  <2> QED
    BY <2>1, <1>1, <1>4 DEF Vouched, EvaluationsCurrent
<1>6. RedsAreProofs'
  BY <1>1, <1>2 DEF Vouched, RedsAreProofs
<1>7. ObservationsMatchContract'
  <2> SUFFICES ASSUME NEW m \in Nodes, node'[m].obs # None, node'[m].obs.rev = node'[m].rev
               PROVE  judged'[m] = Snapshot(m)'
    BY DEF ObservationsMatchContract
  <2> QED
    BY <1>1 DEF Vouched, ObservationsMatchContract, Snapshot
<1>8. RedBeforeGreen'
  BY <1>1 DEF Vouched, RedBeforeGreen
<1> QED
  BY <1>3, <1>5, <1>6, <1>7, <1>8 DEF Vouched

LEMMA SetTestsVouched ==
  ASSUME Base, Vouched, NEW s \in Sessions, NEW n \in Nodes, NEW new \in Gates,
         SetTests(s, n, new)
  PROVE  Vouched'
<1> DEFINE seen == node[n].obs # None
           rev  == IF seen THEN node[n].rev + 1 ELSE node[n].rev
           red  == IF seen THEN CarryOver(node[n].tests, new, node[n].red)
                   ELSE node[n].red \cap {t.id : t \in new}
           r    == [node[n] EXCEPT !.tests = new, !.rev = rev, !.red = red]
<1>1. node[n] \in NodeRecord /\ node \in [Nodes -> NodeRecord]
  BY DEF Base, WorldTyped
<1>2. node' = [node EXCEPT ![n] = r]
  <2>1. node' = [node EXCEPT
           ![n].tests = new,
           ![n].rev   = IF seen THEN @ + 1 ELSE @,
           ![n].red   = IF seen THEN CarryOver(node[n].tests, new, @)
                                ELSE @ \cap {t.id : t \in new}]
    BY Zenon DEF SetTests, WithTests
  <2>2. node' = [node EXCEPT ![n].tests = new, ![n].rev = rev, ![n].red = red]
    BY <1>1, <2>1 DEF NodeRecord
  <2> HIDE DEF rev, red
  <2> QED
    BY <1>1, <2>2
<1>3. r.obs = node[n].obs /\ r.rev = rev /\ r.red = red /\ r.tests = new
  <2> HIDE DEF rev, red
  <2> QED
    BY <1>1 DEF NodeRecord
<1>4. UNCHANGED <<pc, job, record>>
  BY DEF SetTests
<1> HIDE DEF r
<1>5. CASE seen
  <2>1. ASSUME NEW t \in r.tests, t.id \in r.red
        PROVE  t \in node[n].tests /\ t.id \in node[n].red
    <3>1. t \in new /\ t.id \in CarryOver(node[n].tests, new, node[n].red)
      BY <1>3, <1>5, <2>1
    <3>2. PICK u \in node[n].tests \cap new : u.id = t.id /\ t.id \in node[n].red
      BY <3>1 DEF CarryOver
    <3>3. u = t
      BY <3>1, <3>2
    <3> QED
      BY <3>2, <3>3
  <2> QED
    BY <1>2, <1>3, <1>4, <1>5, <2>1, ObservedEditVouched
<1>6. CASE ~seen
  BY <1>2, <1>3, <1>4, <1>6, UnobservedEditVouched
<1> QED
  BY <1>5, <1>6

LEMMA SetArtifactsVouched ==
  ASSUME Base, Vouched, NEW s \in Sessions, NEW n \in Nodes, NEW new \in WriteSets,
         SetArtifacts(s, n, new)
  PROVE  Vouched'
<1> DEFINE seen == node[n].obs # None
           rev  == IF seen THEN node[n].rev + 1 ELSE node[n].rev
           r    == [node[n] EXCEPT !.paths = new, !.rev = rev]
<1>1. node[n] \in NodeRecord /\ node \in [Nodes -> NodeRecord]
  BY DEF Base, WorldTyped
<1>2. node' = [node EXCEPT ![n] = r]
  <2>1. node' = [node EXCEPT ![n].paths = new, ![n].rev = IF seen THEN @ + 1 ELSE @]
    BY Zenon DEF SetArtifacts
  <2>2. node' = [node EXCEPT ![n].paths = new, ![n].rev = rev]
    BY <1>1, <2>1 DEF NodeRecord
  <2> HIDE DEF rev
  <2> QED
    BY <1>1, <2>2
<1>3. r.obs = node[n].obs /\ r.rev = rev /\ r.red = node[n].red /\ r.tests = node[n].tests
  <2> HIDE DEF rev
  <2> QED
    BY <1>1 DEF NodeRecord
<1>4. UNCHANGED <<pc, job, record>>
  BY DEF SetArtifacts
<1> HIDE DEF r
<1>5. CASE seen
  BY <1>2, <1>3, <1>4, <1>5, ObservedEditVouched
<1>6. CASE ~seen
  BY <1>2, <1>3, <1>4, <1>6, UnobservedEditVouched
<1> QED
  BY <1>5, <1>6

\* The data of every session but s stay.
OthersKeep(s) == \A t \in Sessions \ {s} : job'[t] = job[t]

\* A step of a session that neither touches a node nor evaluates a report.
LEMMA OtherStepVouched ==
  ASSUME Base, Vouched, NEW s \in Sessions, UNCHANGED <<node, record>>,
         NEW l, l # "publish", pc' = [pc EXCEPT ![s] = l],
         OthersKeep(s)
  PROVE  Vouched'
<1>1. ASSUME NEW t \in Sessions, pc'[t] = "publish"
      PROVE  pc[t] = "publish" /\ job'[t] = job[t]
  BY <1>1 DEF Base, SessionsTyped, OthersKeep
<1> QED
  BY <1>1, NothingNewVouched

LEMMA ClaimVouched ==
  ASSUME Base, Vouched, NEW s \in Sessions, ClaimStep(s) \/ ClaimBegin(s)
  PROVE  Vouched'
<1>1. job \in [Sessions -> Job]
  BY DEF Base, SessionsTyped
<1>2. ASSUME NEW k, SelectFor(s, k)
      PROVE  Vouched'
  <2>1. UNCHANGED <<node, record>> /\ pc' = [pc EXCEPT ![s] = "confirm"]
    BY <1>2 DEF SelectFor, Goto, graph
  <2>2. OthersKeep(s)
    BY <1>1, <1>2 DEF OthersKeep, SelectFor
  <2> QED
    BY <2>1, <2>2, OtherStepVouched
<1>3. CASE ClaimRefused(s) \/ ConfirmInvalid(s) \/ Rollback(s) \/ Allocate(s)
  <2>1. UNCHANGED <<node, record>> /\ Finish(s)
    BY <1>3 DEF ClaimRefused, ConfirmInvalid, Rollback, Allocate, graph
  <2> QED
    BY <1>1, <2>1, OtherStepVouched DEF OthersKeep, Finish, Goto
<1>4. CASE Confirm(s)
  <2>1. UNCHANGED <<node, record>> /\ pc' = [pc EXCEPT ![s] = "write"]
    BY <1>4 DEF Confirm, Goto, graph
  <2>2. OthersKeep(s)
    BY <1>1, <1>4 DEF OthersKeep, Confirm
  <2> QED
    BY <2>1, <2>2, OtherStepVouched
<1>5. CASE ConfirmWrite(s)
  <2>1. UNCHANGED <<node, record>>
    BY <1>5 DEF ConfirmWrite
  <2>2. PICK l \in {"allocate", "select", "idle"} : pc' = [pc EXCEPT ![s] = l]
    BY <1>5 DEF ConfirmWrite, Goto, Finish
  <2>3. OthersKeep(s)
    BY <1>1, <1>5 DEF OthersKeep, ConfirmWrite, Finish
  <2> QED
    BY <2>1, <2>2, <2>3, OtherStepVouched
<1>6. CASE ConfirmCollides(s)
  <2>1. UNCHANGED <<node, record>>
    BY <1>6 DEF ConfirmCollides, graph
  <2>2. PICK l \in {"confirm", "idle"} : pc' = [pc EXCEPT ![s] = l]
    BY <1>6 DEF ConfirmCollides, Goto, Finish
  <2>3. OthersKeep(s)
    BY <1>1, <1>6 DEF OthersKeep, ConfirmCollides, Finish
  <2> QED
    BY <2>1, <2>2, <2>3, OtherStepVouched
<1>7. CASE AllocateFails(s)
  BY <1>1, <1>7, OtherStepVouched DEF OthersKeep, AllocateFails, Goto, graph
<1> QED
  BY <1>2, <1>3, <1>4, <1>5, <1>6, <1>7 DEF ClaimStep, ClaimBegin, ClaimAgain

LEMMA ReapVouched ==
  ASSUME Base, Vouched, NEW s \in Sessions, ReapStep(s) \/ GCExpire(s)
  PROVE  Vouched'
<1>1. job \in [Sessions -> Job] /\ pc \in [Sessions -> PCs]
  BY DEF Base, SessionsTyped
<1>2. CASE Teardown(s) \/ GCEnd(s)
  <2>1. UNCHANGED <<node, record>> /\ Finish(s)
    BY <1>2 DEF Teardown, GCEnd, graph
  <2> QED
    BY <1>1, <2>1, OtherStepVouched DEF OthersKeep, Finish, Goto
<1>3. CASE CheckIdle(s)
  <2>1. UNCHANGED <<node, record>>
    BY <1>3 DEF CheckIdle, graph
  <2>2. PICK l \in {"teardown", "idle"} : pc' = [pc EXCEPT ![s] = l]
    BY <1>3 DEF CheckIdle, Goto, Finish
  <2>3. OthersKeep(s)
    BY <1>1, <1>3 DEF OthersKeep, CheckIdle, Finish
  <2> QED
    BY <2>1, <2>2, <2>3, OtherStepVouched
<1>4. CASE GCLoad(s) \/ GCList(s) \/ GCExpire(s)
  <2>1. UNCHANGED <<node, record>>
    BY <1>4 DEF GCLoad, GCList, GCExpire, graph
  <2>2. PICK l \in {"gcload", "gclist", "gcreap"} : pc' = [pc EXCEPT ![s] = l]
    BY <1>4 DEF GCLoad, GCList, GCExpire, Goto
  <2>3. OthersKeep(s)
    BY <1>1, <1>4 DEF OthersKeep, GCLoad, GCList, GCExpire
  <2> QED
    BY <2>1, <2>2, <2>3, OtherStepVouched
<1>5. ASSUME NEW n \in Nodes, GCReap(s, n)
      PROVE  Vouched'
  <2>1. UNCHANGED <<node, record>> /\ pc' = [pc EXCEPT ![s] = "gcreap"]
    BY <1>1, <1>5 DEF GCReap, graph
  <2>2. OthersKeep(s)
    BY <1>1, <1>5 DEF OthersKeep, GCReap
  <2> QED
    BY <2>1, <2>2, OtherStepVouched
<1> QED
  BY <1>2, <1>3, <1>4, <1>5 DEF ReapStep, ReleaseStep, GCStep

LEMMA VouchedNext ==
  ASSUME Base, Vouched, [Next]_vars
  PROVE  Vouched'
<1>1. job \in [Sessions -> Job]
  BY DEF Base, SessionsTyped
<1>2. CASE UNCHANGED vars
  BY <1>2, NothingNewVouched DEF vars, record
<1>3. ASSUME NEW s \in Sessions, ClaimStep(s) \/ ReapStep(s) \/ ClaimBegin(s) \/ GCExpire(s)
      PROVE  Vouched'
  BY <1>3, ClaimVouched, ReapVouched
<1>4. ASSUME NEW s \in Sessions, NEW n \in Nodes, NEW force \in BOOLEAN, Release(s, n, force)
      PROVE  Vouched'
  <2>1. UNCHANGED <<node, record>>
    BY <1>4 DEF Release
  <2>2. CASE Goto(s, "idlecheck") /\ job' = [job EXCEPT ![s].node = n]
    BY <1>1, <2>1, <2>2, OtherStepVouched DEF OthersKeep, Goto
  <2>3. CASE UNCHANGED <<pc, job>>
    BY <2>1, <2>3, NothingNewVouched
  <2> QED
    BY <1>4, <2>2, <2>3 DEF Release
<1>5. ASSUME NEW s \in Sessions, PublishRefused(s) \/ ReverifyEnd(s) \/ Crash(s)
      PROVE  Vouched'
  <2>1. UNCHANGED <<node, record>> /\ (Resume(s) \/ Finish(s))
    BY <1>5 DEF PublishRefused, ReverifyEnd, Crash, graph
  <2>2. PICK l \in {"reverify", "idle"} : pc' = [pc EXCEPT ![s] = l]
    BY <2>1 DEF Resume, Finish, Goto
  <2>3. OthersKeep(s)
    BY <1>1, <2>1 DEF OthersKeep, Resume, Finish
  <2> QED
    BY <2>1, <2>2, <2>3, OtherStepVouched
<1>6. ASSUME NEW s \in Sessions, NEW r \in Reports, ReverifyBegin(s, r)
      PROVE  Vouched'
  <2>1. UNCHANGED <<node, record>> /\ pc' = [pc EXCEPT ![s] = "reverify"]
    BY <1>6 DEF ReverifyBegin, Goto, graph
  <2>2. OthersKeep(s)
    BY <1>1, <1>6 DEF OthersKeep, ReverifyBegin
  <2> QED
    BY <2>1, <2>2, OtherStepVouched
<1>7. ASSUME NEW n \in Nodes, LeaseLapses(n) \/ WorkerWorks(n)
      PROVE  Vouched'
  <2>1. UNCHANGED <<node, record, pc, job>>
    BY <1>7 DEF LeaseLapses, WorkerWorks, graph
  <2> QED
    BY <2>1, NothingNewVouched
<1> QED
  BY <1>2, <1>3, <1>4, <1>5, <1>6, <1>7, SyncVouched, ReverifyNodeVouched, PublishVouched,
     SetTestsVouched, SetArtifactsVouched DEF Next, Begin, SyncCommand, ReverifyCommand,
       SetTestsCommand, SetArtifactsCommand, Step, SyncStep

LEMMA Inductive == Spec => [](Base /\ Vouched)
<1>1. Init => Base /\ Vouched
  BY BaseInit, VouchedInit
<1>2. Base /\ Vouched /\ [Next]_vars => (Base /\ Vouched)'
  BY BaseNext, VouchedNext
<1> QED
  BY <1>1, <1>2, PTL DEF Spec

-----------------------------------------------------------------------------
(***************************************************************************)
(* Who may change a claim: what a claim about to be written was judged on, *)
(* and which claim a report was evaluated under.                           *)
(***************************************************************************)
Mine(s) == [by |-> Name[s], inst |-> MyInstance(s)]

\* The write of a confirm step against the graph it was made for.  It clears
\* only claims whose lease ran out, and it adds one, on a frontier node that
\* shares no path with the claims it leaves.
WriteJudged(s) ==
  pc[s] = "write" =>
    LET g   == job[s].base[1]
        c   == job[s].base[2]
        q   == job[s].base[3]
        new == job[s].new
    IN  /\ q \in Nat /\ q <= seq
        /\ \A n \in Nodes : new[n] \in {None, c[n], Mine(s)}
        /\ \A n \in Nodes : new[n] \notin {None, c[n]} =>
              /\ n \in Frontier(g)
              /\ \A m \in Claimed(new) \ {n} : g[n].paths \cap g[m].paths = {}
        /\ q = seq => \A n \in Nodes : c[n] # None /\ new[n] # c[n] => c[n].inst \in lapsed

OwnName == \A s, t \in Sessions : Name[s] = Name[t] => s = t

\* An evaluation under a claim is of a command of the claim's holder, and no
\* other claim of that holder replaces it while the evaluation is unpublished.
EvaluatedUnder(s) ==
  pc[s] = "publish" =>
    LET e == job[s].eval
        n == job[s].node
    IN  /\ e.by \in {None, Name[s]}
        /\ e.inst # None => e.by = Name[s] /\ e.handle = Isolated
        /\ OwnName /\ e.inst # None /\ HeldBy(n, Name[s]) => claim[n].inst = e.inst

Held == \A s \in Sessions : WriteJudged(s) /\ EvaluatedUnder(s)

\* What a step of s does to the data of the sessions.
NewEvaluation(s) ==
  \E n \in Nodes, r \in Reports, by \in {None, Name[s]} :
     /\ Evaluable(n, r, by) /\ UNCHANGED claim
     /\ job'[s].node = n /\ job'[s].eval = Evaluation(n, r, by)

OnlyMoves(s, l) ==
  /\ pc' = [pc EXCEPT ![s] = l]
  /\ \A t \in Sessions \ {s} : job'[t] = job[t] /\ drawn'[t] = drawn[t]

LEMMA EvaluationBegins ==
  ASSUME Base, NEW s \in Sessions
  PROVE  /\ \A n \in Nodes, r \in Reports : Sync(s, n, r) =>
              NewEvaluation(s) /\ OnlyMoves(s, "publish")
         /\ \A n \in Nodes : ReverifyNode(s, n) =>
              \/ NewEvaluation(s) /\ OnlyMoves(s, "publish")
              \/ OnlyMoves(s, "reverify")
<1>0. job \in [Sessions -> Job] /\ pc \in [Sessions -> PCs] /\ job[s] \in Job
  BY DEF Base, SessionsTyped
<1>1. ASSUME NEW n \in Nodes, NEW r \in Reports, Sync(s, n, r)
      PROVE  NewEvaluation(s) /\ OnlyMoves(s, "publish")
  <2> DEFINE e == Evaluation(n, r, Name[s])
  <2>1. /\ Evaluable(n, r, Name[s]) /\ UNCHANGED <<claim, drawn>>
        /\ job' = [job EXCEPT ![s].node = n, ![s].eval = e]
        /\ pc' = [pc EXCEPT ![s] = "publish"]
    BY <1>1 DEF Sync, Goto, graph
  <2> HIDE DEF e
  <2>2. job'[s].node = n /\ job'[s].eval = e /\ \A t \in Sessions \ {s} : job'[t] = job[t]
    BY <1>0, <2>1 DEF Job
  <2> USE DEF e
  <2> QED
    BY <2>1, <2>2 DEF NewEvaluation, OnlyMoves
<1>2. ASSUME NEW n \in Nodes, ReverifyNode(s, n)
      PROVE  \/ NewEvaluation(s) /\ OnlyMoves(s, "publish")
             \/ OnlyMoves(s, "reverify")
  <2> DEFINE e    == Evaluation(n, job[s].report, None)
             rest == job[s].todo \ {n}
  <2>0. pc[s] = "reverify" /\ UNCHANGED <<claim, drawn>> /\ job[s].report \in Reports
    BY <1>2 DEF ReverifyNode, graph, Base, SessionsTyped, JobAtStep
  <2>1. CASE /\ Evaluable(n, job[s].report, None)
             /\ job' = [job EXCEPT ![s].node = n, ![s].todo = rest, ![s].eval = e]
             /\ Goto(s, "publish")
    <3> HIDE DEF e, rest
    <3>1. job'[s].node = n /\ job'[s].eval = e /\ \A t \in Sessions \ {s} : job'[t] = job[t]
      BY <1>0, <2>1 DEF Job
    <3> USE DEF e, rest
    <3> QED
      BY <2>0, <2>1, <3>1 DEF NewEvaluation, OnlyMoves, Goto
  <2>2. CASE job' = [job EXCEPT ![s].todo = rest] /\ UNCHANGED pc
    <3>1. pc' = [pc EXCEPT ![s] = "reverify"]
      BY <1>0, <2>0, <2>2
    <3> QED
      BY <1>0, <2>0, <2>2, <3>1 DEF OnlyMoves
  <2> QED
    BY <1>2, <2>1, <2>2, Zenon DEF ReverifyNode
<1> QED
  BY <1>1, <1>2

LEMMA SessionMoves ==
  ASSUME Base, NEW s \in Sessions, Begin(s) \/ Step(s) \/ Crash(s)
  PROVE  \E l : /\ OnlyMoves(s, l)
                /\ l = "write" => Confirm(s)
                /\ l = "publish" => NewEvaluation(s)
<1>0. job \in [Sessions -> Job] /\ pc \in [Sessions -> PCs] /\ drawn \in [Sessions -> 0 .. MaxClaims]
  BY DEF Base, SessionsTyped
<1>1. CASE Finish(s) /\ UNCHANGED drawn
  <2>1. OnlyMoves(s, "idle")
    BY <1>0, <1>1 DEF Finish, Goto, OnlyMoves
  <2> QED
    BY <2>1
<1>2. ASSUME NEW k, SelectFor(s, k)
      PROVE  OnlyMoves(s, "confirm")
  BY <1>0, <1>2 DEF SelectFor, Goto, OnlyMoves
<1>3. CASE Confirm(s)
  <2>1. OnlyMoves(s, "write")
    BY <1>0, <1>3 DEF Confirm, Goto, OnlyMoves
  <2> QED
    BY <1>3, <2>1
<1>4. CASE ConfirmWrite(s) \/ ConfirmCollides(s)
  <2>1. \E l \in {"allocate", "select", "confirm", "idle"} : OnlyMoves(s, l)
    BY <1>0, <1>4 DEF ConfirmWrite, ConfirmCollides, Finish, Goto, OnlyMoves
  <2> QED
    BY <2>1
<1>5. CASE AllocateFails(s)
  <2>1. OnlyMoves(s, "rollback")
    BY <1>0, <1>5 DEF AllocateFails, Goto, OnlyMoves
  <2> QED
    BY <2>1
<1>6. ASSUME NEW n \in Nodes, NEW force \in BOOLEAN, Release(s, n, force)
      PROVE  \E l \in {"idlecheck", "idle"} : OnlyMoves(s, l)
  <2>1. CASE Goto(s, "idlecheck") /\ job' = [job EXCEPT ![s].node = n]
    BY <1>0, <1>6, <2>1 DEF Release, Goto, OnlyMoves
  <2>2. CASE UNCHANGED <<pc, job>>
    <3>1. pc' = [pc EXCEPT ![s] = "idle"]
      BY <1>0, <1>6, <2>2 DEF Release, Starts
    <3> QED
      BY <1>6, <2>2, <3>1 DEF Release, OnlyMoves
  <2> QED
    BY <1>6, <2>1, <2>2 DEF Release
<1>7. CASE CheckIdle(s)
  <2>1. \E l \in {"teardown", "idle"} : OnlyMoves(s, l)
    BY <1>0, <1>7 DEF CheckIdle, Finish, Goto, OnlyMoves
  <2> QED
    BY <2>1
<1>8. CASE Publish(s) \/ PublishRefused(s)
  <2>1. \/ Goto(s, "teardown") /\ job' = [job EXCEPT ![s].eval = None]
        \/ Resume(s)
    BY <1>8 DEF Publish, PublishRefused
  <2>2. UNCHANGED drawn
    BY <1>8 DEF Publish, PublishRefused
  <2>3. \E l \in {"teardown", "reverify", "idle"} : OnlyMoves(s, l)
    BY <1>0, <2>1, <2>2 DEF Resume, Finish, Goto, OnlyMoves
  <2> QED
    BY <2>3
<1>9. ASSUME NEW r \in Reports, ReverifyBegin(s, r)
      PROVE  OnlyMoves(s, "reverify")
  BY <1>0, <1>9 DEF ReverifyBegin, Goto, OnlyMoves
<1>10. ASSUME NEW n \in Nodes, NEW x, SetTests(s, n, x) \/ SetArtifacts(s, n, x)
       PROVE  OnlyMoves(s, "idle")
  <2>1. UNCHANGED <<pc, job, drawn>> /\ pc[s] = "idle"
    BY <1>10 DEF SetTests, SetArtifacts, Starts
  <2>2. pc' = [pc EXCEPT ![s] = "idle"]
    BY <1>0, <2>1
  <2> QED
    BY <2>1, <2>2 DEF OnlyMoves
<1>11. CASE GCExpire(s) \/ GCLoad(s) \/ GCList(s)
  <2>1. \E l \in {"gcload", "gclist", "gcreap"} : OnlyMoves(s, l)
    BY <1>0, <1>11 DEF GCExpire, GCLoad, GCList, Goto, OnlyMoves
  <2> QED
    BY <2>1
<1>12. ASSUME NEW n \in Nodes, GCReap(s, n)
       PROVE  OnlyMoves(s, "gcreap")
  <2>1. pc' = [pc EXCEPT ![s] = "gcreap"]
    BY <1>0, <1>12 DEF GCReap
  <2>2. job' = [job EXCEPT ![s].todo = job[s].todo \ {n}] /\ UNCHANGED drawn
    BY <1>12 DEF GCReap
  <2> QED
    BY <1>0, <2>1, <2>2 DEF OnlyMoves
<1>13. CASE \/ ClaimRefused(s) \/ ConfirmInvalid(s) \/ Allocate(s) \/ Rollback(s)
            \/ Teardown(s) \/ GCEnd(s) \/ ReverifyEnd(s) \/ Crash(s)
  BY <1>1, <1>13 DEF ClaimRefused, ConfirmInvalid, Allocate, Rollback, Teardown, GCEnd, ReverifyEnd, Crash
<1>14. CASE Begin(s)
  BY <1>2, <1>6, <1>9, <1>10, <1>11, <1>14, EvaluationBegins DEF Begin, SyncCommand,
    ReverifyCommand, SetTestsCommand, SetArtifactsCommand, ClaimBegin
<1>15. CASE ClaimStep(s)
  BY <1>2, <1>3, <1>4, <1>5, <1>13, <1>15 DEF ClaimStep, ClaimAgain
<1>16. CASE SyncStep(s)
  BY <1>8, <1>13, <1>16, EvaluationBegins DEF SyncStep
<1>17. CASE ReapStep(s)
  BY <1>7, <1>11, <1>12, <1>13, <1>17 DEF ReapStep, ReleaseStep, GCStep
<1> QED
  BY <1>13, <1>14, <1>15, <1>16, <1>17 DEF Step

\* The confirm step judges the graph it writes to.
LEMMA ConfirmJudges ==
  ASSUME Base, NEW s \in Sessions, Confirm(s)
  PROVE  WriteJudged(s)'
<1> DEFINE n   == job[s].node
           cl  == Expired(claim)
           ok  == n \in Selectable(cl)
           new == IF ok THEN [cl EXCEPT ![n] = Mine(s)] ELSE cl
<1>0. /\ job \in [Sessions -> Job] /\ job[s] \in Job /\ claim \in Claims
      /\ DOMAIN node = Nodes /\ n \in Nodes /\ seq \in Nat /\ cl \in Claims
  BY ExpiredOnlyClears DEF Confirm, Base, SessionsTyped, WorldTyped, JobAtStep, ClaimSteps
<1>1. job'[s].base = graph /\ job'[s].new = new
  <2>1. job' = [job EXCEPT ![s].base = graph, ![s].new = new, ![s].raced = @ \/ ~ok]
    BY Zenon DEF Confirm, Mine
  <2> HIDE DEF new, ok
  <2> QED
    BY <2>1, <1>0 DEF Job
<1>2. UNCHANGED <<graph, lapsed, drawn>>
  BY DEF Confirm
<1>3. \A m \in Nodes : cl[m] = claim[m] \/ (cl[m] = None /\ claim[m].inst \in lapsed)
  BY <1>0 DEF Expired
<1>4. \A m \in Nodes : new[m] = cl[m] \/ (m = n /\ ok /\ new[m] = Mine(s))
  <2> HIDE DEF cl
  <2> QED
    BY <1>0 DEF Claims
<1>5. ASSUME ok
      PROVE  /\ n \in Frontier(node) /\ cl[n] = None
             /\ \A m \in Claimed(cl) : node[n].paths \cap node[m].paths = {}
  BY <1>0, <1>5 DEF Selectable, Frontier, Claimed
<1>6. ASSUME ok
      PROVE  \A m \in Claimed(new) \ {n} : node[n].paths \cap node[m].paths = {}
  <2> HIDE DEF ok, cl
  <2> QED
    BY <1>4, <1>5, <1>6 DEF Claimed
<1>7. Mine(s)' = Mine(s)
  BY <1>2 DEF Mine, MyInstance
<1>8. job'[s].base[1] = node /\ job'[s].base[2] = claim /\ job'[s].base[3] = seq
  BY <1>1 DEF graph
<1>9. seq' = seq /\ lapsed' = lapsed
  BY <1>2 DEF graph
<1> HIDE DEF new, cl
<1> USE <1>7, <1>8, <1>9, <1>1
<1>10. \A m \in Nodes : new[m] \in {None, claim[m], Mine(s)}
  BY <1>3, <1>4
<1>11. ASSUME NEW m \in Nodes, new[m] \notin {None, claim[m]}
       PROVE  /\ m \in Frontier(node)
              /\ \A k \in Claimed(new) \ {m} : node[m].paths \cap node[k].paths = {}
  <2>1. m = n /\ ok
    BY <1>3, <1>4, <1>11
  <2> QED
    BY <1>5, <1>6, <2>1
<1>12. \A m \in Nodes : claim[m] # None /\ new[m] # claim[m] => claim[m].inst \in lapsed
  <2> HIDE DEF ok
  <2>1. ASSUME NEW m \in Nodes, claim[m] # None, new[m] # claim[m]
        PROVE  claim[m].inst \in lapsed
    <3>1. CASE new[m] = cl[m]
      BY <1>3, <2>1, <3>1
    <3>2. CASE m = n /\ ok
      BY <1>3, <1>5, <2>1, <3>2
    <3> QED
      BY <1>4, <3>1, <3>2
  <2> QED
    BY <2>1
<1> QED
  BY <1>0, <1>10, <1>11, <1>12 DEF WriteJudged

\* Time goes on, and a lease is renewed only by an observation.
LEMMA WorldMoves ==
  ASSUME Base, [Next]_vars
  PROVE  \/ seq' = seq /\ lapsed \subseteq lapsed'
         \/ seq' = seq + 1
<1> USE DEF graph
<1>1. ASSUME NEW s \in Sessions, Begin(s)
      PROVE  seq' = seq /\ lapsed' = lapsed
  BY <1>1 DEF Begin, SyncCommand, ReverifyCommand, SetTestsCommand, SetArtifactsCommand,
    ClaimBegin, SelectFor, GCExpire, Release, Sync, ReverifyBegin,
              SetTests, SetArtifacts
<1>2. ASSUME NEW s \in Sessions, ClaimStep(s)
      PROVE  seq' = seq /\ lapsed' = lapsed
  BY <1>2 DEF ClaimStep, ClaimAgain, SelectFor, ClaimRefused, Confirm, ConfirmInvalid,
              ConfirmWrite, ConfirmCollides, Allocate, AllocateFails, Rollback
<1>3. ASSUME NEW s \in Sessions, SyncStep(s)
      PROVE  \/ seq' = seq /\ lapsed' = lapsed
             \/ seq' = seq + 1
  BY <1>3 DEF SyncStep, Publish, PublishRefused, ReverifyNode, ReverifyEnd
<1>4. ASSUME NEW s \in Sessions, ReapStep(s) \/ Crash(s)
      PROVE  seq' = seq /\ lapsed' = lapsed
  BY <1>4 DEF ReapStep, ReleaseStep, GCStep, CheckIdle, Teardown, GCLoad, GCList, GCReap, GCEnd, Crash
<1>5. ASSUME NEW n \in Nodes, LeaseLapses(n) \/ WorkerWorks(n)
      PROVE  seq' = seq /\ lapsed \subseteq lapsed'
  BY <1>5 DEF LeaseLapses, WorkerWorks
<1>6. CASE UNCHANGED vars
  BY <1>6 DEF vars
<1> QED
  BY <1>1, <1>2, <1>3, <1>4, <1>5, <1>6 DEF Next, Step

\* What a step of s does to the claims.
Ends(s, n) ==
  /\ claim' = [claim EXCEPT ![n] = None]
  /\ HeldBy(n, Name[s]) \/ "force" \in Commands
  /\ Isolated => pc'[s] # pc[s]

LEMMA SessionClaims ==
  ASSUME Base, Held, NEW s \in Sessions, Begin(s) \/ Step(s) \/ Crash(s)
  PROVE  \/ UNCHANGED claim
         \/ ConfirmWrite(s)
         \/ claim' = Expired(claim)
         \/ \E n \in Nodes : Ends(s, n)
<1>0. pc \in [Sessions -> PCs] /\ claim \in Claims
  BY DEF Base, SessionsTyped, WorldTyped
<1>1. ASSUME NEW n \in Nodes, NEW force \in BOOLEAN, Release(s, n, force)
      PROVE  Ends(s, n)
  BY <1>0, <1>1 DEF Release, Starts, Goto, Ends
<1>2. CASE Rollback(s)
  <2>1. job[s].node \in Nodes
    BY <1>2 DEF Rollback, Base, SessionsTyped, JobAtStep, ClaimSteps
  <2>2. pc'[s] # pc[s]
    BY <1>0, <1>2 DEF Rollback, Finish, Goto
  <2>3. \/ UNCHANGED claim
        \/ HeldBy(job[s].node, Name[s]) /\ claim' = [claim EXCEPT ![job[s].node] = None]
    BY <1>2 DEF Rollback
  <2> QED
    BY <2>1, <2>2, <2>3 DEF Ends
<1>3. CASE Publish(s)
  <2>1. job[s].node \in Nodes /\ pc[s] = "publish" /\ job[s].eval.by \in {None, Name[s]}
    BY <1>3 DEF Publish, Base, SessionsTyped, JobAtStep, Held, EvaluatedUnder
  <2>2. pc'[s] # pc[s]
    BY <1>0, <1>3, <2>1 DEF Publish, Resume, Finish, Goto
  <2>3. \/ UNCHANGED claim
        \/ /\ HeldBy(job[s].node, job[s].eval.by)
           /\ claim' = [claim EXCEPT ![job[s].node] = None]
    BY <1>3 DEF Publish, Merges
  <2>4. CASE HeldBy(job[s].node, job[s].eval.by)
    <3>1. claim[job[s].node] \in ClaimRecord
      BY <1>0, <2>1, <2>4 DEF HeldBy, Claims
    <3>2. claim[job[s].node].by \in Names
      BY <3>1 DEF ClaimRecord
    <3>3. job[s].eval.by = Name[s]
      BY <2>1, <2>4, <3>2 DEF HeldBy
    <3> QED
      BY <2>1, <2>2, <2>3, <2>4, <3>3 DEF Ends
  <2> QED
    BY <2>3, <2>4
<1> USE DEF graph
<1>4. CASE Begin(s)
  <2>1. CASE \E n \in Nodes : \E force \in BOOLEAN : Release(s, n, force)
    BY <1>1, <2>1
  <2>2. CASE GCExpire(s)
    BY <2>2 DEF GCExpire
  <2>3. CASE \/ ClaimBegin(s)
             \/ \E n \in Nodes : \E r \in Reports : Sync(s, n, r)
             \/ \E r \in Reports : ReverifyBegin(s, r)
             \/ \E n \in Nodes : \E new \in Gates : SetTests(s, n, new)
             \/ \E n \in Nodes : \E new \in WriteSets : SetArtifacts(s, n, new)
    BY <2>3 DEF ClaimBegin, SelectFor, Sync, ReverifyBegin, SetTests, SetArtifacts
  <2> QED
    BY <1>4, <2>1, <2>2, <2>3, Zenon DEF Begin, SyncCommand, ReverifyCommand,
      SetTestsCommand, SetArtifactsCommand
<1>5. CASE ClaimStep(s)
  BY <1>2, <1>5 DEF ClaimStep, ClaimAgain, SelectFor, ClaimRefused, Confirm, ConfirmInvalid,
                    ConfirmCollides, Allocate, AllocateFails
<1>6. CASE SyncStep(s)
  BY <1>3, <1>6 DEF SyncStep, PublishRefused, ReverifyNode, ReverifyEnd
<1>7. CASE ReapStep(s) \/ Crash(s)
  BY <1>7 DEF ReapStep, ReleaseStep, GCStep, CheckIdle, Teardown, GCLoad, GCList, GCReap, GCEnd, Crash
<1> QED
  BY <1>4, <1>5, <1>6, <1>7 DEF Step

\* The write of a confirm step against the claims it finds.
LEMMA ConfirmWrites ==
  ASSUME Base, Held, NEW s \in Sessions, ConfirmWrite(s), NEW n \in Nodes
  PROVE  /\ claim'[n] \in {None, claim[n], Mine(s)}
         /\ claim'[n] \notin {None, claim[n]} =>
              /\ n \in Frontier(node)
              /\ \A m \in Claimed(claim') \ {n} : node[n].paths \cap node[m].paths = {}
         /\ claim[n] # None /\ claim'[n] # claim[n] => claim[n].inst \in lapsed
<1>1. pc[s] = "write" /\ graph = job[s].base /\ claim' = job[s].new
  BY DEF ConfirmWrite
<1>2. node = job[s].base[1] /\ claim = job[s].base[2] /\ seq = job[s].base[3]
  BY <1>1 DEF graph
<1>3. WriteJudged(s)
  BY DEF Held
<1> QED
  BY <1>1, <1>2, <1>3 DEF WriteJudged

LEMMA ClaimMoves ==
  ASSUME Base, Held, [Next]_vars, NEW n \in Nodes
  PROVE  \/ claim'[n] \in {None, claim[n]}
         \/ \E s \in Sessions : ConfirmWrite(s) /\ claim'[n] = Mine(s)
<1>0. claim \in Claims
  BY DEF Base, WorldTyped
<1>1. ASSUME NEW s \in Sessions, Begin(s) \/ Step(s) \/ Crash(s)
      PROVE  claim'[n] \in {None, claim[n]} \/ (ConfirmWrite(s) /\ claim'[n] = Mine(s))
  <2>1. CASE ConfirmWrite(s)
    BY <2>1, ConfirmWrites
  <2>2. CASE claim' = Expired(claim)
    BY <2>2 DEF Expired
  <2>3. ASSUME NEW m \in Nodes, Ends(s, m)
        PROVE  claim'[n] \in {None, claim[n]}
    BY <1>0, <2>3 DEF Ends, Claims
  <2> QED
    BY <1>1, <2>1, <2>2, <2>3, SessionClaims
<1>2. CASE \E m \in Nodes : LeaseLapses(m) \/ WorkerWorks(m)
  BY <1>2 DEF LeaseLapses, WorkerWorks, graph
<1>3. CASE UNCHANGED vars
  BY <1>3 DEF vars
<1> QED
  BY <1>1, <1>2, <1>3 DEF Next

\* A session whose own data stays keeps what it holds of the rest.
LEMMA OtherStepHeld ==
  ASSUME Base, Held, [Next]_vars, NEW t \in Sessions,
         pc'[t] = pc[t], job'[t] = job[t], drawn'[t] = drawn[t],
         \A s \in Sessions : ConfirmWrite(s) => s # t
  PROVE  WriteJudged(t)' /\ EvaluatedUnder(t)'
<1>0. WriteJudged(t) /\ EvaluatedUnder(t) /\ seq \in Nat
  BY DEF Held, Base, WorldTyped
<1>1. WriteJudged(t)'
  <2>1. Mine(t)' = Mine(t)
    BY DEF Mine, MyInstance
  <2> DEFINE q == job[t].base[3]
  <2>2. ASSUME q \in Nat, q <= seq
        PROVE  q <= seq' /\ (q = seq' => q = seq /\ lapsed \subseteq lapsed')
    <3>1. CASE seq' = seq /\ lapsed \subseteq lapsed'
      BY <2>2, <3>1
    <3>2. CASE seq' = seq + 1
      BY <1>0, <2>2, <3>2
    <3> QED
      BY <3>1, <3>2, WorldMoves
  <2> QED
    BY <1>0, <2>1, <2>2 DEF WriteJudged
<1>2. EvaluatedUnder(t)'
  <2> SUFFICES ASSUME pc[t] = "publish"
               PROVE  LET e == job[t].eval
                          n == job[t].node
                      IN  /\ e.by \in {None, Name[t]}
                          /\ e.inst # None => e.by = Name[t] /\ e.handle = Isolated
                          /\ OwnName /\ e.inst # None /\ HeldBy(n, Name[t])'
                               => claim'[n].inst = e.inst
    BY DEF EvaluatedUnder, HeldBy
  <2> DEFINE e == job[t].eval
             n == job[t].node
  <2>1. n \in Nodes
    BY DEF Base, SessionsTyped, JobAtStep
  <2>2. ASSUME OwnName, e.inst # None, HeldBy(n, Name[t])'
        PROVE  claim'[n] = claim[n] /\ HeldBy(n, Name[t])
    <3>1. claim'[n] # None /\ claim'[n].by = Name[t]
      BY <2>2 DEF HeldBy
    <3>2. ASSUME NEW s \in Sessions, ConfirmWrite(s), claim'[n] = Mine(s)
          PROVE  FALSE
      BY <2>2, <3>1, <3>2 DEF Mine, OwnName
    <3> QED
      BY <2>1, <3>1, <3>2, ClaimMoves DEF HeldBy
  <2> QED
    BY <1>0, <2>2 DEF EvaluatedUnder
<1> QED
  BY <1>1, <1>2

LEMMA NewEvaluationUnder ==
  ASSUME Base, NEW s \in Sessions, NewEvaluation(s)
  PROVE  EvaluatedUnder(s)'
<1> PICK n \in Nodes, r \in Reports, by \in {None, Name[s]} :
           /\ Evaluable(n, r, by) /\ UNCHANGED claim
           /\ job'[s].node = n /\ job'[s].eval = Evaluation(n, r, by)
  BY DEF NewEvaluation
<1> DEFINE e == Evaluation(n, r, by)
<1>1. /\ e.by = by /\ e.handle = (Isolated /\ claim[n] # None)
      /\ e.inst = IF claim[n] = None THEN None ELSE claim[n].inst
  BY DEF Evaluation
<1>2. ~HeldByOther(n, by)
  BY DEF Evaluable
<1>3. ASSUME e.inst # None
      PROVE  by = Name[s] /\ e.handle = Isolated /\ claim'[n].inst = e.inst
  <2>1. claim[n] # None /\ claim[n] \in ClaimRecord
    BY <1>1, <1>3 DEF Base, WorldTyped, Claims
  <2>2. claim[n].by = by /\ claim[n].by \in Names
    BY <1>2, <2>1 DEF HeldByOther, ClaimRecord
  <2> QED
    BY <1>1, <2>1, <2>2
<1> HIDE DEF e
<1>4. job'[s].node = n /\ job'[s].eval = e
  BY DEF e
<1> QED
  BY <1>1, <1>3, <1>4 DEF EvaluatedUnder

LEMMA HeldNext ==
  Base /\ Held /\ [Next]_vars => Held'
<1> SUFFICES ASSUME Base, Held, [Next]_vars
             PROVE  Held'
  OBVIOUS
<1>0. pc \in [Sessions -> PCs]
  BY DEF Base, SessionsTyped
<1>1. ASSUME NEW s \in Sessions, Begin(s) \/ Step(s) \/ Crash(s)
      PROVE  Held'
  <2> PICK l : /\ OnlyMoves(s, l)
               /\ l = "write" => Confirm(s)
               /\ l = "publish" => NewEvaluation(s)
    BY <1>1, SessionMoves
  <2>1. WriteJudged(s)' /\ EvaluatedUnder(s)'
    <3>1. pc'[s] = l
      BY <1>0 DEF OnlyMoves
    <3>2. CASE l = "write"
      <4>1. WriteJudged(s)'
        BY <3>2, ConfirmJudges
      <4>2. EvaluatedUnder(s)'
        BY <3>1, <3>2 DEF EvaluatedUnder
      <4> QED
        BY <4>1, <4>2
    <3>3. CASE l = "publish"
      <4>1. EvaluatedUnder(s)'
        BY <3>3, NewEvaluationUnder
      <4>2. WriteJudged(s)'
        BY <3>1, <3>3 DEF WriteJudged
      <4> QED
        BY <4>1, <4>2
    <3>4. CASE l \notin {"write", "publish"}
      BY <3>1, <3>4 DEF WriteJudged, EvaluatedUnder
    <3> QED
      BY <3>2, <3>3, <3>4
  <2>2. ASSUME NEW t \in Sessions \ {s}
        PROVE  WriteJudged(t)' /\ EvaluatedUnder(t)'
    <3>1. pc'[t] = pc[t] /\ job'[t] = job[t] /\ drawn'[t] = drawn[t]
      BY <1>0 DEF OnlyMoves
    <3>2. ASSUME NEW u \in Sessions, ConfirmWrite(u)
          PROVE  u # t
      <4>1. pc'[u] # pc[u]
        BY <1>0, <3>2 DEF ConfirmWrite, Finish, Goto
      <4> QED
        BY <3>1, <4>1
    <3> QED
      BY <3>1, <3>2, OtherStepHeld
  <2> QED
    BY <2>1, <2>2 DEF Held
<1>2. CASE UNCHANGED <<pc, job, drawn>>
  <2>1. \A s \in Sessions : ~ConfirmWrite(s)
    BY <1>0, <1>2 DEF ConfirmWrite, Finish, Goto
  <2> QED
    BY <1>2, <2>1, OtherStepHeld DEF Held
<1>3. CASE \E n \in Nodes : LeaseLapses(n) \/ WorkerWorks(n)
  BY <1>2, <1>3 DEF LeaseLapses, WorkerWorks
<1>4. CASE UNCHANGED vars
  BY <1>2, <1>4 DEF vars
<1> QED
  BY <1>1, <1>3, <1>4 DEF Next

LEMMA HeldInit == Init => Held
BY DEF Init, Held, WriteJudged, EvaluatedUnder

LEMMA ClaimsInductive == Spec => [](Base /\ Held)
<1>1. Init => Base /\ Held
  BY BaseInit, HeldInit
<1>2. Base /\ Held /\ [Next]_vars => (Base /\ Held)'
  BY BaseNext, HeldNext
<1> QED
  BY <1>1, <1>2, PTL DEF Spec

-----------------------------------------------------------------------------
\* Whatever the commands, their interleaving and their crashes, the graph, the
\* workspaces and every session's data keep their shape.
THEOREM TypeCorrect == Spec => []TypeOK
BY Inductive, BaseParts, PTL

\* Never more claims than the provider sustains workspaces: the confirm step
\* counts the claims of the graph it writes to, and its write lands only on
\* that graph.
THEOREM CapacityKept == Spec => []WithinCapacity
BY Inductive, BaseParts, PTL

\* What an observation of the current revision vouches for is the present
\* obligation, whoever edited the node while its report was evaluated: the
\* publishing update compares the obligation it finds with the one evaluated.
THEOREM ObservationsAreOfTheContract == Spec => []ObservationsMatchContract
<1>1. Vouched => ObservationsMatchContract
  BY DEF Vouched
<1> QED
  BY <1>1, Inductive, PTL

\* No node passes before the very tests that discharge its hazards were seen
\* to fail: across edits of the gate, batches and lost races, a red is carried
\* over only with its test.
THEOREM RedComesFirst == Spec => []RedBeforeGreen
<1>1. Vouched => RedBeforeGreen
  BY DEF Vouched
<1> QED
  BY <1>1, Inductive, PTL

\* A claim whose lease runs is ended by a session of the name that holds it
\* and by nobody else: not by an expiry, a claim, a batch or a collection, nor
\* by a rollback that comes late.  In the shared tree a release is one step, and
\* `release --force` ends any claim: both are left to the assumptions.
THEOREM LiveClaimIsKept ==
  ASSUME Isolated, "force" \notin Commands
  PROVE  Spec => LiveClaimsKept
<1>1. ASSUME Base, Held, [Next]_vars, NEW n \in Nodes,
             claim[n] # None, claim[n].inst \notin lapsed, claim[n] # claim'[n]
      PROVE  claim'[n] = None /\ \E s \in Sessions : Name[s] = claim[n].by /\ pc'[s] # pc[s]
  <2>0. claim \in Claims
    BY <1>1 DEF Base, WorldTyped
  <2>1. ASSUME NEW s \in Sessions, Begin(s) \/ Step(s) \/ Crash(s)
        PROVE  claim'[n] = None /\ Name[s] = claim[n].by /\ pc'[s] # pc[s]
    <3>1. ~ConfirmWrite(s)
      BY <1>1, ConfirmWrites
    <3>2. claim' # Expired(claim)
      BY <1>1 DEF Expired
    <3>3. PICK m \in Nodes : Ends(s, m)
      BY <1>1, <2>1, <3>1, <3>2, SessionClaims
    <3>4. m = n /\ claim'[n] = None
      BY <1>1, <2>0, <3>3 DEF Ends, Claims
    <3> QED
      BY <3>3, <3>4 DEF Ends, HeldBy
  <2>2. CASE \E m \in Nodes : LeaseLapses(m) \/ WorkerWorks(m)
    BY <1>1, <2>2 DEF LeaseLapses, WorkerWorks, graph
  <2>3. CASE UNCHANGED vars
    BY <1>1, <2>3 DEF vars
  <2> QED
    BY <1>1, <2>1, <2>2, <2>3 DEF Next
<1>2. Base /\ Held /\ [Next]_vars =>
        [\A n \in Nodes :
           LET c == claim[n]
           IN  c # None /\ c.inst \notin lapsed /\ c # claim'[n] =>
                 claim'[n] = None /\ \E s \in Sessions : Name[s] = c.by /\ pc'[s] # pc[s]]_claim
  BY <1>1
<1> QED
  BY <1>2, ClaimsInductive, PTL DEF Spec, LiveClaimsKept

\* What was evaluated under one claim of a node is not published once that
\* claim has ended, were it followed by another of the same name: only its own
\* session could have made that one.  Two sessions under one name, or a shared
\* tree, which has no workspace to compare, fall outside of it.
THEOREM StaleClaimCannotSync ==
  ASSUME Isolated, OwnName
  PROVE  Spec => PublishesUnderItsClaim
<1>1. ASSUME Base, Held, [Next]_vars, seq' # seq, NEW s \in Sessions,
             pc[s] = "publish", pc'[s] # "publish", job[s].eval.inst # None
      PROVE  claim[job[s].node] # None /\ claim[job[s].node].inst = job[s].eval.inst
  <2>0. pc \in [Sessions -> PCs]
    BY <1>1 DEF Base, SessionsTyped
  <2>1. Publish(s)
    <3>1. ASSUME NEW t \in Sessions, Begin(t) \/ Step(t) \/ Crash(t)
          PROVE  t = s
      <4>1. PICK l : OnlyMoves(t, l)
        BY <1>1, <3>1, SessionMoves
      <4> QED
        BY <1>1, <2>0, <4>1 DEF OnlyMoves
    <3>2. Begin(s) \/ Step(s) \/ Crash(s)
      <4>1. ~UNCHANGED vars
        BY <1>1 DEF vars
      <4>2. ~\E n \in Nodes : LeaseLapses(n) \/ WorkerWorks(n)
        BY <1>1 DEF LeaseLapses, WorkerWorks
      <4> QED
        BY <1>1, <3>1, <4>1, <4>2 DEF Next
    <3>3. ~Begin(s)
      BY <1>1 DEF Begin, SyncCommand, ReverifyCommand, SetTestsCommand, SetArtifactsCommand,
        ClaimBegin, GCExpire, Release, Sync, ReverifyBegin, SetTests,
                  SetArtifacts, Starts
    <3>4. ~ClaimStep(s) /\ ~ReapStep(s)
      BY <1>1 DEF ClaimStep, ClaimAgain, ClaimRefused, Confirm, ConfirmInvalid, ConfirmWrite,
                  ConfirmCollides, Allocate, AllocateFails, Rollback,
                  ReapStep, ReleaseStep, GCStep, CheckIdle, Teardown, GCLoad, GCList, GCReap, GCEnd
    <3>5. ~Crash(s) /\ ~PublishRefused(s) /\ ~ReverifyEnd(s)
          /\ \A n \in Nodes : ~ReverifyNode(s, n)
      BY <1>1 DEF Crash, PublishRefused, ReverifyEnd, ReverifyNode, graph
    <3> QED
      BY <3>2, <3>3, <3>4, <3>5 DEF Step, SyncStep
  <2>2. EvaluatedUnder(s) /\ Fenced(job[s].node, job[s].eval)
    BY <1>1, <2>1 DEF Held, Publish
  <2>3. claim[job[s].node] # None /\ claim[job[s].node].by = Name[s]
    BY <1>1, <2>2 DEF EvaluatedUnder, Fenced, HeldByOther
  <2> QED
    BY <1>1, <2>2, <2>3 DEF EvaluatedUnder, HeldBy
<1>2. Base /\ Held /\ [Next]_vars =>
        [\A s \in Sessions :
           LET e == job[s].eval
           IN  pc[s] = "publish" /\ pc'[s] # "publish" /\ e.inst # None =>
                 LET n == job[s].node IN claim[n] # None /\ claim[n].inst = e.inst]_seq
  BY <1>1
<1> QED
  BY <1>2, ClaimsInductive, PTL DEF Spec, PublishesUnderItsClaim

\* A node is claimed only while it is workable with its dependencies GREEN,
\* whatever was observed or edited since it was selected.
THEOREM ClaimsAreWorkable == Spec => ClaimsOnFrontier
<1>1. ASSUME Base, Held, [Next]_vars, NEW n \in Nodes, claim'[n] # None, claim'[n] # claim[n]
      PROVE  n \in Frontier(node)
  BY <1>1, ClaimMoves, ConfirmWrites
<1>2. Base /\ Held /\ [Next]_vars =>
        [\A n \in Nodes : claim'[n] # None /\ claim'[n] # claim[n] => n \in Frontier(node)]_claim
  BY <1>1
<1> QED
  BY <1>2, ClaimsInductive, PTL DEF Spec, ClaimsOnFrontier

\* Two claimed nodes write one path only if the write-set of a claimed node was
\* changed: no interleaving of claims, releases, expiries and edits of unclaimed
\* nodes brings it about.  Set-artifacts lets the holder of a claim change it.
THEOREM ClaimsArePathDisjoint ==
  Spec /\ [][\A n \in Claimed(claim) : node'[n].paths = node[n].paths]_vars
    => []ClaimedPathsDisjoint
<1> DEFINE Keeps == \A n \in Claimed(claim) : node'[n].paths = node[n].paths
<1>1. Init => ClaimedPathsDisjoint
  BY DEF Init, ClaimedPathsDisjoint, Claimed
<1>2. ASSUME Base, Held, ClaimedPathsDisjoint, [Next]_vars, Keeps
      PROVE  ClaimedPathsDisjoint'
  <2>1. CASE \E s \in Sessions : ConfirmWrite(s)
    <3> PICK s \in Sessions : ConfirmWrite(s)
      BY <2>1
    <3>1. node' = node
      BY DEF ConfirmWrite
    <3>2. ASSUME NEW m \in Nodes, NEW n \in Nodes, claim'[m] # None, claim'[n] # None, m # n
          PROVE  node[m].paths \cap node[n].paths = {}
      <4>1. m \in Claimed(claim') /\ n \in Claimed(claim')
        BY <3>2 DEF Claimed
      <4>2. CASE claim'[m] # claim[m]
        BY <1>2, <3>2, <4>1, <4>2, ConfirmWrites
      <4>3. CASE claim'[n] # claim[n]
        BY <1>2, <3>2, <4>1, <4>3, ConfirmWrites
      <4>4. CASE claim'[m] = claim[m] /\ claim'[n] = claim[n]
        BY <1>2, <3>2, <4>4 DEF ClaimedPathsDisjoint, Claimed
      <4> QED
        BY <4>2, <4>3, <4>4
    <3> QED
      BY <3>1, <3>2 DEF ClaimedPathsDisjoint, Claimed
  <2>2. CASE ~\E s \in Sessions : ConfirmWrite(s)
    <3>1. \A n \in Nodes : claim'[n] # None => claim[n] # None
      BY <1>2, <2>2, ClaimMoves
    <3> QED
      BY <1>2, <3>1 DEF ClaimedPathsDisjoint, Claimed
  <2> QED
    BY <2>1, <2>2
<1>3. ClaimedPathsDisjoint /\ UNCHANGED vars => ClaimedPathsDisjoint'
  BY DEF ClaimedPathsDisjoint, Claimed, vars
<1>4. Base /\ Held /\ ClaimedPathsDisjoint /\ [Next]_vars /\ [Keeps]_vars
        => ClaimedPathsDisjoint'
  BY <1>2, <1>3
<1> QED
  BY <1>1, <1>4, ClaimsInductive, PTL DEF Spec
=============================================================================
