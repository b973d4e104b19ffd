------------------------ MODULE ArtifactStore_proofs ------------------------
(***************************************************************************)
(* Theorems about ArtifactStore, for any number of sessions, retries and   *)
(* crashes, and about Identifiers, for any payloads, retirements and       *)
(* status changes.                                                         *)
(*                                                                         *)
(* What is proved of the store beyond TypeOK is for sessions that all ask  *)
(* for the lock and at most one of which may initialise the graph          *)
(* (Cooperative): a write without the lock, or the second of two racing    *)
(* inits, does replace what another session wrote (store.go:112 and        *)
(* graph/store/store.go:174).  What is proved of Identifiers needs nothing *)
(* of the kind.                                                            *)
(***************************************************************************)
EXTENDS ArtifactStore, Identifiers, FiniteSetTheorems, WellFoundedInduction, TLAPS

\* An operation is a pair of its writer and a number within the bounds.
LEMMA OpType == ASSUME NEW p \in Procs, TypeOK
                PROVE  /\ Op(p) = <<p, serial[p]>>
                       /\ Op(p) \in Writers \X Nat
                       /\ Op(p) \in Procs \X (0 .. MaxOps)
  BY StoreAssumption DEF TypeOK, Op, Writers

\* What a session may find in a sequence it appended to.
LEMMA CarriesAppend ==
  ASSUME NEW s \in Content, s # Absent, NEW o \in Writers \X Nat, NEW x
  PROVE  /\ Append(s, o) # Absent
         /\ Carries(Append(s, o), x) <=> (Carries(s, x) \/ x = o)
         /\ Extends(s, Append(s, o))
<1>1. s \in Seq(Writers \X Nat) /\ Append(s, o) \in Seq(Writers \X Nat)
  BY DEF Content
<1>2. Append(s, o) # Absent
  BY <1>1, StoreAssumption DEF Writers
<1>3. /\ Len(Append(s, o)) = Len(s) + 1
      /\ \A i \in 1 .. Len(s) : Append(s, o)[i] = s[i]
      /\ Append(s, o)[Len(s) + 1] = o
      /\ DOMAIN s = 1 .. Len(s) /\ Len(s) \in Nat
      /\ DOMAIN Append(s, o) = 1 .. Len(s) + 1
  BY <1>1
<1>4. Extends(s, Append(s, o))
  BY <1>2, <1>3 DEF Extends
<1>5. Carries(s, x) => Carries(Append(s, o), x)
  BY <1>2, <1>3 DEF Carries
<1>6. x = o => Carries(Append(s, o), x)
  <2>1. Len(s) + 1 \in DOMAIN Append(s, o) /\ Append(s, o)[Len(s) + 1] = o
    BY <1>3
  <2> QED BY <1>2, <2>1 DEF Carries
<1>7. ASSUME Carries(Append(s, o), x) PROVE Carries(s, x) \/ x = o
  <2>1. PICK i \in DOMAIN Append(s, o) : Append(s, o)[i] = x
    BY <1>7 DEF Carries
  <2>2. CASE i = Len(s) + 1
    BY <1>3, <2>1, <2>2
  <2>3. CASE i \in DOMAIN s
    BY <1>3, <2>1, <2>3 DEF Carries
  <2> QED BY <1>3, <2>1, <2>2, <2>3
<1> QED BY <1>2, <1>4, <1>5, <1>6, <1>7

LEMMA EmptyCarriesNothing ==
  /\ <<>> # Absent /\ <<>> \in Content
  /\ \A x : ~Carries(<<>>, x) /\ ~Carries(Absent, x)
<1>1. <<>> \in Seq(Writers \X Nat)
  OBVIOUS
<1>2. <<>> # Absent
  BY <1>1, StoreAssumption DEF Writers
<1>3. DOMAIN <<>> = {}
  OBVIOUS
<1> QED BY <1>1, <1>2, <1>3 DEF Content, Carries

-----------------------------------------------------------------------------
Typed == TypeOK /\ RetriesLeft /\ KindAtStep

LEMMA TypedInit == Init => Typed
<1> SUFFICES ASSUME Init PROVE Typed
  OBVIOUS
<1>1. file \in Content /\ base \in [Procs -> Content]
  BY EmptyCarriesNothing DEF Init, Content
<1>2. edits \in [Editors -> 0 .. MaxEdits] /\ crashes \in 0 .. MaxCrashes
  BY StoreAssumption DEF Init
<1>3. /\ attempt \in [Procs -> 0 .. UpdateAttempts]
      /\ serial \in [Procs -> 0 .. MaxOps]
      /\ staged \subseteq Procs \X (0 .. MaxOps)
  BY StoreAssumption DEF Init
<1>4. TypeOK
  BY <1>1, <1>2, <1>3 DEF Init, TypeOK, PCs, Kinds, Results
<1> QED BY <1>4 DEF Init, Typed, RetriesLeft, KindAtStep, Holding

\* A collision keeps the types, and leaves a retry to whoever goes on.
LEMMA CollideTyped ==
  ASSUME Typed, NEW p \in Procs, pc[p] # "idle", pc[p] # "stat", Collide(p),
         kind[p] = "update", UNCHANGED <<kind, base>>
  PROVE  /\ attempt' \in [Procs -> 0 .. UpdateAttempts]
         /\ lock' \in [Procs -> {"none", "shared", "exclusive"}]
         /\ pc' \in [Procs -> PCs]
         /\ result' \in [Procs -> Results]
         /\ RetriesLeft' /\ KindAtStep'
<1> USE StoreAssumption DEF Typed, TypeOK
<1>1. CASE attempt[p] + 1 < UpdateAttempts
  <2>1. /\ attempt' = [attempt EXCEPT ![p] = attempt[p] + 1]
        /\ lock' = [lock EXCEPT ![p] = "none"]
        /\ pc' = [pc EXCEPT ![p] = "rdlock"]
        /\ result' = result
    BY <1>1 DEF Collide, Goto
  <2>2. KindAtStep'
    BY <2>1 DEF KindAtStep, Holding, PCs
  <2> QED BY <1>1, <2>1, <2>2 DEF RetriesLeft, PCs
<1>2. CASE ~(attempt[p] + 1 < UpdateAttempts)
  <2>1. /\ attempt' = [attempt EXCEPT ![p] = attempt[p] + 1]
        /\ lock' = [lock EXCEPT ![p] = "none"]
        /\ pc' = [pc EXCEPT ![p] = "idle"]
        /\ result' = [result EXCEPT ![p] = "error"]
    BY <1>2 DEF Collide, Goto
  <2>2. KindAtStep'
    BY <2>1 DEF KindAtStep, Holding, PCs
  <2> QED BY <1>2, <2>1, <2>2 DEF RetriesLeft, PCs, Results
<1> QED BY <1>1, <1>2

LEMMA TypedStep == Typed /\ [Next]_vars => Typed'
<1> SUFFICES ASSUME Typed, [Next]_vars PROVE Typed'
  OBVIOUS
<1> USE StoreAssumption DEF Typed, TypeOK, RetriesLeft, KindAtStep, Holding
<1>1. ASSUME NEW p \in Procs, Begin(p) PROVE Typed'
  BY <1>1 DEF Begin, Goto, Kinds, PCs, Results
<1>2. ASSUME NEW p \in Procs, StatFile(p) PROVE Typed'
  <2>1. CASE file = Absent
    BY <1>2, <2>1 DEF StatFile, Goto, PCs
  <2>2. CASE file # Absent
    <3>1. /\ Return(p, "error")
          /\ base' = [base EXCEPT ![p] = file]
          /\ UNCHANGED <<file, kind, attempt, serial, staged, edits, crashes>>
      BY <1>2, <2>2 DEF StatFile
    <3> QED BY <3>1 DEF Goto, Return, PCs, Results
  <2> QED BY <2>1, <2>2
<1>3. ASSUME NEW p \in Procs, ReadStep(p) PROVE Typed'
  <2>1. CASE AcquireShared(p)
    BY <2>1 DEF AcquireShared, Goto, PCs
  <2>2. CASE ReadUnguarded(p)
    BY <2>2 DEF ReadUnguarded, Goto, PCs
  <2>3. CASE ReadFile(p)
    <3>1. CASE file = Absent \/ kind[p] = "read"
      <4>1. \E r \in {"error", "ok"} : Return(p, r)
        BY <2>3, <3>1 DEF ReadFile
      <4> QED BY <2>3, <4>1 DEF ReadFile, Goto, Return, PCs, Results
    <3>2. CASE file # Absent /\ kind[p] # "read"
      <4>1. Goto(p, "wrlock") /\ lock' = [lock EXCEPT ![p] = "none"]
            /\ UNCHANGED result
        BY <2>3, <3>2 DEF ReadFile
      <4> QED BY <2>3, <3>2, <4>1 DEF ReadFile, Goto, PCs
    <3> QED BY <3>1, <3>2
  <2> QED BY <1>3, <2>1, <2>2, <2>3 DEF ReadStep
<1>4. ASSUME NEW p \in Procs, WriteStep(p) PROVE Typed'
  <2>1. CASE FnRefuses(p)
    BY <2>1 DEF FnRefuses, Return, Goto, PCs, Results
  <2>2. CASE AcquireExclusive(p)
    BY <2>2 DEF AcquireExclusive, Goto, PCs
  <2>3. CASE LockTimeout(p)
    BY <2>3 DEF LockTimeout, Return, Goto, PCs, Results
  <2>4. CASE CheckDigest(p)
    <3>1. CASE file = base[p]
      BY <2>4, <3>1 DEF CheckDigest, Goto, PCs
    <3>2. CASE file # base[p]
      BY <2>4, <3>2, CollideTyped DEF CheckDigest
    <3> QED BY <3>1, <3>2
  <2>5. CASE Stage(p)
    BY <2>5, OpType DEF Stage, Goto, PCs
  <2>6. CASE StageFails(p)
    BY <2>6 DEF StageFails, Return, Goto, PCs, Results
  <2>7. CASE Rename(p)
    <3>1. kind[p] \in {"init", "update"}
      BY <2>7 DEF Rename, Kinds
    <3>2. NewContent(p) \in Content
      <4>1. CASE kind[p] = "init"
        BY <4>1, EmptyCarriesNothing DEF NewContent
      <4>2. CASE kind[p] = "update"
        <5>1. base[p] \in Seq(Writers \X Nat)
          BY <2>7, <4>2 DEF Rename, Content
        <5>2. Op(p) \in Writers \X Nat
          BY OpType
        <5>3. Append(base[p], Op(p)) \in Seq(Writers \X Nat)
          BY <5>1, <5>2
        <5> QED BY <4>2, <5>3 DEF NewContent, Content
      <4> QED BY <3>1, <4>1, <4>2
    <3> QED BY <2>7, <3>2 DEF Rename, Goto, PCs
  <2>8. CASE RenameFails(p)
    BY <2>8 DEF RenameFails, Return, Goto, PCs, Results
  <2>9. CASE RenameTransient(p)
    BY <2>9 DEF RenameTransient, Goto, PCs
  <2>10. CASE Recheck(p)
    <3>1. CASE kind[p] = "init" \/ file = base[p]
      BY <2>10, <3>1 DEF Recheck, Goto, PCs
    <3>2. CASE ~(kind[p] = "init" \/ file = base[p])
      <4>1. staged' \subseteq Procs \X (0 .. MaxOps)
        BY <2>10, <3>2 DEF Recheck
      <4>2. /\ pc[p] = "recheck" /\ kind[p] = "update" /\ Collide(p)
            /\ UNCHANGED <<file, kind, base, serial, edits, crashes>>
        BY <2>10, <3>2 DEF Recheck, Kinds
      <4>3. /\ attempt' \in [Procs -> 0 .. UpdateAttempts]
            /\ lock' \in [Procs -> {"none", "shared", "exclusive"}]
            /\ pc' \in [Procs -> PCs]
            /\ result' \in [Procs -> Results]
            /\ RetriesLeft' /\ KindAtStep'
        BY <4>2, CollideTyped
      <4> QED BY <4>1, <4>2, <4>3
    <3> QED BY <3>1, <3>2
  <2>11. CASE Unlock(p)
    BY <2>11 DEF Unlock, Return, Goto, PCs, Results
  <2> QED BY <1>4, <2>1, <2>2, <2>3, <2>4, <2>5, <2>6, <2>7, <2>8, <2>9, <2>10,
             <2>11 DEF WriteStep
<1>5. ASSUME NEW p \in Procs, Crash(p) PROVE Typed'
  BY <1>5 DEF Crash, Return, Goto, PCs, Results
<1>6. ASSUME NEW e \in Editors, EditorWrites(e) PROVE Typed'
  BY <1>6 DEF EditorWrites, Op, Writers, Content
<1>7. CASE UNCHANGED vars
  BY <1>7 DEF vars
<1> QED BY <1>1, <1>2, <1>3, <1>4, <1>5, <1>6, <1>7 DEF Next, Step

\* Every variable keeps its type, whatever the editors do.
THEOREM TypeCorrect == Spec => []TypeOK
<1>1. Typed => TypeOK
  BY DEF Typed
<1> QED BY <1>1, TypedInit, TypedStep, PTL DEF Spec

-----------------------------------------------------------------------------
(***************************************************************************)
(* At most one session is between the lock and its release.                *)
(***************************************************************************)
LEMMA LockInit == Init => LockDiscipline
  BY DEF Init, LockDiscipline, Holding

LEMMA LockStep == Typed /\ LockDiscipline /\ [Next]_vars => LockDiscipline'
<1> SUFFICES ASSUME Typed, LockDiscipline, [Next]_vars PROVE LockDiscipline'
  OBVIOUS
<1> USE DEF Typed, TypeOK, LockDiscipline, Holding
\* A step that releases p's lock and leaves the region, or was never in it.
<1>1. ASSUME NEW p \in Procs, NEW l \in PCs \ Holding, Goto(p, l),
             lock' = [lock EXCEPT ![p] = "none"] \/ lock' = lock
      PROVE  LockDiscipline'
  BY <1>1 DEF Goto
\* A step inside the region.
<1>2. ASSUME NEW p \in Procs, pc[p] \in Holding, NEW l \in PCs, Goto(p, l),
             lock' = lock
      PROVE  LockDiscipline'
  BY <1>2 DEF Goto
<1>3. ASSUME NEW p \in Procs, NEW r, Return(p, r) PROVE LockDiscipline'
  BY <1>1, <1>3 DEF Return, PCs
<1>4. ASSUME NEW p \in Procs, Collide(p) PROVE LockDiscipline'
  BY <1>1, <1>4 DEF Collide, PCs, Goto
<1>5. ASSUME NEW p \in Procs, Begin(p) PROVE LockDiscipline'
  <2>1. \E l \in PCs \ Holding : Goto(p, l) /\ lock' = lock
    BY <1>5 DEF Begin, PCs, Goto
  <2> QED BY <1>1, <2>1
<1>6. ASSUME NEW p \in Procs, StatFile(p) PROVE LockDiscipline'
  BY <1>1, <1>3, <1>6 DEF StatFile, PCs
<1>7. ASSUME NEW p \in Procs, ReadStep(p) PROVE LockDiscipline'
  <2>1. CASE AcquireShared(p)
    BY <2>1 DEF AcquireShared, ExclusiveHolder, Goto
  <2>2. CASE ReadUnguarded(p)
    BY <2>2, <1>1 DEF ReadUnguarded, PCs
  <2>3. CASE ReadFile(p)
    BY <2>3, <1>1, <1>3 DEF ReadFile, PCs
  <2> QED BY <1>7, <2>1, <2>2, <2>3 DEF ReadStep
<1>8. ASSUME NEW p \in Procs, WriteStep(p) PROVE LockDiscipline'
  <2>1. CASE AcquireExclusive(p)
    BY <2>1 DEF AcquireExclusive, AnyHolder, Goto
  <2>2. CASE CheckDigest(p)
    BY <2>2, <1>2, <1>4 DEF CheckDigest, PCs
  <2>3. CASE Recheck(p)
    BY <2>3, <1>2, <1>4 DEF Recheck, PCs
  <2>4. CASE Stage(p) \/ Rename(p) \/ RenameTransient(p)
    <3>1. pc[p] \in Holding /\ lock' = lock /\ \E l \in PCs : Goto(p, l)
      BY <2>4 DEF Stage, Rename, RenameTransient, PCs
    <3> QED BY <1>2, <3>1
  <2>5. CASE FnRefuses(p) \/ LockTimeout(p) \/ StageFails(p) \/ RenameFails(p)
             \/ Unlock(p)
    BY <2>5, <1>3 DEF FnRefuses, LockTimeout, StageFails, RenameFails, Unlock
  <2> QED BY <1>8, <2>1, <2>2, <2>3, <2>4, <2>5 DEF WriteStep
<1>9. ASSUME NEW p \in Procs, Crash(p) PROVE LockDiscipline'
  BY <1>9, <1>3 DEF Crash
<1>10. CASE UNCHANGED <<lock, pc>>
  BY <1>10
<1> QED BY <1>5, <1>6, <1>7, <1>8, <1>9, <1>10
        DEF Next, Step, EditorWrites, vars

-----------------------------------------------------------------------------
(***************************************************************************)
(* From here on every writer asks for the lock, and at most one session    *)
(* may initialise.                                                         *)
(***************************************************************************)
Locked == Typed /\ LockDiscipline

\* What a step of the lock holder may rely on, and what it does to the file.
LEMMA FileStep ==
  ASSUME Cooperative, Locked, FreshBase, [Next]_vars, file' # file
  PROVE  \E p \in Procs :
           /\ Rename(p)
           /\ \/ kind[p] = "update" /\ file \in Content /\ file # Absent
                                    /\ file' = Append(file, Op(p))
              \/ kind[p] = "init" /\ file = Absent /\ file' = <<>>
<1> USE DEF Locked, Typed, TypeOK
<1>1. PICK p \in Procs : Rename(p)
  <2>1. Editors = {}
    BY DEF Cooperative
  <2> QED BY <2>1 DEF Next, Step, ReadStep, WriteStep, vars, Begin, StatFile,
       AcquireShared, ReadUnguarded, ReadFile, FnRefuses, AcquireExclusive,
       LockTimeout, CheckDigest, Stage, StageFails, RenameFails,
       RenameTransient, Recheck, Unlock, Crash
<1>2. pc[p] = "rename" /\ file' = NewContent(p)
  BY <1>1 DEF Rename
<1>3. kind[p] \in {"init", "update"}
  BY <1>2 DEF KindAtStep, Kinds, Holding
<1>4. CASE kind[p] = "init"
  BY <1>1, <1>2, <1>4 DEF NewContent, FreshBase
<1>5. CASE kind[p] = "update"
  <2>1. base[p] = file /\ base[p] # Absent
    BY <1>2, <1>5 DEF FreshBase, KindAtStep, Holding
  <2> QED BY <1>1, <1>2, <1>5, <2>1 DEF NewContent
<1> QED BY <1>1, <1>3, <1>4, <1>5

LEMMA FreshInit == Init => FreshBase
  BY DEF Init, FreshBase

\* Nobody else is past the lock, or initialising, when one session renames.
LEMMA FreshStep ==
  ASSUME Cooperative, Locked, FreshBase, [Next]_vars
  PROVE  FreshBase'
<1> USE DEF Locked, Typed, TypeOK
<1>1. CASE file' # file
  <2>1. PICK p \in Procs : /\ Rename(p)
                           /\ \/ kind[p] = "update" /\ file # Absent
                              \/ kind[p] = "init" /\ file = Absent
    BY <1>1, FileStep
  <2>2. /\ pc[p] = "rename" /\ pc' = [pc EXCEPT ![p] = "unlock"]
        /\ UNCHANGED <<kind, base>>
    BY <2>1 DEF Rename, Goto
  <2>3. \A q \in Procs \ {p} : pc[q] \notin Holding
    BY <2>2 DEF LockDiscipline, Holding
  <2>4. \A q \in Procs \ {p} : pc[q] = "wrlock" /\ kind[q] = "init" => FALSE
    <3> SUFFICES ASSUME NEW q \in Procs \ {p}, pc[q] = "wrlock", kind[q] = "init"
                 PROVE  FALSE
      OBVIOUS
    <3>1. file = Absent /\ q \in Initialisers
      BY DEF FreshBase, KindAtStep
    <3>2. p \in Initialisers
      BY <2>1, <3>1 DEF KindAtStep
    <3> QED BY <3>1, <3>2 DEF Cooperative
  <2> QED BY <2>2, <2>3, <2>4 DEF FreshBase, Holding
<1>2. CASE file' = file
  <2> USE <1>2 DEF FreshBase, KindAtStep, PCs
  <2>1. ASSUME NEW p \in Procs, NEW l \in {"idle", "rdlock", "read"}, Goto(p, l),
               base' = base \/ \E v : base' = [base EXCEPT ![p] = v],
               kind' = kind
        PROVE  FreshBase'
    BY <2>1 DEF Goto
  <2>2. ASSUME NEW p \in Procs, NEW r, Return(p, r), kind' = kind,
               base' = base \/ \E v : base' = [base EXCEPT ![p] = v]
        PROVE  FreshBase'
    BY <2>1, <2>2 DEF Return
  <2>3. ASSUME NEW p \in Procs, Collide(p), UNCHANGED <<base, kind>> PROVE FreshBase'
    BY <2>1, <2>3 DEF Collide, Goto
  <2>4. ASSUME NEW p \in Procs, Begin(p) PROVE FreshBase'
    BY <2>4 DEF Begin, Goto
  <2>5. ASSUME NEW p \in Procs, StatFile(p) PROVE FreshBase'
    <3>1. CASE file = Absent
      BY <2>5, <3>1 DEF StatFile, Goto
    <3>2. CASE file # Absent
      BY <2>5, <2>2, <3>2 DEF StatFile
    <3> QED BY <3>1, <3>2
  <2>6. ASSUME NEW p \in Procs, ReadStep(p) PROVE FreshBase'
    <3>1. CASE AcquireShared(p) \/ ReadUnguarded(p)
      BY <3>1 DEF AcquireShared, ReadUnguarded, Goto
    <3>2. CASE ReadFile(p)
      <4>1. CASE Goto(p, "wrlock")
        BY <3>2, <4>1 DEF ReadFile, Goto
      <4>2. CASE \E r \in {"ok", "error"} : Return(p, r)
        BY <3>2, <4>2, <2>2 DEF ReadFile
      <4> QED BY <3>2, <4>1, <4>2 DEF ReadFile
    <3> QED BY <2>6, <3>1, <3>2 DEF ReadStep
  <2>7. ASSUME NEW p \in Procs, WriteStep(p) PROVE FreshBase'
    <3>1. CASE AcquireExclusive(p)
      BY <3>1 DEF AcquireExclusive, Goto
    <3>2. CASE CheckDigest(p)
      <4>1. CASE file = base[p]
        BY <3>2, <4>1 DEF CheckDigest, Goto
      <4>2. CASE file # base[p]
        BY <3>2, <4>2, <2>3 DEF CheckDigest
      <4> QED BY <4>1, <4>2
    <3>3. CASE Recheck(p)
      <4>1. CASE kind[p] = "init" \/ file = base[p]
        BY <3>3, <4>1 DEF Recheck, Goto
      <4>2. CASE ~(kind[p] = "init" \/ file = base[p])
        BY <3>3, <4>2, <2>3 DEF Recheck
      <4> QED BY <4>1, <4>2
    <3>4. CASE Stage(p) \/ RenameTransient(p)
      BY <3>4 DEF Stage, RenameTransient, Goto
    <3>5. CASE Rename(p)
      BY <3>5 DEF Rename, Goto
    <3>6. CASE FnRefuses(p) \/ LockTimeout(p) \/ StageFails(p)
               \/ RenameFails(p) \/ Unlock(p)
      BY <3>6, <2>2 DEF FnRefuses, LockTimeout, StageFails, RenameFails, Unlock
    <3> QED BY <2>7, <3>1, <3>2, <3>3, <3>4, <3>5, <3>6 DEF WriteStep
  <2>8. ASSUME NEW p \in Procs, Crash(p) PROVE FreshBase'
    BY <2>8, <2>2 DEF Crash
  <2>9. CASE UNCHANGED vars
    BY <2>9 DEF vars
  <2> QED BY <2>4, <2>5, <2>6, <2>7, <2>8, <2>9
          DEF Next, Step, Cooperative
<1> QED BY <1>1, <1>2

-----------------------------------------------------------------------------
\* Sessions that ask for the lock never remove one another's operations.
THEOREM NoWriteIsLost == ASSUME Cooperative PROVE Spec => NoLostWrite
<1> DEFINE Inv == Locked /\ FreshBase
<1>1. Init => Inv
  BY TypedInit, LockInit, FreshInit DEF Locked
<1>2. Inv /\ [Next]_vars => Inv'
  BY TypedStep, LockStep, FreshStep DEF Locked
<1>3. Inv /\ [Next]_vars => [file # Absent => Extends(file, file')]_file
  <2> SUFFICES ASSUME Inv, [Next]_vars, file' # file, file # Absent
               PROVE  Extends(file, file')
    OBVIOUS
  <2>1. PICK p \in Procs : file \in Content /\ file' = Append(file, Op(p))
    BY FileStep
  <2>2. Op(p) \in Writers \X Nat
    BY OpType DEF Locked, Typed
  <2> QED BY <2>1, <2>2, CarriesAppend
<1> QED BY <1>1, <1>2, <1>3, PTL DEF Spec, NoLostWrite

-----------------------------------------------------------------------------
(***************************************************************************)
(* What a session reports is what the artifact holds.                      *)
(***************************************************************************)
Told == HistoryMatches /\ ReportsMatchFile

LEMMA ToldInit == Init => Told
  BY EmptyCarriesNothing DEF Init, Told, HistoryMatches, ReportsMatchFile

LEMMA ToldStep ==
  ASSUME Cooperative, Locked, FreshBase, Told, [Next]_vars
  PROVE  Told'
<1> USE DEF Locked, Typed, TypeOK
<1>1. CASE file' # file
  <2>1. PICK p \in Procs :
           /\ Rename(p)
           /\ \/ kind[p] = "update" /\ file \in Content /\ file # Absent
                                    /\ file' = Append(file, Op(p))
              \/ kind[p] = "init" /\ file = Absent /\ file' = <<>>
    BY <1>1, FileStep
  <2>2. /\ pc[p] = "rename" /\ pc' = [pc EXCEPT ![p] = "unlock"]
        /\ UNCHANGED <<kind, serial, result>>
    BY <2>1 DEF Rename, Goto
  <2>3. \A q \in Procs : Op(q)' = Op(q) /\ Op(q) = <<q, serial[q]>>
    BY <2>2, OpType DEF Op
  <2>4. CASE kind[p] = "update"
    <3>1. \A x : Carries(file', x) <=> (Carries(file, x) \/ x = Op(p))
      <4>1. Op(p) \in Writers \X Nat
        BY OpType
      <4>2. file \in Content /\ file # Absent /\ file' = Append(file, Op(p))
        BY <2>1, <2>4
      <4> QED BY <4>1, <4>2, CarriesAppend
    <3>2. HistoryMatches'
      BY <2>2, <2>3, <3>1 DEF Told, HistoryMatches
    <3>3. ReportsMatchFile'
      BY <2>2, <2>3, <3>1 DEF Told, ReportsMatchFile
    <3> QED BY <3>2, <3>3 DEF Told
  <2>5. CASE kind[p] = "init"
    <3>1. \A x : ~Carries(file, x) /\ ~Carries(file', x)
      BY <2>1, <2>5, EmptyCarriesNothing
    <3> QED BY <2>2, <2>3, <2>5, <3>1 DEF Told, HistoryMatches, ReportsMatchFile
  <2> QED BY <2>1, <2>4, <2>5
<1>2. CASE file' = file
  <2> USE <1>2 DEF Told, HistoryMatches, ReportsMatchFile, PCs
  <2>0. ASSUME serial' = serial PROVE \A q \in Procs : Op(q)' = Op(q)
    BY <2>0 DEF Op
  \* The command goes on.
  <2>1. ASSUME NEW p \in Procs, NEW l \in PCs \ {"idle", "unlock"}, Goto(p, l),
               pc[p] \notin {"idle", "unlock"}, UNCHANGED <<kind, serial, result>>
        PROVE  Told'
    BY <2>0, <2>1 DEF Goto
  \* The command fails, before its rename.
  <2>2. ASSUME NEW p \in Procs, Goto(p, "idle"),
               result' = [result EXCEPT ![p] = "error"],
               pc[p] \notin {"idle", "unlock"}, UNCHANGED <<kind, serial>>
        PROVE  Told'
    BY <2>0, <2>2 DEF Goto
  <2>3. ASSUME NEW p \in Procs, Collide(p), pc[p] \notin {"idle", "unlock"},
               UNCHANGED <<kind, serial>>
        PROVE  Told'
    <3>1. CASE attempt[p] + 1 < UpdateAttempts
      BY <2>1, <2>3, <3>1 DEF Collide
    <3>2. CASE ~(attempt[p] + 1 < UpdateAttempts)
      BY <2>2, <2>3, <3>2 DEF Collide
    <3> QED BY <3>1, <3>2
  <2>4. ASSUME NEW p \in Procs, Begin(p) PROVE Told'
    <3>1. /\ pc[p] = "idle" /\ serial' = [serial EXCEPT ![p] = serial[p] + 1]
          /\ \E l \in {"stat", "rdlock"} : pc' = [pc EXCEPT ![p] = l]
          /\ \E k \in Kinds : kind' = [kind EXCEPT ![p] = k]
          /\ result' = [result EXCEPT ![p] = "none"]
      BY <2>4 DEF Begin, Goto
    <3>2. /\ Op(p)' = <<p, serial[p] + 1>>
          /\ \A q \in Procs \ {p} : Op(q)' = Op(q)
      BY <3>1 DEF Op
    <3>3. ~Carries(file, <<p, serial[p] + 1>>)
      OBVIOUS
    <3>4. HistoryMatches'
      BY <3>1, <3>2, <3>3
    <3>5. ReportsMatchFile'
      BY <3>1, <3>2
    <3> QED BY <3>4, <3>5
  <2>5. ASSUME NEW p \in Procs, StatFile(p) PROVE Told'
    <3>1. CASE file = Absent
      BY <2>1, <2>5, <3>1 DEF StatFile
    <3>2. CASE file # Absent
      BY <2>2, <2>5, <3>2 DEF StatFile, Return
    <3> QED BY <3>1, <3>2
  <2>6. ASSUME NEW p \in Procs, ReadStep(p) PROVE Told'
    <3>1. CASE AcquireShared(p) \/ ReadUnguarded(p)
      BY <2>1, <3>1 DEF AcquireShared, ReadUnguarded
    <3>2. CASE ReadFile(p)
      <4>1. CASE Goto(p, "wrlock") /\ result' = result
        BY <2>1, <3>2, <4>1 DEF ReadFile
      <4>2. CASE Return(p, "error")
        BY <2>2, <3>2, <4>2 DEF ReadFile, Return
      <4>3. CASE Return(p, "ok") /\ kind[p] = "read"
        <5>1. serial' = serial /\ kind' = kind /\ pc[p] = "read"
          BY <3>2 DEF ReadFile
        <5> QED BY <2>0, <4>3, <5>1 DEF Return, Goto
      <4> QED BY <3>2, <4>1, <4>2, <4>3 DEF ReadFile
    <3> QED BY <2>6, <3>1, <3>2 DEF ReadStep
  <2>7. ASSUME NEW p \in Procs, WriteStep(p) PROVE Told'
    <3>1. CASE AcquireExclusive(p)
      BY <2>1, <3>1 DEF AcquireExclusive
    <3>2. CASE CheckDigest(p)
      BY <2>1, <2>3, <3>2 DEF CheckDigest
    <3>3. CASE Recheck(p)
      BY <2>1, <2>3, <3>3 DEF Recheck
    <3>4. CASE Stage(p) \/ RenameTransient(p)
      BY <2>1, <3>4 DEF Stage, RenameTransient
    <3>5. CASE Rename(p)
      <4>1. kind[p] = "init"
        <5>1. SUFFICES ASSUME kind[p] = "update" PROVE FALSE
          BY <3>5 DEF Rename, KindAtStep, Holding, Kinds
        <5>2. base[p] = file /\ file # Absent
          BY <3>5, <5>1 DEF Rename, FreshBase, KindAtStep, Holding
        <5>3. file' = Append(file, Op(p))
          BY <3>5, <5>1, <5>2 DEF Rename, NewContent
        <5>4. Op(p) \in Writers \X Nat
          BY OpType
        <5>5. Carries(Append(file, Op(p)), Op(p))
          BY <5>2, <5>4, CarriesAppend
        <5>6. ~Carries(file, Op(p))
          BY <3>5 DEF Rename
        <5> QED BY <5>3, <5>5, <5>6
      <4> QED BY <2>0, <3>5, <4>1 DEF Rename, Goto
    <3>6. CASE FnRefuses(p) \/ LockTimeout(p) \/ StageFails(p) \/ RenameFails(p)
      BY <2>2, <3>6 DEF FnRefuses, LockTimeout, StageFails, RenameFails, Return
    <3>7. CASE Unlock(p)
      BY <2>0, <3>7 DEF Unlock, Return, Goto
    <3> QED BY <2>7, <3>1, <3>2, <3>3, <3>4, <3>5, <3>6, <3>7 DEF WriteStep
  <2>8. ASSUME NEW p \in Procs, Crash(p) PROVE Told'
    BY <2>0, <2>8 DEF Crash, Return, Goto
  <2>9. CASE UNCHANGED vars
    BY <2>0, <2>9 DEF vars
  <2> QED BY <2>4, <2>5, <2>6, <2>7, <2>8, <2>9 DEF Next, Step, Cooperative
<1> QED BY <1>1, <1>2

\* An update that reports success is in the artifact, one that reports an error
\* is not, however many sessions collide, time out or die in between.
THEOREM ReportsAreTrue == ASSUME Cooperative PROVE Spec => []ReportsMatchFile
<1> DEFINE Inv == Locked /\ FreshBase /\ Told
<1>1. Init => Inv
  BY TypedInit, LockInit, FreshInit, ToldInit DEF Locked
<1>2. Inv /\ [Next]_vars => Inv'
  BY TypedStep, LockStep, FreshStep, ToldStep DEF Locked
<1>3. Inv => ReportsMatchFile
  BY DEF Told
<1> QED BY <1>1, <1>2, <1>3, PTL DEF Spec

-----------------------------------------------------------------------------
(***************************************************************************)
(* ArtifactStore implements AtomicStore.                                   *)
(***************************************************************************)
LEMMA PhaseStep ==
  ASSUME Typed, NEW p \in Procs, NEW l \in PCs, Goto(p, l)
  PROVE  /\ Phase' = [Phase EXCEPT ![p] = PhaseOf(l)]
         /\ PhaseOf(l) = PhaseOf(pc[p]) => Phase' = Phase
  BY DEF Typed, TypeOK, Goto, Phase

LEMMA AtomicInit == Init => Atomic!Init
  BY DEF Init, Atomic!Init, Phase, PhaseOf

LEMMA AtomicStep ==
  ASSUME Cooperative, Locked, FreshBase, [Next]_vars
  PROVE  [Atomic!Next]_(Atomic!vars)
<1> USE DEF Locked, Typed, TypeOK, PhaseOf, Phase, PCs
<1>a. ASSUME NEW p \in Procs, NEW l \in PCs \ {"idle", "unlock"}, Goto(p, l),
             pc[p] \notin {"idle", "unlock"},
             UNCHANGED <<file, kind, base, serial, result>>
      PROVE  UNCHANGED Atomic!vars
  <2>1. PhaseOf(l) = PhaseOf(pc[p])
    BY <1>a
  <2> HIDE DEF Phase, PhaseOf
  <2>2. Phase' = Phase
    BY <1>a, <2>1, PhaseStep
  <2> QED BY <1>a, <2>2 DEF Atomic!vars
<1>b. ASSUME NEW p \in Procs, Goto(p, "idle"), pc[p] \notin {"idle", "unlock"},
             result' = [result EXCEPT ![p] = "error"],
             base' \in {base, [base EXCEPT ![p] = file]},
             UNCHANGED <<file, kind, serial>>
      PROVE  Atomic!Fail(p)
  BY <1>b, PhaseStep DEF Atomic!Fail, Atomic!Finish
<1>c. ASSUME NEW p \in Procs, Collide(p), pc[p] \notin {"idle", "unlock"},
             UNCHANGED <<file, kind, base, serial>>
      PROVE  Atomic!Fail(p) \/ UNCHANGED Atomic!vars
  <2>1. CASE attempt[p] + 1 < UpdateAttempts
    BY <1>a, <1>c, <2>1 DEF Collide
  <2>2. CASE ~(attempt[p] + 1 < UpdateAttempts)
    BY <1>b, <1>c, <2>2 DEF Collide
  <2> QED BY <2>1, <2>2
<1>1. ASSUME NEW p \in Procs, Begin(p) PROVE Atomic!Begin(p)
  <2>1. Phase' = [Phase EXCEPT ![p] = "busy"]
    BY <1>1, PhaseStep DEF Begin
  <2> QED BY <1>1, <2>1 DEF Begin, Atomic!Begin, Atomic!Kinds, Kinds
<1>2. ASSUME NEW p \in Procs, StatFile(p) PROVE Atomic!Look(p) \/ Atomic!Fail(p)
  <2>1. CASE file = Absent
    <3>1. Phase' = Phase
      BY <1>2, <2>1, PhaseStep DEF StatFile
    <3> QED BY <1>2, <2>1, <3>1 DEF StatFile, Atomic!Look
  <2>2. CASE file # Absent
    BY <1>2, <1>b, <2>2 DEF StatFile, Return
  <2> QED BY <2>1, <2>2
<1>3. ASSUME NEW p \in Procs, ReadStep(p) PROVE [Atomic!Next]_(Atomic!vars)
  <2>1. CASE AcquireShared(p) \/ ReadUnguarded(p)
    BY <1>a, <2>1 DEF AcquireShared, ReadUnguarded
  <2>2. CASE ReadFile(p)
    <3>1. CASE Goto(p, "wrlock") /\ result' = result
      <4>1. Phase' = Phase
        BY <2>2, <3>1, PhaseStep DEF ReadFile
      <4>2. Atomic!Look(p)
        BY <2>2, <3>1, <4>1 DEF ReadFile, Atomic!Look
      <4> QED BY <4>2 DEF Atomic!Next
    <3>2. CASE Return(p, "error")
      <4>1. Atomic!Fail(p)
        BY <1>b, <2>2, <3>2 DEF ReadFile, Return
      <4> QED BY <4>1 DEF Atomic!Next
    <3>3. CASE Return(p, "ok") /\ kind[p] = "read"
      <4>1. Phase' = [Phase EXCEPT ![p] = "idle"]
        BY <3>3, PhaseStep DEF Return
      <4>2. Atomic!Read(p)
        BY <2>2, <3>3, <4>1 DEF ReadFile, Return, Atomic!Read, Atomic!Finish
      <4> QED BY <4>2 DEF Atomic!Next
    <3> QED BY <2>2, <3>1, <3>2, <3>3 DEF ReadFile
  <2> QED BY <1>3, <2>1, <2>2 DEF ReadStep
<1>4. ASSUME NEW p \in Procs, WriteStep(p) PROVE [Atomic!Next]_(Atomic!vars)
  <2>1. CASE AcquireExclusive(p)
    BY <1>a, <2>1 DEF AcquireExclusive
  <2>2. CASE CheckDigest(p)
    BY <1>a, <1>c, <2>2 DEF CheckDigest, Atomic!Next
  <2>3. CASE Recheck(p)
    BY <1>a, <1>c, <2>3 DEF Recheck, Atomic!Next
  <2>4. CASE Stage(p) \/ RenameTransient(p)
    BY <1>a, <2>4 DEF Stage, RenameTransient
  <2>5. CASE Rename(p)
    <3>1. Phase' = [Phase EXCEPT ![p] = "applied"]
      BY <2>5, PhaseStep DEF Rename
    <3>2. CASE kind[p] = "update"
      <4>1. base[p] = file /\ file # Absent
        BY <2>5, <3>2 DEF Rename, FreshBase, KindAtStep, Holding
      <4>2. file' = Append(file, Op(p))
        BY <2>5, <3>2, <4>1 DEF Rename, NewContent
      <4>3. Op(p) = Atomic!Op(p)
        BY OpType DEF Atomic!Op
      <4>4. Atomic!Apply(p)
        BY <2>5, <3>1, <3>2, <4>1, <4>2, <4>3 DEF Rename, Atomic!Apply
      <4> QED BY <4>4 DEF Atomic!Next
    <3>3. CASE kind[p] = "init"
      <4>1. Atomic!Create(p)
        BY <2>5, <3>1, <3>3 DEF Rename, FreshBase, NewContent, Atomic!Create
      <4> QED BY <4>1 DEF Atomic!Next
    <3> QED BY <2>5, <3>2, <3>3 DEF Rename, KindAtStep, Holding, Kinds
  <2>6. CASE FnRefuses(p) \/ LockTimeout(p) \/ StageFails(p) \/ RenameFails(p)
    <3>1. Atomic!Fail(p)
      BY <1>b, <2>6 DEF FnRefuses, LockTimeout, StageFails, RenameFails, Return
    <3> QED BY <3>1 DEF Atomic!Next
  <2>7. CASE Unlock(p)
    <3>1. Phase' = [Phase EXCEPT ![p] = "idle"]
      BY <2>7, PhaseStep DEF Unlock, Return
    <3>2. Atomic!Succeed(p)
      BY <2>7, <3>1 DEF Unlock, Return, Atomic!Succeed, Atomic!Finish
    <3> QED BY <3>2 DEF Atomic!Next
  <2> QED BY <1>4, <2>1, <2>2, <2>3, <2>4, <2>5, <2>6, <2>7 DEF WriteStep
<1>5. ASSUME NEW p \in Procs, Crash(p) PROVE Atomic!Crash(p)
  <2>1. Phase' = [Phase EXCEPT ![p] = "idle"]
    BY <1>5, PhaseStep DEF Crash, Return
  <2> QED BY <1>5, <2>1 DEF Crash, Return, Atomic!Crash, Atomic!Finish
<1>6. CASE UNCHANGED vars
  BY <1>6 DEF vars, Atomic!vars
<1> QED BY <1>1, <1>2, <1>3, <1>4, <1>5, <1>6
        DEF Next, Step, Cooperative, Atomic!Next

\* Interleaved sessions behave as if each command took effect at one instant.
THEOREM StoreIsAtomic == ASSUME Cooperative PROVE Spec => ImplementsAtomicStore
<1> DEFINE Inv == Locked /\ FreshBase
<1>1. Init => Inv
  BY TypedInit, LockInit, FreshInit DEF Locked
<1>2. Inv /\ [Next]_vars => Inv'
  BY TypedStep, LockStep, FreshStep DEF Locked
<1>3. Inv /\ [Next]_vars => [Atomic!Next]_(Atomic!vars)
  BY AtomicStep
<1> QED BY <1>1, <1>2, <1>3, AtomicInit, PTL
        DEF Spec, ImplementsAtomicStore, Atomic!Spec

-----------------------------------------------------------------------------
(***************************************************************************)
(* Identifiers: numbers.                                                   *)
(***************************************************************************)
Artifact == Doc \cup {NoDoc}

\* The items of an artifact, or of none, are a sequence.
LEMMA ItemsTyped == ASSUME NEW d \in Artifact PROVE Items(d) \in Seq(Item)
  BY DEF Artifact, Items, Doc

\* Every reader finds numbers of the range, and fewer forms fewer numbers.
LEMMA NumbersTyped ==
  ASSUME NEW items \in Seq(Item), NEW forms
  PROVE  Numbers(items, forms) \in SUBSET (1 .. MaxNum)
<1>1. \A i \in DOMAIN items : items[i] \in Item /\ items[i].num \in 0 .. MaxNum
  BY DEF Item
<1> QED
  BY <1>1, IdentifierAssumption DEF Numbers

LEMMA ReadersAgree ==
  ASSUME NEW items \in Seq(Item)
  PROVE  /\ Live(items) \subseteq Declared(items)
         /\ Retired(items) \subseteq Declared(items)
         /\ Live(items) \subseteq Retained(items)
  BY DEF Live, Retired, Declared, Retained, Numbers, Forms

\* There is a highest number, and it bounds the others.
LEMMA HighestBounds ==
  ASSUME NEW S \in SUBSET (0 .. MaxNum)
  PROVE  Highest(S) \in Nat /\ \A m \in S : m <= Highest(S)
<1> DEFINE U == {u \in Nat : \A m \in S : m <= u}
<1>0. MaxNum \in Nat /\ \A m \in S : m \in Nat /\ m <= MaxNum
  BY IdentifierAssumption
<1>1. U # {} /\ U \subseteq Nat
  <2>1. MaxNum \in U
    BY <1>0
  <2> QED
    BY <2>1
<1>2. PICK k \in U : \A u \in U : ~(<<u, k>> \in OpToRel(<, Nat))
  <2> HIDE DEF U
  <2> QED
    BY <1>1, WFMin, NatLessThanWellFounded
<1>3. k \in Nat /\ \A m \in S : m \in Nat /\ m <= k
  BY <1>0
<1>4. ASSUME NEW u \in Nat, u < k PROVE \E m \in S : u < m
  <2>1. u \notin U
    BY <1>2, <1>3, <1>4 DEF OpToRel
  <2> QED
    BY <1>3, <2>1
<1>5. k \in S \cup {0}
  <2> SUFFICES ASSUME k \notin S, k # 0 PROVE FALSE
    OBVIOUS
  <2>1. k - 1 \in Nat /\ k - 1 < k
    BY <1>3
  <2>2. PICK m \in S : k - 1 < m
    BY <1>4, <2>1
  <2> QED
    BY <1>3, <2>2
<1>6. \E n \in S \cup {0} : \A m \in S : m <= n
  BY <1>3, <1>5
<1>7. Highest(S) \in S \cup {0} /\ \A m \in S : m <= Highest(S)
  BY <1>6 DEF Highest
<1>8. \A n \in S \cup {0} : n \in Nat
  BY <1>0
<1> QED
  BY <1>7, <1>8

\* What is counted on from is a number no item of either side exceeds.
LEMMA NextFreeBounds ==
  ASSUME NEW old \in Artifact, NEW items \in Seq(Item)
  PROVE  /\ NextFree(old, items) \in Nat
         /\ \A n \in Live(Items(old)) \cup Retired(Items(old)) \cup Declared(items) :
              n \in Nat /\ n <= NextFree(old, items)
<1> DEFINE S == Live(Items(old)) \cup Retired(Items(old)) \cup Declared(items)
<1>1. S \in SUBSET (1 .. MaxNum)
  BY ItemsTyped, NumbersTyped DEF Live, Retired, Declared
<1>2. S \in SUBSET (0 .. MaxNum) /\ \A n \in S : n \in Nat
  BY <1>1, IdentifierAssumption
<1> HIDE DEF S
<1>3. Highest(S) \in Nat /\ \A m \in S : m <= Highest(S)
  BY <1>2, HighestBounds
<1> QED
  BY <1>2, <1>3 DEF NextFree, S

Before(P, i) == {k \in P : k < i}
UpTo(P, i)   == {k \in P : k <= i}

\* Counting the lines with a property up to one of them tells it from the
\* later ones.
LEMMA CountsDiffer ==
  ASSUME NEW items \in Seq(Item), NEW P \in SUBSET (DOMAIN items),
         NEW i \in P, NEW j \in P, i < j
  PROVE  /\ Cardinality(Before(P, i)) # Cardinality(Before(P, j))
         /\ Cardinality(UpTo(P, i)) # Cardinality(UpTo(P, j))
<1>1. DOMAIN items = 1 .. Len(items) /\ Len(items) \in Nat
  OBVIOUS
<1>2. IsFiniteSet(DOMAIN items)
  BY <1>1, FS_Interval
<1>3. \A Q \in SUBSET (DOMAIN items) : IsFiniteSet(Q)
  BY <1>2, FS_Subset
<1>4. P \subseteq Nat
  BY <1>1
<1> DEFINE A == Before(P, i)  B == Before(P, j)  C == UpTo(P, i)  D == UpTo(P, j)
<1>5. A \in SUBSET B /\ i \in B /\ i \notin A /\ IsFiniteSet(B)
  BY <1>3, <1>4 DEF Before
<1>6. C \in SUBSET D /\ j \in D /\ j \notin C /\ IsFiniteSet(D)
  BY <1>3, <1>4 DEF UpTo
<1> HIDE DEF A, B, C, D
<1>7. Cardinality(A) # Cardinality(B)
  BY <1>5, FS_Subset
<1>8. Cardinality(C) # Cardinality(D)
  BY <1>6, FS_Subset
<1> QED
  BY <1>7, <1>8 DEF A, B, C, D

\* What an unnumbered line gets: a free number, the k-th one for the k-th line,
\* or one past every number there is; never what another line gets.
LEMMA AssignedApart ==
  ASSUME NEW old \in Artifact, NEW items \in Seq(Item), NEW free,
         free \subseteq Live(Items(old)), NEW i \in Unnumbered(items)
  PROVE  /\ Carried(free, items, i) =>
              /\ Assigned(old, items, free, i) \in free
              /\ Takes(free, items, i, Assigned(old, items, free, i))
         /\ ~Carried(free, items, i) =>
              /\ Assigned(old, items, free, i) \in Nat
              /\ Assigned(old, items, free, i) > NextFree(old, items)
         /\ \A j \in Unnumbered(items) :
              i < j => Assigned(old, items, free, i) # Assigned(old, items, free, j)
<1> DEFINE P == Unnumbered(items)
           Q == {j \in P : ~Carried(free, items, j)}
           At(j) == Assigned(old, items, free, j)
           C(j) == Cardinality(UpTo(Q, j))
<1>1. P \in SUBSET (DOMAIN items) /\ Q \in SUBSET (DOMAIN items) /\ P \subseteq Nat
  <2>1. DOMAIN items = 1 .. Len(items)
    OBVIOUS
  <2> QED
    BY <2>1 DEF Unnumbered
<1>2. ASSUME NEW j \in P, Carried(free, items, j)
      PROVE  At(j) \in free /\ Takes(free, items, j, At(j))
  <2>1. \E n \in free : Takes(free, items, j, n)
    BY <1>2 DEF Carried
  <2>2. At(j) = CHOOSE n \in free : Takes(free, items, j, n)
    BY <1>2 DEF Assigned
  <2> HIDE DEF At
  <2> QED
    BY <2>1, <2>2
<1>3. ASSUME NEW j \in P, ~Carried(free, items, j)
      PROVE  /\ At(j) = NextFree(old, items) + C(j) /\ j \in Q
             /\ C(j) \in Nat \ {0}
  <2>1. {k \in P : k <= j /\ ~Carried(free, items, k)} = UpTo(Q, j)
    BY DEF UpTo
  <2>2. At(j) = NextFree(old, items) + C(j) /\ j \in Q
    BY <1>3, <2>1 DEF Assigned
  <2>3. C(j) \in Nat /\ C(j) # 0
    <3>1. j \in UpTo(Q, j) /\ UpTo(Q, j) \in SUBSET (1 .. Len(items))
      BY <1>1, <2>2 DEF UpTo
    <3>2. Len(items) \in Nat
      OBVIOUS
    <3>3. IsFiniteSet(UpTo(Q, j))
      <4>1. IsFiniteSet(1 .. Len(items))
        BY <3>2, FS_Interval
      <4> QED
        BY <3>1, <4>1, FS_Subset
    <3> QED
      BY <3>1, <3>3, FS_CardinalityType, FS_EmptySet
  <2> QED
    BY <2>2, <2>3
<1>4. NextFree(old, items) \in Nat /\ \A n \in free : n \in Nat /\ n <= NextFree(old, items)
  BY NextFreeBounds
<1>5. ASSUME NEW j \in P, i < j PROVE At(i) # At(j)
  <2>1. CASE Carried(free, items, i) /\ Carried(free, items, j)
    <3>1. Cardinality(Before(P, i)) # Cardinality(Before(P, j))
      <4>1. i \in P /\ j \in P /\ i < j /\ P \in SUBSET (DOMAIN items)
        BY <1>1, <1>5
      <4> HIDE DEF P
      <4> QED
        BY <4>1, CountsDiffer
    <3>2. Takes(free, items, i, At(i)) /\ Takes(free, items, j, At(j))
      BY <1>2, <2>1
    <3> HIDE DEF At
    <3> QED
      BY <3>1, <3>2 DEF Takes, Before
  <2>2. CASE ~Carried(free, items, i) /\ ~Carried(free, items, j)
    <3>1. i \in Q /\ j \in Q /\ At(i) = NextFree(old, items) + C(i) /\ At(j) = NextFree(old, items) + C(j)
      BY <1>3, <2>2
    <3>2. C(i) # C(j)
      <4>1. i \in Q /\ j \in Q /\ i < j /\ Q \in SUBSET (DOMAIN items)
        BY <1>1, <1>5, <3>1
      <4> HIDE DEF Q
      <4> QED
        BY <4>1, CountsDiffer
    <3>3. C(i) \in Nat /\ C(j) \in Nat
      BY <1>3, <2>2
    <3> HIDE DEF At, C, Q
    <3> QED
      BY <1>4, <3>1, <3>2, <3>3
  <2>3. CASE Carried(free, items, i) # Carried(free, items, j)
    <3>1. \A l \in P : Carried(free, items, l) => At(l) \in Nat /\ At(l) <= NextFree(old, items)
      BY <1>2, <1>4
    <3>2. \A l \in P : ~Carried(free, items, l) => At(l) \in Nat /\ At(l) > NextFree(old, items)
      <4> SUFFICES ASSUME NEW l \in P, ~Carried(free, items, l)
                   PROVE  At(l) \in Nat /\ At(l) > NextFree(old, items)
        OBVIOUS
      <4>1. At(l) = NextFree(old, items) + C(l) /\ C(l) \in Nat \ {0}
        BY <1>3
      <4> HIDE DEF At, C
      <4> QED
        BY <1>4, <4>1
    <3>3. CASE Carried(free, items, i) /\ ~Carried(free, items, j)
      <4> HIDE DEF At
      <4> QED
        BY <1>4, <3>1, <3>2, <3>3
    <3>4. CASE ~Carried(free, items, i) /\ Carried(free, items, j)
      <4> HIDE DEF At
      <4> QED
        BY <1>4, <3>1, <3>2, <3>4
    <3> QED
      BY <2>3, <3>3, <3>4 DEF Carried
  <2> QED
    BY <2>1, <2>2, <2>3 DEF Carried
<1>6. ~Carried(free, items, i) => At(i) \in Nat /\ At(i) > NextFree(old, items)
  <2> SUFFICES ASSUME ~Carried(free, items, i) PROVE At(i) \in Nat /\ At(i) > NextFree(old, items)
    OBVIOUS
  <2>1. At(i) = NextFree(old, items) + C(i) /\ C(i) \in Nat \ {0}
    BY <1>3
  <2> HIDE DEF At, C
  <2> QED
    BY <1>4, <2>1
<1> QED
  BY <1>2, <1>5, <1>6

\* Numbering changes nothing but the numbers that are not there.
LEMMA NumberedKeeps ==
  ASSUME NEW old, NEW items \in Seq(Item), NEW free
  PROVE  LET out == Numbered(old, items, free)
         IN  /\ DOMAIN out = DOMAIN items
             /\ \A i \in DOMAIN items :
                  /\ out[i].form = items[i].form
                  /\ i \notin Unnumbered(items) => out[i].num = items[i].num /\ out[i] = items[i]
                  /\ i \in Unnumbered(items) => out[i].num = Assigned(old, items, free, i)
<1>1. \A i \in DOMAIN items : items[i] \in [num : 0 .. MaxNum, form : Forms]
  BY DEF Item
<1> QED
  BY <1>1 DEF Numbered, Unnumbered

\* A rewrite hands on what the artifact has and the payload does not claim.
LEMMA FreeIsUnclaimed ==
  ASSUME NEW old, NEW items, NEW k, NEW retire
  PROVE  LET free == Free(old, items, k, retire)
         IN  /\ free \subseteq Live(Items(old))
             /\ free \cap Declared(items) = {}
             /\ k # "supersede" => free = {}
  BY DEF Free

\* The numbers a compile writes on the lines that had none are new.
LEMMA NumberedIsNew ==
  ASSUME NEW old \in Artifact, NEW items \in Seq(Item), NEW k, NEW retire,
         NEW i \in Unnumbered(items)
  PROVE  LET out == Numbered(old, items, Free(old, items, k, retire))
         IN  /\ \A j \in DOMAIN out : j # i => out[j].num # out[i].num
             /\ out[i].num \notin Retired(Items(old)) \ Live(Items(old))
             /\ k # "supersede" => out[i].num \notin Live(Items(old))
<1> DEFINE free == Free(old, items, k, retire)
           out == Numbered(old, items, free)
           At(j) == Assigned(old, items, free, j)
<1>1. /\ free \subseteq Live(Items(old)) /\ free \cap Declared(items) = {}
      /\ k # "supersede" => free = {}
  BY FreeIsUnclaimed
<1> HIDE DEF free
<1>2. /\ DOMAIN out = DOMAIN items
      /\ \A j \in DOMAIN items \ Unnumbered(items) : out[j].num = items[j].num
      /\ \A j \in Unnumbered(items) : out[j].num = At(j)
  BY NumberedKeeps DEF Unnumbered
<1> HIDE DEF out
<1>3. /\ NextFree(old, items) \in Nat
      /\ \A n \in Live(Items(old)) \cup Retired(Items(old)) \cup Declared(items) :
           n \in Nat /\ n <= NextFree(old, items)
  BY NextFreeBounds
<1>4. Carried(free, items, i) => At(i) \in free
  BY <1>1, AssignedApart
<1>5. ~Carried(free, items, i) => At(i) \in Nat /\ At(i) > NextFree(old, items)
  BY <1>1, AssignedApart
<1>6. \A j, l \in Unnumbered(items) : j < l => At(j) # At(l)
  BY <1>1, AssignedApart
<1> HIDE DEF At
<1>7. At(i) \notin Declared(items)
  BY <1>1, <1>3, <1>4, <1>5
<1>8. ASSUME NEW j \in DOMAIN items, j # i PROVE out[j].num # At(i)
  <2>1. CASE j \in Unnumbered(items)
    <3>1. i \in Nat /\ j \in Nat
      BY DEF Unnumbered
    <3>2. i < j \/ j < i
      BY <1>8, <3>1
    <3> QED
      BY <1>2, <1>6, <2>1, <3>2
  <2>2. CASE j \notin Unnumbered(items)
    <3>1. items[j] \in Item /\ items[j].num # 0 /\ items[j].form \in Forms
      BY <2>2 DEF Unnumbered, Item
    <3>2. items[j].num \in Declared(items)
      BY <3>1 DEF Declared, Numbers
    <3> QED
      BY <1>2, <1>7, <2>2, <3>2
  <2> QED
    BY <2>1, <2>2
<1>9. k # "supersede" => At(i) \notin Live(Items(old))
  <2> SUFFICES ASSUME k # "supersede" PROVE At(i) \notin Live(Items(old))
    OBVIOUS
  <2>1. ~Carried(free, items, i)
    BY <1>1 DEF Carried
  <2> QED
    BY <1>3, <1>5, <2>1
<1>10. At(i) \notin Retired(Items(old)) \ Live(Items(old))
  <2>1. CASE Carried(free, items, i)
    BY <1>1, <1>4, <2>1
  <2>2. CASE ~Carried(free, items, i)
    BY <1>3, <1>5, <2>2
  <2> QED
    BY <2>1, <2>2
<1>11. out[i].num = At(i)
  BY <1>2
<1>12. /\ \A j \in DOMAIN out : j # i => out[j].num # out[i].num
       /\ out[i].num \notin Retired(Items(old)) \ Live(Items(old))
       /\ k # "supersede" => out[i].num \notin Live(Items(old))
  BY <1>2, <1>8, <1>9, <1>10, <1>11
<1> QED
  BY <1>12 DEF out, free

\* No compile brings a retired number back (SPK030).
LEMMA NothingReissued ==
  ASSUME NEW old \in Artifact, NEW items \in Seq(Item), NEW k, NEW retire,
         old # NoDoc, KnownOrNext(old, items)
  PROVE  (Retired(Items(old)) \ Live(Items(old)))
           \cap Live(Numbered(old, items, Free(old, items, k, retire))) = {}
<1> DEFINE out == Numbered(old, items, Free(old, items, k, retire))
<1> SUFFICES ASSUME NEW i \in DOMAIN out, out[i].form = "live", out[i].num # 0,
                    out[i].num \in Retired(Items(old)) \ Live(Items(old))
             PROVE  FALSE
  BY DEF Live, Numbers
<1>1. i \notin Unnumbered(items)
  BY NumberedIsNew
<1>2. i \in DOMAIN items /\ out[i] = items[i]
  BY <1>1, NumberedKeeps
<1> HIDE DEF out
<1>3. out[i].num \in Numbers(items, {"live", "fenced"})
  BY <1>2 DEF Numbers
<1> QED
  BY <1>3 DEF KnownOrNext

(***************************************************************************)
(* Identifiers: what every command carries.                                *)
(***************************************************************************)
CommandKinds == Expecting \cup {"sweep", "before", "gate", "judge", "final"}
Command == [kind : CommandKinds, saw : Artifact, from : Seq(Item),
            expect : BOOLEAN, out : Doc, retired : SUBSET Nat]

\* How a pending compile stands to the artifact it read.
Sound(c) ==
  LET old == Existing(c.kind, c.saw)
      out == c.out.items
  IN /\ IdsAreNew(c)
     /\ Live(Items(old)) \ Declared(out) \subseteq c.retired
     /\ old # NoDoc => (Retired(Items(old)) \ Live(Items(old))) \cap Live(out) = {}

\* How a pending edit does; s holds what its caller has seen.
Continues(c, known) ==
  /\ c.saw # NoDoc => c.out.status = c.saw.status /\ ~Frozen(c.saw)
  /\ c.expect => c.saw = known

Edits == {"apply", "supersede", "section"}

CommandOK(c, known) ==
  \/ c = Idle
  \/ /\ c \in Command
     /\ c.kind \in Compiling => Sound(c)
     /\ c.kind \in Edits => Continues(c, known)

IdTyped ==
  /\ doc \in Artifact /\ index \in Artifact /\ head \in Artifact
  /\ seen \in [Sessions -> Artifact]
  /\ cmd = [t \in Sessions |-> cmd[t]]
  /\ \A t \in Sessions : CommandOK(cmd[t], seen[t])

LEMMA IdTypedInit == IdentifierInit => IdTyped
<1> SUFFICES ASSUME IdentifierInit PROVE IdTyped
  OBVIOUS
<1>1. \A p \in Payloads : [p EXCEPT !.status = "draft"] \in Doc
  BY IdentifierAssumption DEF Doc, Status
<1>2. doc \in Artifact
  BY <1>1 DEF IdentifierInit, Artifact
<1> QED
  BY <1>2 DEF IdentifierInit, IdTyped, CommandOK, Artifact

\* A step that leaves the artifact an artifact, and each command of another
\* session and what its caller has seen alone, only has to see to its own.
LEMMA OwnCommand ==
  ASSUME IdTyped, NEW s \in Sessions, NEW c,
         doc' \in Artifact, index' \in Artifact, head' \in Artifact,
         cmd' = [cmd EXCEPT ![s] = c], seen' = seen, CommandOK(c, seen[s])
  PROVE  IdTyped'
<1>1. /\ cmd' = [t \in Sessions |-> cmd'[t]]
      /\ \A t \in Sessions : cmd'[t] = IF t = s THEN c ELSE cmd[t]
  BY DEF IdTyped
<1>2. \A t \in Sessions : CommandOK(cmd'[t], seen[t])
  BY <1>1 DEF IdTyped
<1>3. \A t \in Sessions : CommandOK(cmd'[t], seen'[t])
  BY <1>2
<1>4. seen' \in [Sessions -> Artifact]
  BY DEF IdTyped
<1> QED
  BY <1>1, <1>3, <1>4 DEF IdTyped

\* What a compile leaves behind to be written.
LEMMA CompileIsSound ==
  ASSUME NEW d \in Artifact, NEW k \in Compiling, NEW items \in Seq(Item), NEW retire,
         NEW c \in Command,
         KnownOrNext(Existing(k, d), items),
         c.kind = k, c.saw = d, c.from = items,
         c.out.items = Numbered(Existing(k, d), items,
                                Free(Existing(k, d), items, k, retire)),
         Accounted(Existing(k, d), c.out.items, k, retire),
         c.retired = Reported(Existing(k, d), c.out.items, k, retire)
  PROVE  Sound(c)
<1> DEFINE old == Existing(k, d)  out == c.out.items
<1>1. old \in Artifact
  BY DEF Existing, Artifact
<1>0. out = Numbered(old, items, Free(old, items, k, retire))
  OBVIOUS
<1>2. \A i \in Unnumbered(items) :
        /\ \A j \in DOMAIN out : j # i => out[j].num # out[i].num
        /\ out[i].num \notin Retired(Items(old)) \ Live(Items(old))
        /\ k # "supersede" => out[i].num \notin Live(Items(old))
  <2> TAKE i \in Unnumbered(items)
  <2> HIDE DEF old, out
  <2>1. LET q == Numbered(old, items, Free(old, items, k, retire))
        IN  /\ \A j \in DOMAIN q : j # i => q[j].num # q[i].num
            /\ q[i].num \notin Retired(Items(old)) \ Live(Items(old))
            /\ k # "supersede" => q[i].num \notin Live(Items(old))
    BY <1>1, NumberedIsNew
  <2> QED
    BY <1>0, <2>1
<1>3. IdsAreNew(c)
  BY <1>2 DEF IdsAreNew
<1>4. Live(Items(old)) \ Declared(out) \subseteq c.retired
  BY DEF Accounted, Missing
<1>5. old # NoDoc => (Retired(Items(old)) \ Live(Items(old))) \cap Live(out) = {}
  <2> SUFFICES ASSUME old # NoDoc
               PROVE  (Retired(Items(old)) \ Live(Items(old))) \cap Live(out) = {}
    OBVIOUS
  <2>1. KnownOrNext(old, items)
    OBVIOUS
  <2> HIDE DEF old, out
  <2> QED
    BY <1>0, <1>1, <2>1, NothingReissued
<1> QED
  BY <1>3, <1>4, <1>5 DEF Sound

\* A compile is an artifact whose items are in the range.
LEMMA EmittedTyped ==
  ASSUME NEW old \in Artifact, NEW items \in Seq(Item), NEW free,
         Declared(Numbered(old, items, free)) \subseteq 1 .. MaxNum
  PROVE  Numbered(old, items, free) \in Seq(Item)
<1> DEFINE out == Numbered(old, items, free)
<1>1. /\ DOMAIN out = 1 .. Len(items) /\ Len(items) \in Nat /\ DOMAIN items = 1 .. Len(items)
      /\ out = [i \in DOMAIN items |-> out[i]]
  BY DEF Numbered
<1>2. ASSUME NEW i \in DOMAIN items PROVE out[i] \in Item
  <2>1. items[i] \in Item /\ items[i].form \in Forms
    BY DEF Item
  <2>2. out[i] = IF items[i].num = 0 THEN [items[i] EXCEPT !.num = Assigned(old, items, free, i)]
                                     ELSE items[i]
    BY DEF Numbered
  <2>3. CASE items[i].num # 0
    BY <2>1, <2>2, <2>3
  <2>4. CASE items[i].num = 0
    <3>1. /\ out[i] = [num |-> out[i].num, form |-> items[i].form]
          /\ items[i].form \in {"live", "fenced"} /\ out[i].form = items[i].form
      BY <2>1, <2>2, <2>4 DEF Item
    <3>2. out[i].num # 0 => out[i].num \in Declared(out)
      BY <1>1, <2>1, <3>1 DEF Declared, Numbers
    <3>3. out[i].num \in 0 .. MaxNum
      BY <3>2, IdentifierAssumption
    <3> HIDE DEF out
    <3> QED
      BY <2>1, <3>1, <3>3 DEF Item
  <2> QED
    BY <2>3, <2>4
<1> HIDE DEF out
<1>3. out \in Seq(Item)
  BY <1>1, <1>2
<1> QED
  BY <1>3 DEF out

LEMMA CompilesStep ==
  ASSUME IdTyped, NEW s \in Sessions, NEW k \in Compiling, NEW stubs, NEW retire,
         NEW expect \in BOOLEAN, NEW p,
         p.items \in Seq(Item), p.lacks \in SUBSET Gaps, p.cites \in SUBSET Nat,
         Compiles(s, k, p, stubs, retire, expect),
         k \in Edits => ~Frozen(doc), expect => seen[s] = doc
  PROVE  IdTyped'
<1> DEFINE old == Existing(k, doc)
           out == Numbered(old, p.items, Free(old, p.items, k, retire))
           c == [kind |-> k, saw |-> doc, from |-> p.items, expect |-> expect,
                 out |-> Emitted(old, p, out), retired |-> Reported(old, out, k, retire)]
<1>1. /\ KnownOrNext(old, p.items) /\ Accounted(old, out, k, retire)
      /\ Declared(out) \subseteq 1 .. MaxNum
      /\ cmd' = [cmd EXCEPT ![s] = c]
      /\ doc' = doc /\ index' = index /\ head' = head /\ seen' = seen
  BY DEF Compiles, Begins
<1>2. doc \in Artifact /\ old \in Artifact /\ index \in Artifact /\ head \in Artifact
  BY DEF IdTyped, Existing, Artifact
<1>3. out \in Seq(Item)
  BY <1>1, <1>2, EmittedTyped
<1>4. Reported(old, out, k, retire) \in SUBSET Nat
  <2>1. Live(Items(old)) \in SUBSET (1 .. MaxNum)
    BY <1>2, ItemsTyped, NumbersTyped DEF Live
  <2> QED
    BY <2>1, IdentifierAssumption DEF Reported, Missing
<1>5. Emitted(old, p, out) \in Doc
  <2>1. Stamped(old) \in Status
    BY <1>2 DEF Stamped, Artifact, Doc, Status
  <2> HIDE DEF old, out
  <2> QED
    BY <1>3, <2>1 DEF Emitted, Doc
<1>6. k \in CommandKinds
  BY DEF CommandKinds, Compiling, Expecting
<1> HIDE DEF old, out
<1>7. c \in Command
  BY <1>2, <1>4, <1>5, <1>6 DEF Command
<1>8. c.out.items = out
  BY DEF Emitted
<1>9. Sound(c)
  <2>1. /\ c.kind = k /\ c.saw = doc /\ c.from = p.items
        /\ c.retired = Reported(old, out, k, retire)
    OBVIOUS
  <2> HIDE DEF c
  <2> QED
    BY <1>1, <1>2, <1>7, <1>8, <2>1, CompileIsSound DEF old, out
<1>10. k \in Edits => Continues(c, seen[s])
  <2> SUFFICES ASSUME k \in Edits PROVE Continues(c, seen[s])
    OBVIOUS
  <2>1. k # "create" /\ old = doc
    BY DEF Edits, Existing, old
  <2> QED
    BY <2>1 DEF Continues, Emitted, Stamped
<1>11. CommandOK(c, seen[s])
  <2>1. c.kind = k
    OBVIOUS
  <2> HIDE DEF c
  <2> QED
    BY <1>7, <1>9, <1>10, <2>1 DEF CommandOK
<1> HIDE DEF c
<1> QED
  BY <1>1, <1>2, <1>11, OwnCommand

LEMMA ApplyTyped ==
  ASSUME IdTyped, NEW s \in Sessions, Apply(s)
  PROVE  IdTyped'
<1>1. PICK k \in {"apply", "supersede", "create"}, p \in Payloads, retire \in Retirements,
           expect \in BOOLEAN :
        /\ expect => ExpectMatches(s)
        /\ ~Frozen(Existing(k, doc))
        /\ Compiles(s, k, p, FALSE, retire, expect)
  BY DEF Apply
<1>2. p.items \in Seq(Item) /\ p.lacks \in SUBSET Gaps /\ p.cites \in SUBSET Nat
  BY IdentifierAssumption
<1>3. k \in Compiling /\ (k \in Edits => ~Frozen(doc))
  BY <1>1 DEF Compiling, Edits, Existing
<1>4. expect => seen[s] = doc
  BY <1>1 DEF ExpectMatches
<1> QED
  BY <1>1, <1>2, <1>3, <1>4, CompilesStep

LEMMA MigrateTyped ==
  ASSUME IdTyped, NEW s \in Sessions, Migrate(s)
  PROVE  IdTyped'
<1>1. PICK k \in {"migrate", "sweep"}, stubs \in BOOLEAN : Compiles(s, k, doc, stubs, {}, FALSE)
  BY DEF Migrate
<1>2. doc.items \in Seq(Item) /\ doc.lacks \in SUBSET Gaps /\ doc.cites \in SUBSET Nat
  BY DEF Migrate, IdTyped, Artifact, Doc
<1>3. k \in Compiling /\ k \notin Edits
  BY DEF Compiling, Edits
<1> QED
  BY <1>1, <1>2, <1>3, CompilesStep

LEMMA SectionTyped ==
  ASSUME IdTyped, NEW s \in Sessions, SectionSet(s)
  PROVE  IdTyped'
<1>1. PICK p \in Payloads, expect \in BOOLEAN : \E out \in SectionReplaced(doc, p) :
        /\ expect => ExpectMatches(s)
        /\ Begins(s, [kind |-> "section", saw |-> doc, from |-> out.items,
                      expect |-> expect, out |-> out, retired |-> {}])
  BY DEF SectionSet
<1>2. PICK out \in SectionReplaced(doc, p) :
        /\ expect => ExpectMatches(s)
        /\ Begins(s, [kind |-> "section", saw |-> doc, from |-> out.items,
                      expect |-> expect, out |-> out, retired |-> {}])
  BY <1>1
<1> DEFINE c == [kind |-> "section", saw |-> doc, from |-> out.items,
                 expect |-> expect, out |-> out, retired |-> {}]
<1>3. doc \in Doc /\ ~Frozen(doc) /\ doc \in Artifact /\ index \in Artifact /\ head \in Artifact
  BY DEF SectionSet, IdTyped, Artifact
<1>4. out \in Doc /\ out.status = doc.status
  BY <1>3, IdentifierAssumption DEF SectionReplaced, Doc
<1>5. out.items \in Seq(Item)
  BY <1>4 DEF Doc
<1>6. c \in Command
  BY <1>3, <1>4, <1>5 DEF Command, CommandKinds, Expecting
<1>7. c.kind = "section" /\ Continues(c, seen[s])
  BY <1>2, <1>3, <1>4 DEF Continues, ExpectMatches
<1>8. /\ cmd' = [cmd EXCEPT ![s] = c]
      /\ doc' = doc /\ index' = index /\ head' = head /\ seen' = seen
  BY <1>2 DEF Begins
<1> HIDE DEF c
<1>9. CommandOK(c, seen[s])
  BY <1>6, <1>7 DEF CommandOK, Compiling
<1> QED
  BY <1>3, <1>8, <1>9, OwnCommand

LEMMA TransitionTyped ==
  ASSUME IdTyped, NEW s \in Sessions, Transition(s)
  PROVE  IdTyped'
<1>1. PICK v \in Verbs :
        Begins(s, [kind |-> "before", saw |-> doc, from |-> doc.items, expect |-> FALSE,
                   out |-> [doc EXCEPT !.status = v[2]], retired |-> {}])
  BY DEF Transition
<1> DEFINE c == [kind |-> "before", saw |-> doc, from |-> doc.items, expect |-> FALSE,
                 out |-> [doc EXCEPT !.status = v[2]], retired |-> {}]
<1>2. doc \in Doc /\ doc \in Artifact /\ index \in Artifact /\ head \in Artifact
  BY DEF Transition, IdTyped, Artifact
<1>3. v[2] \in Status
  BY DEF Status
<1>4. [doc EXCEPT !.status = v[2]] \in Doc /\ doc.items \in Seq(Item)
  BY <1>2, <1>3 DEF Doc
<1>5. c \in Command /\ c.kind = "before"
  BY <1>2, <1>4 DEF Command, CommandKinds
<1>6. /\ cmd' = [cmd EXCEPT ![s] = c]
      /\ doc' = doc /\ index' = index /\ head' = head /\ seen' = seen
  BY <1>1 DEF Begins
<1> HIDE DEF c
<1>7. CommandOK(c, seen[s])
  BY <1>5 DEF CommandOK, Compiling, Edits
<1> QED
  BY <1>2, <1>6, <1>7, OwnCommand

\* A command that is not idle is a record of all its fields.
LEMMA BusyTyped ==
  ASSUME IdTyped, NEW s \in Sessions, cmd[s].kind \in CommandKinds
  PROVE  cmd[s] \in Command
<1>1. Idle.kind \notin CommandKinds
  BY DEF Idle, CommandKinds, Expecting
<1> QED
  BY <1>1 DEF IdTyped, CommandOK

\* The steps of a command that writes, or may have written, and ends.
LEMMA EndsTyped ==
  ASSUME IdTyped, NEW s \in Sessions, doc' \in Artifact,
         index' = index, head' = head, seen' = seen, cmd' = [cmd EXCEPT ![s] = Idle]
  PROVE  IdTyped'
<1>1. CommandOK(Idle, seen[s])
  BY DEF CommandOK
<1>2. index' \in Artifact /\ head' \in Artifact
  BY DEF IdTyped
<1> QED
  BY <1>1, <1>2, OwnCommand

\* The steps of a lifecycle verb.
LEMMA VerbTyped ==
  ASSUME IdTyped, NEW s \in Sessions, cmd[s].kind \in {"before", "gate", "judge"},
         NEW k \in {"gate", "judge", "final"}, NEW d \in Artifact,
         cmd' = [cmd EXCEPT ![s] = [cmd[s] EXCEPT !.kind = k, !.saw = d]],
         doc' \in Artifact, index' = index, head' = head, seen' = seen
  PROVE  IdTyped'
<1> DEFINE c == [cmd[s] EXCEPT !.kind = k, !.saw = d]
<1>1. cmd[s] \in Command
  BY BusyTyped DEF CommandKinds
<1>2. c \in Command /\ c.kind = k
  BY <1>1 DEF Command, CommandKinds
<1> HIDE DEF c
<1>3. CommandOK(c, seen[s])
  BY <1>2 DEF CommandOK, Compiling, Edits
<1>4. index' \in Artifact /\ head' \in Artifact
  BY DEF IdTyped
<1> QED
  BY <1>3, <1>4, OwnCommand DEF c

LEMMA ReadOriginalTyped ==
  ASSUME IdTyped, NEW s \in Sessions, ReadOriginal(s)
  PROVE  IdTyped'
<1>1. cmd[s] \in Command /\ cmd[s].kind = "before"
  BY BusyTyped DEF ReadOriginal, CommandKinds
<1>2. cmd' = [cmd EXCEPT ![s] = [cmd[s] EXCEPT !.kind = "gate", !.saw = doc]]
  BY <1>1 DEF ReadOriginal, IdTyped, Command
<1>3. doc \in Artifact /\ doc' = doc /\ index' = index /\ head' = head /\ seen' = seen
  BY DEF IdTyped, ReadOriginal
<1> QED
  BY <1>1, <1>2, <1>3, VerbTyped

LEMMA PlaceTyped ==
  ASSUME IdTyped, NEW s \in Sessions, PlaceCandidate(s)
  PROVE  IdTyped'
<1>1. cmd[s] \in Command /\ cmd[s].kind = "gate"
  BY BusyTyped DEF PlaceCandidate, CommandKinds
<1>2. cmd[s].saw \in Artifact /\ cmd[s].out \in Artifact
  BY <1>1 DEF Command, Artifact
<1>3. cmd' = [cmd EXCEPT ![s] = [cmd[s] EXCEPT !.kind = "judge", !.saw = cmd[s].saw]]
  BY <1>1 DEF PlaceCandidate, Command
<1>4. doc' = cmd[s].out /\ index' = index /\ head' = head /\ seen' = seen
  BY DEF PlaceCandidate, Replaces
<1> QED
  BY <1>1, <1>2, <1>3, <1>4, VerbTyped

LEMMA JudgeTyped ==
  ASSUME IdTyped, NEW s \in Sessions, JudgeCandidate(s)
  PROVE  IdTyped'
<1>1. cmd[s] \in Command /\ cmd[s].kind = "judge"
  BY BusyTyped DEF JudgeCandidate, CommandKinds
<1>2. cmd[s].saw \in Artifact
  BY <1>1 DEF Command
<1>3. doc' = cmd[s].saw /\ index' = index /\ head' = head /\ seen' = seen
  BY DEF JudgeCandidate, Replaces
<1>4. CASE cmd' = [cmd EXCEPT ![s].kind = "final"]
  <2>1. cmd' = [cmd EXCEPT ![s] = [cmd[s] EXCEPT !.kind = "final", !.saw = cmd[s].saw]]
    BY <1>1, <1>4 DEF Command
  <2> QED
    BY <1>1, <1>2, <1>3, <2>1, VerbTyped
<1>5. CASE cmd' = [cmd EXCEPT ![s] = Idle]
  BY <1>2, <1>3, <1>5, EndsTyped
<1> QED
  BY <1>4, <1>5 DEF JudgeCandidate

LEMMA WriteTyped ==
  ASSUME IdTyped, NEW s \in Sessions, WriteExpecting(s) \/ WriteSwept(s) \/ WriteStatus(s)
  PROVE  IdTyped'
<1>1. cmd[s].kind \in CommandKinds
  BY DEF WriteExpecting, WriteSwept, WriteStatus, CommandKinds
<1>2. cmd[s].out \in Artifact
  BY <1>1, BusyTyped DEF Command, Artifact
<1>3. doc' \in {doc, cmd[s].out}
  BY DEF WriteExpecting, WriteSwept, WriteStatus, Replaces
<1>4. doc' \in Artifact
  BY <1>2, <1>3 DEF IdTyped
<1>5. index' = index /\ head' = head /\ seen' = seen /\ cmd' = [cmd EXCEPT ![s] = Idle]
  BY DEF WriteExpecting, WriteSwept, WriteStatus
<1> QED
  BY <1>4, <1>5, EndsTyped

LEMMA ShowTyped ==
  ASSUME IdTyped, NEW s \in Sessions, Show(s)
  PROVE  IdTyped'
<1>1. /\ cmd' = cmd /\ cmd[s] = Idle /\ seen' = [seen EXCEPT ![s] = doc]
      /\ doc' = doc /\ index' = index /\ head' = head
  BY DEF Show
<1>2. seen' \in [Sessions -> Artifact] /\ \A t \in Sessions : t # s => seen'[t] = seen[t]
  BY <1>1 DEF IdTyped
<1>3. \A t \in Sessions : CommandOK(cmd[t], seen[t])
  BY DEF IdTyped
<1>4. CommandOK(cmd[s], seen'[s])
  BY <1>1 DEF CommandOK
<1>5. \A t \in Sessions : CommandOK(cmd'[t], seen'[t])
  BY <1>1, <1>2, <1>3, <1>4
<1>6. cmd' = [t \in Sessions |-> cmd'[t]]
  BY <1>1 DEF IdTyped
<1> QED
  BY <1>1, <1>2, <1>5, <1>6 DEF IdTyped

LEMMA IdTypedStep == IdTyped /\ [IdentifierNext]_idVars => IdTyped'
<1> SUFFICES ASSUME IdTyped, [IdentifierNext]_idVars PROVE IdTyped'
  OBVIOUS
<1>1. CASE \E s \in Sessions : Show(s) \/ Apply(s) \/ Migrate(s) \/ SectionSet(s) \/ Transition(s)
  BY <1>1, ShowTyped, ApplyTyped, MigrateTyped, SectionTyped, TransitionTyped
<1>2. CASE \E s \in Sessions : WriteExpecting(s) \/ WriteSwept(s) \/ WriteStatus(s)
  BY <1>2, WriteTyped
<1>3. CASE \E s \in Sessions : ReadOriginal(s) \/ PlaceCandidate(s) \/ JudgeCandidate(s)
  BY <1>3, ReadOriginalTyped, PlaceTyped, JudgeTyped
<1>4. CASE \E s \in Sessions : Die(s)
  <2>1. PICK s \in Sessions : Die(s)
    BY <1>4
  <2>2. /\ doc' = doc /\ index' = index /\ head' = head /\ seen' = seen
        /\ cmd' = [cmd EXCEPT ![s] = Idle] /\ doc \in Artifact
    BY <2>1 DEF Die, IdTyped
  <2> QED
    BY <2>2, EndsTyped
<1>5. CASE StageDoc \/ Commit \/ UNCHANGED idVars
  <2>1. /\ doc' = doc /\ seen' = seen /\ cmd' = cmd
        /\ index' \in {doc, index} /\ head' \in {index, head}
    BY <1>5 DEF StageDoc, Commit, idVars
  <2>2. \A t \in Sessions : CommandOK(cmd'[t], seen'[t])
    BY <2>1 DEF IdTyped
  <2> QED
    BY <2>1, <2>2 DEF IdTyped
<1> QED
  BY <1>1, <1>2, <1>3, <1>4, <1>5 DEF IdentifierNext

LEMMA IdTypedAlways == IdentifierSpec => []IdTyped
  BY IdTypedInit, IdTypedStep, PTL DEF IdentifierSpec

(***************************************************************************)
(* Identifiers: the properties.                                            *)
(***************************************************************************)
\* For any number of sessions, items and authors: a number the compiler
\* writes is new.
THEOREM AssignedNumbersAreNew == IdentifierSpec => []AssignedIdsAreNew
<1>1. IdTyped => AssignedIdsAreNew
  <2> SUFFICES ASSUME IdTyped, NEW s \in Sessions, cmd[s].kind \in Compiling
               PROVE  IdsAreNew(cmd[s])
    BY DEF AssignedIdsAreNew, Pending
  <2>1. cmd[s] # Idle
    BY DEF Idle, Compiling
  <2> QED
    BY <2>1 DEF IdTyped, CommandOK, Sound
<1> QED
  BY <1>1, IdTypedAlways, PTL

\* Only the steps that write change the artifact, or what is known of its past.
LEMMA NothingWritten ==
  ASSUME NEW s, Show(s) \/ Apply(s) \/ Migrate(s) \/ SectionSet(s) \/ Transition(s)
                  \/ ReadOriginal(s) \/ Die(s)
  PROVE  UNCHANGED <<doc, index, head, givenUp, compiled>>
<1>1. \A c : Begins(s, c) => UNCHANGED <<doc, index, head, givenUp, compiled>>
  BY DEF Begins
<1>2. CASE Show(s) \/ ReadOriginal(s) \/ Die(s)
  BY <1>2 DEF Show, ReadOriginal, Die
<1>3. CASE Apply(s) \/ Migrate(s)
  <2>1. \E k, p, stubs, retire, expect : Compiles(s, k, p, stubs, retire, expect)
    BY <1>3 DEF Apply, Migrate
  <2> QED
    BY <1>1, <2>1 DEF Compiles
<1>4. CASE SectionSet(s) \/ Transition(s)
  <2>1. \E c : Begins(s, c)
    BY <1>4 DEF SectionSet, Transition
  <2> QED
    BY <1>1, <2>1
<1> QED
  BY <1>2, <1>3, <1>4

\* An edit that lands continues the artifact it replaces.
THEOREM EditsContinue == IdentifierSpec => EditsContinueTheDocument
<1> DEFINE EditsStep == \A s \in Sessions :
       /\ cmd[s].kind \in {"apply", "supersede", "section"} /\ cmd'[s] = Idle
       /\ doc' # doc
       => /\ doc # NoDoc => doc'.status = doc.status /\ ~Frozen(doc)
          /\ cmd[s].kind # "section" =>
               (Retired(Items(doc)) \ Live(Items(doc))) \cap Live(Items(doc')) = {}
          /\ cmd[s].expect => doc = seen[s]
<1>1. IdTyped /\ [IdentifierNext]_idVars => [EditsStep]_idVars
  <2> SUFFICES ASSUME IdTyped, IdentifierNext, NEW s \in Sessions,
                      cmd[s].kind \in Edits, cmd'[s] = Idle, doc' # doc
               PROVE  /\ doc # NoDoc => doc'.status = doc.status /\ ~Frozen(doc)
                      /\ cmd[s].kind # "section" =>
                           (Retired(Items(doc)) \ Live(Items(doc))) \cap Live(Items(doc')) = {}
                      /\ cmd[s].expect => doc = seen[s]
    BY DEF Edits
  <2>1. cmd[s] \in Command /\ cmd[s].kind \notin {"sweep", "before", "gate", "judge", "final"}
    BY BusyTyped DEF Edits, CommandKinds, Expecting
  <2>2. \A c, d : cmd' = [cmd EXCEPT ![d] = c] /\ d # s => cmd'[s] = cmd[s]
    BY DEF IdTyped
  <2>3. cmd[s] # Idle
    BY <2>1 DEF Idle, Command, CommandKinds, Expecting
  <2>4. WriteExpecting(s)
    <3>1. ASSUME NEW t \in Sessions,
                 Show(t) \/ Apply(t) \/ Migrate(t) \/ SectionSet(t) \/ Transition(t)
                   \/ ReadOriginal(t) \/ Die(t)
          PROVE  doc' = doc
      BY <3>1, NothingWritten
    <3>2. ASSUME NEW t \in Sessions,
                 WriteSwept(t) \/ PlaceCandidate(t) \/ JudgeCandidate(t) \/ WriteStatus(t)
                   \/ (WriteExpecting(t) /\ t # s)
          PROVE  FALSE
      <4>1. t # s
        BY <2>1, <3>2 DEF WriteSwept, PlaceCandidate, JudgeCandidate, WriteStatus
      <4>2. \E c : cmd' = [cmd EXCEPT ![t] = c]
        BY <3>2 DEF WriteSwept, PlaceCandidate, JudgeCandidate, WriteStatus, WriteExpecting
      <4>3. cmd'[s] = cmd[s]
        BY <2>2, <4>1, <4>2
      <4> QED
        BY <2>3, <4>3
    <3>3. StageDoc \/ Commit => doc' = doc
      BY DEF StageDoc, Commit
    <3> QED
      BY <3>1, <3>2, <3>3 DEF IdentifierNext
  <2>5. doc = cmd[s].saw /\ doc' = cmd[s].out
    BY <2>4 DEF WriteExpecting, Replaces
  <2>6. Continues(cmd[s], seen[s]) /\ (cmd[s].kind \in Compiling => Sound(cmd[s]))
    BY <2>3 DEF IdTyped, CommandOK
  <2>7. cmd[s].kind # "section" =>
          (Retired(Items(doc)) \ Live(Items(doc))) \cap Live(Items(doc')) = {}
    <3> SUFFICES ASSUME cmd[s].kind # "section"
                 PROVE  (Retired(Items(doc)) \ Live(Items(doc))) \cap Live(Items(doc')) = {}
      OBVIOUS
    <3>1. cmd[s].kind \in Compiling /\ Existing(cmd[s].kind, cmd[s].saw) = doc
      BY <2>5 DEF Edits, Compiling, Existing
    <3>2. Items(doc') = cmd[s].out.items
      BY <2>1, <2>5, IdentifierAssumption DEF Items, Command
    <3>3. doc # NoDoc => (Retired(Items(doc)) \ Live(Items(doc))) \cap Live(cmd[s].out.items) = {}
      BY <2>6, <3>1 DEF Sound
    <3>4. doc = NoDoc => Retired(Items(doc)) = {}
      BY DEF Items, Retired, Numbers
    <3> QED
      BY <3>2, <3>3, <3>4
  <2> QED
    BY <2>5, <2>6, <2>7 DEF Continues
<1> QED
  BY <1>1, IdTypedAlways, PTL DEF IdentifierSpec, EditsContinueTheDocument

\* While the items change by compiles of what they replace: a number of HEAD or
\* of the index that is gone from what came after was given up.
Lost(a, b) == Live(Items(a)) \ Live(Items(b))
Explained ==
  compiled => Lost(head, index) \cup Lost(index, doc) \cup Lost(head, doc) \subseteq givenUp

LEMMA ReplacesExplained ==
  ASSUME IdTyped, Explained, NEW s \in Sessions, NEW c, Replaces(s, c),
         cmd[s].kind \in CommandKinds, cmd[s].kind \in Compiling => c = cmd[s].out,
         index' = index, head' = head
  PROVE  Explained'
<1> DEFINE own == cmd[s].kind \in Compiling /\ doc = Existing(cmd[s].kind, cmd[s].saw)
<1>1. /\ doc' = c
      /\ compiled' = (compiled /\ (own \/ Items(c) = Items(doc)))
      /\ givenUp' = givenUp \cup (Declared(Items(c)) \ Live(Items(c)))
                       \cup (IF own THEN cmd[s].retired ELSE {})
  BY DEF Replaces
<1>2. own => Lost(doc, c) \subseteq givenUp'
  <2> SUFFICES ASSUME own PROVE Lost(doc, c) \subseteq givenUp'
    OBVIOUS
  <2>1. cmd[s] \in Command /\ c = cmd[s].out
    BY BusyTyped
  <2>2. cmd[s] # Idle
    BY DEF Idle, Compiling
  <2>3. Live(Items(doc)) \ Declared(c.items) \subseteq cmd[s].retired
    BY <2>1, <2>2 DEF IdTyped, CommandOK, Sound
  <2>4. Items(c) = c.items
    BY <2>1, IdentifierAssumption DEF Items, Command
  <2> QED
    BY <1>1, <2>3, <2>4 DEF Lost
<1>3. compiled' => compiled /\ Lost(doc, c) \subseteq givenUp'
  <2>1. Items(c) = Items(doc) => Lost(doc, c) = {}
    BY DEF Lost
  <2> HIDE DEF own
  <2> QED
    BY <1>1, <1>2, <2>1
<1>4. givenUp \subseteq givenUp'
  BY <1>1
<1>5. \A a : Lost(a, c) \subseteq Lost(a, doc) \cup Lost(doc, c)
  BY DEF Lost
<1>6. SUFFICES ASSUME compiled'
               PROVE  Lost(head, index) \cup Lost(index, c) \cup Lost(head, c) \subseteq givenUp'
  BY <1>1 DEF Explained, Lost
<1> QED
  BY <1>3, <1>4, <1>5, <1>6 DEF Explained

LEMMA ExplainedInit == IdentifierInit => Explained
  BY DEF IdentifierInit, Explained, Lost

LEMMA ExplainedStep ==
  ASSUME IdTyped, Explained, [IdentifierNext]_idVars
  PROVE  Explained'
<1>1. ASSUME UNCHANGED <<doc, index, head, givenUp, compiled>> PROVE Explained'
  BY <1>1 DEF Explained, Lost
<1>2. CASE \E s \in Sessions : \/ Show(s) \/ Apply(s) \/ Migrate(s) \/ SectionSet(s)
                               \/ Transition(s) \/ ReadOriginal(s) \/ Die(s)
  BY <1>1, <1>2, NothingWritten
<1>3. CASE UNCHANGED idVars
  BY <1>1, <1>3 DEF idVars
<1>4. CASE \E s \in Sessions : WriteExpecting(s)
  <2>1. PICK s \in Sessions : WriteExpecting(s)
    BY <1>4
  <2>2. CASE doc = cmd[s].saw
    BY <2>1, <2>2, ReplacesExplained DEF WriteExpecting, CommandKinds
  <2>3. CASE doc # cmd[s].saw
    BY <1>1, <2>1, <2>3 DEF WriteExpecting
  <2> QED
    BY <2>2, <2>3
<1>5. CASE \E s \in Sessions : WriteSwept(s) \/ WriteStatus(s)
  BY <1>5, ReplacesExplained DEF WriteSwept, WriteStatus, CommandKinds
<1>6. CASE \E s \in Sessions : PlaceCandidate(s) \/ JudgeCandidate(s)
  BY <1>6, ReplacesExplained DEF PlaceCandidate, JudgeCandidate, CommandKinds, Compiling
<1>7. CASE StageDoc
  BY <1>7 DEF StageDoc, Explained, Lost
<1>8. CASE Commit
  <2>1. doc' = doc /\ index' = index /\ head' = index
    BY <1>8 DEF Commit
  <2>2. CASE index = doc
    BY <2>1, <2>2 DEF Explained, Lost
  <2>3. CASE index # doc
    <3>1. givenUp' = givenUp /\ compiled' = compiled
      BY <1>8, <2>3 DEF Commit
    <3> QED
      BY <2>1, <3>1 DEF Explained, Lost
  <2> QED
    BY <2>2, <2>3
<1> QED
  BY <1>2, <1>3, <1>4, <1>5, <1>6, <1>7, <1>8 DEF IdentifierNext

\* No number is lost silently between HEAD, the index and the working tree
\* while the tools that compile are the ones that change the items.
THEOREM RemovalsAreExplained == IdentifierSpec => []FindingsAreExplained
<1>1. IdentifierSpec => []Explained
  BY IdTypedAlways, ExplainedInit, ExplainedStep, PTL DEF IdentifierSpec
<1>2. IdTyped /\ Explained => FindingsAreExplained
  <2> SUFFICES ASSUME IdTyped, Explained, compiled, NEW d \in {doc, index}
               PROVE  Removed(head, d) \subseteq givenUp
    BY DEF FindingsAreExplained, AppendOnlyFindings
  <2>1. Items(d) \in Seq(Item)
    BY ItemsTyped DEF IdTyped
  <2>2. Removed(head, d) \subseteq Lost(head, d)
    BY <2>1, ReadersAgree DEF Removed, Lost
  <2> QED
    BY <2>2 DEF Explained
<1> QED
  BY <1>1, <1>2, IdTypedAlways, PTL
=============================================================================
