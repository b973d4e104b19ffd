---------------------------- MODULE Parts_proofs ---------------------------
(***************************************************************************)
(* The smaller parts of the system, each on its own, for any number of     *)
(* processes and any bounds: the install of the git hook (HookInstall),    *)
(* the provisioning of the binary (Provision), one bounded call of an      *)
(* external command (ProcExec), the lineage of revisions                   *)
(* (RevisionLineage), the citation index (Citations) and the ledger of     *)
(* decisions (DecisionLedger).  They share no state; each part below has   *)
(* the inductive invariant of one of them.                                 *)
(***************************************************************************)
EXTENDS HookInstall, Provision, ProcExec, RevisionLineage, DecisionLedger, Citations,
        FiniteSetTheorems, FunctionTheorems, SequenceTheorems, WellFoundedInduction, TLAPS

(***************************************************************************)
(* HookInstall: what a step of an installer leaves on disk                 *)
(***************************************************************************)
Busy(s) == installer[s].pc \notin {"idle", "lock", "done"}
AtStep(s, pcs) == installer[s].pc \in pcs

\* A staged dispatcher is on disk, whole, from its writing to its renaming.
Staged(s) ==
    IF AtStep(s, {"link", "check", "verify", "replace"})
      THEN installer[s].tmp \in Inodes /\ file[installer[s].tmp] = Dispatcher(TRUE)
      ELSE installer[s].tmp = NoFile

OpenedFile(s) == AtStep(s, {"chmod"}) => installer[s].ino \in Inodes

StageInv ==
    /\ HookTypeOK
    /\ \A s \in Installers : Busy(s) => lock = s
    /\ \A s \in Installers : Staged(s) /\ OpenedFile(s)

-----------------------------------------------------------------------------
\* One more element makes a finite set at most one larger.
LEMMA OneMore ==
  ASSUME NEW S, NEW x, NEW n \in Nat, IsFiniteSet(S), Cardinality(S) <= n
  PROVE  IsFiniteSet(S \cup {x}) /\ Cardinality(S \cup {x}) <= n + 1
<1>1. Cardinality(S) \in Nat
  BY FS_CardinalityType
<1>2. /\ IsFiniteSet(S \cup {x})
      /\ Cardinality(S \cup {x}) = IF x \in S THEN Cardinality(S) ELSE Cardinality(S) + 1
  BY FS_AddElement
<1> QED
  BY <1>1, <1>2

\* There is an inode to write to: each installer holds one at most.
LEMMA FreshIsFree ==
  ASSUME StageInv
  PROVE  Fresh \in Inodes /\ Fresh \notin InUse
<1> DEFINE held == [s \in Installers |->
                      IF installer[s].tmp # NoFile THEN installer[s].tmp ELSE installer[s].ino]
<1>1. IsFiniteSet(Installers) /\ IsFiniteSet(Inodes)
  BY HookAssumption
<1>2. held \in [Installers -> Inodes \cup {NoFile}]
  BY DEF StageInv, HookTypeOK
<1>3. held \in Surjection(Installers, Range(held))
  BY <1>2, Fun_RangeProperties
<1>4. IsFiniteSet(Range(held)) /\ Cardinality(Range(held)) <= Cardinality(Installers)
  BY <1>1, <1>3, FS_Surjection
<1>5. \A s \in Installers : held[s] \in Range(held)
  BY DEF Range
<1>6. \A s \in Installers :
        /\ installer[s].tmp # NoFile => installer[s].tmp \in Range(held)
        /\ AtStep(s, {"chmod"}) => installer[s].ino \in Range(held)
  BY <1>5 DEF StageInv, Staged, AtStep
<1>7. InUse \subseteq Range(held) \cup {hook} \cup {backup} \cup {NoFile}
  BY <1>6 DEF InUse, Opened, AtStep
<1> HIDE DEF held
<1> DEFINE R == Range(held)
<1> DEFINE n == Cardinality(Installers)
<1>8. n \in Nat
  BY <1>1, FS_CardinalityType
<1> HIDE DEF R, n
<1>9. IsFiniteSet(R \cup {hook} \cup {backup}) /\ Cardinality(R \cup {hook} \cup {backup}) <= n + 1 + 1
  <2>1. IsFiniteSet(R) /\ Cardinality(R) <= n
    BY <1>4 DEF R, n
  <2>2. IsFiniteSet(R \cup {hook}) /\ Cardinality(R \cup {hook}) <= n + 1
    BY <1>8, <2>1, OneMore
  <2> DEFINE m == n + 1
  <2>3. m \in Nat /\ IsFiniteSet(R \cup {hook}) /\ Cardinality(R \cup {hook}) <= m
    BY <1>8, <2>2
  <2> HIDE DEF m
  <2>4. IsFiniteSet(R \cup {hook} \cup {backup}) /\ Cardinality(R \cup {hook} \cup {backup}) <= m + 1
    BY <2>3, OneMore
  <2> QED
    BY <2>4 DEF m
<1>10. \E i \in Inodes : i \notin InUse
  <2> SUFFICES ASSUME Inodes \subseteq InUse
               PROVE  FALSE
    OBVIOUS
  <2>1. Inodes \subseteq R \cup {hook} \cup {backup}
    BY <1>7, HookAssumption DEF R
  <2>2. Cardinality(Inodes) <= Cardinality(R \cup {hook} \cup {backup})
    BY <1>9, <2>1, FS_Subset
  <2>3. Cardinality(Inodes) \in Nat /\ Cardinality(R \cup {hook} \cup {backup}) \in Nat
    BY <1>1, <1>9, FS_CardinalityType
  <2>4. Cardinality(Inodes) > n + 2
    BY HookAssumption DEF n
  <2> QED
    BY <1>8, <1>9, <2>2, <2>3, <2>4
<1> QED
  BY <1>10 DEF Fresh

-----------------------------------------------------------------------------
\* What an installer may be, and the records it moves through.
Session == [pc : Steps, state : Diagnoses, ino : Inodes \cup {NoFile}, content : Contents,
            tmp : Inodes \cup {NoFile}, made : BOOLEAN, report : Reports]

LEMMA DispatcherTyped ==
  \A x \in BOOLEAN : /\ Dispatcher(x) \in Contents
                     /\ Dispatcher(x).kind = "dispatcher" /\ Dispatcher(x).text = 0
                     /\ Dispatcher(x).exec = x
                     /\ \A k \in Kinds : [Dispatcher(x) EXCEPT !.kind = k] \in Contents
BY HookAssumption DEF Dispatcher, Contents, Kinds

LEMMA IdleTyped ==
  /\ Idle \in Session
  /\ Idle.pc = "idle" /\ Idle.tmp = NoFile /\ ~Idle.made /\ Idle.ino = NoFile
  /\ Idle.report = "none"
  /\ Idle.content.text = 0
  /\ \A r \in Reports : LET left == [Idle EXCEPT !.pc = "done", !.report = r]
                        IN  /\ left \in Session /\ left.pc = "done"
                            /\ left.tmp = NoFile /\ left.made = FALSE
                            /\ left.content.text = 0
<1>1. /\ Idle \in Session /\ Idle.pc = "idle" /\ Idle.tmp = NoFile /\ ~Idle.made
      /\ Idle.ino = NoFile /\ Idle.report = "none"
  BY DispatcherTyped DEF Idle, Session, Steps, Diagnoses, Reports
<1>2. Idle.content.text = 0
  BY DispatcherTyped DEF Idle
<1>3. ASSUME NEW r \in Reports
      PROVE  LET left == [Idle EXCEPT !.pc = "done", !.report = r]
             IN  /\ left \in Session /\ left.pc = "done"
                 /\ left.tmp = NoFile /\ left.made = FALSE
                 /\ left.content.text = 0
  BY <1>1, <1>2 DEF Session, Steps
<1> QED
  BY <1>1, <1>2, <1>3

\* A record keeps its type and its other fields whichever of them a step sets.
LEMMA Went ==
  ASSUME NEW r \in Session, NEW at \in Steps
  PROVE  LET n == [r EXCEPT !.pc = at]
         IN  /\ n \in Session /\ n.pc = at
             /\ n.state = r.state /\ n.ino = r.ino /\ n.content = r.content
             /\ n.tmp = r.tmp /\ n.made = r.made /\ n.report = r.report
BY DEF Session

LEMMA SessionTyped ==
  ASSUME StageInv
  PROVE  installer \in [Installers -> Session]
BY DEF StageInv, HookTypeOK, Session

\* An installer's step, with what it does to files and to its own record.
LEMMA StageStep ==
  ASSUME StageInv, NEW s \in Installers, NEW next \in Session,
         Busy(s) \/ (lock = Nobody /\ lock' = s) \/ next.pc \in {"lock", "done"},
         installer' = [installer EXCEPT ![s] = next],
         hook' \in Inodes \cup {NoFile}, backup' \in Inodes \cup {NoFile},
         file' \in [Inodes -> Contents], lock' \in Installers \cup {Nobody},
         UNCHANGED <<own, risked, acts>>, deaths' \in 0..MaxDeaths,
         IF next.pc \in {"idle", "lock", "done"} THEN lock' = lock \/ (lock = s /\ lock' = Nobody)
                                                 ELSE lock' = s,
         IF next.pc \in {"link", "check", "verify", "replace"}
           THEN next.tmp \in Inodes /\ file'[next.tmp] = Dispatcher(TRUE)
           ELSE next.tmp = NoFile,
         next.pc = "chmod" => next.ino \in Inodes,
         \A t \in Installers \ {s} : installer[t].tmp \in Inodes => file'[installer[t].tmp] = file[installer[t].tmp]
  PROVE  StageInv'
<1>1. installer \in [Installers -> Session]
  BY DEF StageInv, HookTypeOK, Session
<1>2. /\ installer' \in [Installers -> Session]
      /\ installer'[s] = next
      /\ \A t \in Installers \ {s} : installer'[t] = installer[t]
  BY <1>1
<1>3. HookTypeOK'
  BY <1>2 DEF StageInv, HookTypeOK, Session
<1>4. ASSUME NEW t \in Installers
      PROVE  Busy(t)' => lock' = t
  BY <1>2, HookAssumption DEF StageInv, Busy, Nobody
<1>5. ASSUME NEW t \in Installers
      PROVE  Staged(t)' /\ OpenedFile(t)'
  <2>1. CASE t = s
    BY <1>2, <2>1 DEF Staged, OpenedFile, AtStep
  <2>2. CASE t # s
    BY <1>2, <2>2 DEF StageInv, Staged, OpenedFile, AtStep
  <2> QED
    BY <2>1, <2>2
<1> QED
  BY <1>3, <1>4, <1>5 DEF StageInv

\* Leaving is such a step whatever happened to the two paths.
LEMMA StageLeave ==
  ASSUME StageInv, NEW s \in Installers, NEW r \in Reports, Busy(s), Leave(s, r),
         hook' \in Inodes \cup {NoFile}, backup' \in Inodes \cup {NoFile},
         file' \in [Inodes -> Contents], Quiet,
         \A t \in Installers \ {s} : installer[t].tmp \in Inodes => file'[installer[t].tmp] = file[installer[t].tmp]
  PROVE  StageInv'
<1> DEFINE next == [Idle EXCEPT !.pc = "done", !.report = r]
<1>1. next \in Session /\ next.pc = "done" /\ next.tmp = NoFile
  BY IdleTyped
<1>2. installer' = [installer EXCEPT ![s] = next] /\ lock' = Nobody
  BY DEF Leave, Step
<1>3. lock = s /\ deaths' \in 0..MaxDeaths
  BY DEF StageInv, Quiet, HookTypeOK
<1> HIDE DEF next
<1> QED
  BY <1>1, <1>2, <1>3, StageStep DEF Quiet

\* A step of an installer that changes nothing but its own record.
LEMMA StageGoes ==
  ASSUME StageInv, NEW s \in Installers, NEW next \in Session, Step(s, next),
         UNCHANGED <<hook, backup, file>>, Quiet,
         \/ Busy(s) /\ UNCHANGED lock
         \/ lock = Nobody /\ lock' = s /\ next.pc \notin {"idle", "lock", "done"}
         \/ next.pc \in {"lock", "done"} /\ UNCHANGED lock,
         Busy(s) => next.pc \notin {"idle", "lock", "done"},
         IF next.pc \in {"link", "check", "verify", "replace"}
           THEN next.tmp \in Inodes /\ file[next.tmp] = Dispatcher(TRUE)
           ELSE next.tmp = NoFile,
         next.pc = "chmod" => next.ino \in Inodes
  PROVE  StageInv'
<1>1. installer' = [installer EXCEPT ![s] = next]
  BY DEF Step
<1>2. /\ hook' \in Inodes \cup {NoFile} /\ backup' \in Inodes \cup {NoFile}
      /\ file' \in [Inodes -> Contents] /\ lock' \in Installers \cup {Nobody}
      /\ deaths' \in 0..MaxDeaths /\ UNCHANGED <<own, risked, acts>> /\ file' = file
  BY DEF StageInv, HookTypeOK, Quiet
<1>3. Busy(s) => lock = s
  BY DEF StageInv
<1>4. IF next.pc \in {"idle", "lock", "done"} THEN lock' = lock \/ (lock = s /\ lock' = Nobody)
                                              ELSE lock' = s
  BY <1>3
<1> QED
  BY <1>1, <1>2, <1>3, <1>4, StageStep

LEMMA StageInstall ==
  ASSUME StageInv, NEW s \in Installers, Install(s)
  PROVE  StageInv'
<1>0. /\ hook \in Inodes \cup {NoFile} /\ backup \in Inodes \cup {NoFile}
      /\ file \in [Inodes -> Contents] /\ Staged(s)
      /\ {"refused", "installed", "already", "no-repository"} \subseteq Reports
  BY DEF StageInv, HookTypeOK, Reports
<1>a. \A r \in Reports : Busy(s) /\ Leave(s, r) /\ Quiet /\ UNCHANGED <<hook, backup, file>> => StageInv'
  BY <1>0, StageLeave
<1>b. installer[s] \in Session
  BY SessionTyped
<1>1. CASE Resolve(s)
  <2>1. CASE Goto(s, "lock")
    <3> DEFINE next == [installer[s] EXCEPT !.pc = "lock"]
    <3>1. next \in Session /\ next.pc = "lock" /\ next.tmp = installer[s].tmp
      BY <1>b, Went DEF Steps
    <3>2. Step(s, next)
      BY <2>1 DEF Goto
    <3> HIDE DEF next
    <3> QED
      BY <1>0, <1>1, <3>1, <3>2, StageGoes DEF Resolve, Busy, Staged, AtStep
  <2>2. CASE Step(s, [Idle EXCEPT !.pc = "done", !.report = "no-repository"])
    <3> DEFINE next == [Idle EXCEPT !.pc = "done", !.report = "no-repository"]
    <3>1. next \in Session /\ next.pc = "done" /\ next.tmp = NoFile
      BY <1>0, IdleTyped
    <3>2. Step(s, next)
      BY <2>2
    <3> HIDE DEF next
    <3> QED
      BY <1>1, <3>1, <3>2, StageGoes DEF Resolve, Busy
  <2> QED
    BY <1>1, <2>1, <2>2 DEF Resolve
<1>2. CASE AcquirePostRewriteLock(s)
  <2> DEFINE next == [installer[s] EXCEPT !.pc = "inspect"]
  <2>1. next \in Session /\ next.pc = "inspect" /\ next.tmp = installer[s].tmp
    BY <1>b, Went DEF Steps
  <2>2. Step(s, next)
    BY <1>2 DEF AcquirePostRewriteLock, Goto
  <2> HIDE DEF next
  <2> QED
    BY <1>0, <1>2, <2>1, <2>2, StageGoes DEF AcquirePostRewriteLock, Busy, Staged, AtStep
<1>3. CASE Inspect(s)
  <2> DEFINE d == InspectPostRewrite
             at == IF d = "not-executable" THEN "open" ELSE "snapshot"
             next == [installer[s] EXCEPT !.state = d, !.pc = at]
  <2>1. CASE Leave(s, "already") \/ Leave(s, "refused")
    BY <1>0, <1>a, <1>3, <2>1 DEF Inspect, Busy
  <2>2. CASE Step(s, next) /\ UNCHANGED lock
    <3>1. d \in Diagnoses
      BY DEF InspectPostRewrite, Diagnoses
    <3>2. next \in Session /\ next.pc \in {"open", "snapshot"} /\ next.tmp = installer[s].tmp
      <4>1. at \in Steps /\ at \in {"open", "snapshot"}
        BY DEF Steps
      <4> HIDE DEF at, d
      <4> QED
        BY <1>b, <3>1, <4>1 DEF Session
    <3>3. Step(s, next)
      BY <2>2
    <3> HIDE DEF next
    <3> QED
      BY <1>0, <1>3, <2>2, <3>2, <3>3, StageGoes DEF Inspect, Busy, Staged, AtStep
  <2> QED
    BY <1>3, <2>1, <2>2 DEF Inspect
<1>4. CASE OpenDispatcher(s)
  <2> DEFINE next == [installer[s] EXCEPT !.pc = "chmod", !.ino = hook]
  <2>1. CASE Leave(s, "refused")
    BY <1>0, <1>a, <1>4, <2>1 DEF OpenDispatcher, Busy
  <2>2. CASE hook # NoFile /\ Step(s, next) /\ UNCHANGED lock
    <3>1. next \in Session /\ next.pc = "chmod" /\ next.tmp = installer[s].tmp /\ next.ino \in Inodes
      <4>1. "chmod" \in Steps /\ hook \in Inodes
        BY <1>0, <2>2 DEF Steps
      <4> QED
        BY <1>b, <4>1 DEF Session
    <3>2. Step(s, next)
      BY <2>2
    <3> HIDE DEF next
    <3> QED
      BY <1>0, <1>4, <2>2, <3>1, <3>2, StageGoes DEF OpenDispatcher, Busy, Staged, AtStep
  <2> QED
    BY <1>4, <2>1, <2>2 DEF OpenDispatcher
<1>5. CASE RepairMode(s)
  <2> DEFINE i == installer[s].ino
  <2>1. i \in Inodes
    BY <1>5 DEF RepairMode, StageInv, OpenedFile, AtStep
  <2>2. CASE file[i].kind = "dispatcher" /\ file' = [file EXCEPT ![i].exec = TRUE] /\ Leave(s, "installed")
    <3>1. file' \in [Inodes -> Contents]
      BY <1>0, <2>1, <2>2 DEF Contents
    <3>2. \A t \in Installers \ {s} : installer[t].tmp \in Inodes => ~Busy(t)
      BY <1>5, HookAssumption DEF RepairMode, StageInv, Busy
    <3>3. \A t \in Installers \ {s} : installer[t].tmp \notin Inodes
      BY <3>2, HookAssumption DEF StageInv, Staged, Busy, AtStep
    <3> QED
      BY <1>0, <1>5, <2>2, <3>1, <3>3, StageLeave DEF RepairMode, Busy
  <2>3. CASE UNCHANGED file /\ Leave(s, "refused")
    BY <1>0, <1>a, <1>5, <2>3 DEF RepairMode, Busy
  <2> QED
    BY <1>5, <2>2, <2>3 DEF RepairMode
<1>6. CASE Snapshot(s)
  <2> DEFINE seen == [installer[s] EXCEPT !.pc = "temp", !.ino = hook, !.content = file[hook]]
  <2>1. CASE Step(s, [installer[s] EXCEPT !.pc = "temp"]) /\ UNCHANGED lock
    <3> DEFINE next == [installer[s] EXCEPT !.pc = "temp"]
    <3>1. next \in Session /\ next.pc = "temp" /\ next.tmp = installer[s].tmp
      BY <1>b, Went DEF Steps
    <3>2. Step(s, next)
      BY <2>1
    <3> HIDE DEF next
    <3> QED
      BY <1>0, <1>6, <2>1, <3>1, <3>2, StageGoes DEF Snapshot, Busy, Staged, AtStep
  <2>2. CASE Leave(s, "refused")
    BY <1>0, <1>a, <1>6, <2>2 DEF Snapshot, Busy
  <2>3. CASE hook # NoFile /\ Step(s, seen) /\ UNCHANGED lock
    <3>1. seen \in Session /\ seen.pc = "temp" /\ seen.tmp = installer[s].tmp
      <4>1. "temp" \in Steps /\ hook \in Inodes /\ file[hook] \in Contents
        BY <1>0, <2>3 DEF Steps
      <4> QED
        BY <1>b, <4>1 DEF Session
    <3>2. Step(s, seen)
      BY <2>3
    <3> HIDE DEF seen
    <3> QED
      BY <1>0, <1>6, <2>3, <3>1, <3>2, StageGoes DEF Snapshot, Busy, Staged, AtStep
  <2> QED
    BY <1>6, <2>1, <2>2, <2>3 DEF Snapshot
<1>7. CASE WriteTemp(s)
  <2> DEFINE at == IF installer[s].state = "user-hook" THEN "link" ELSE "verify"
             next == [installer[s] EXCEPT !.tmp = Fresh, !.pc = at]
  <2>1. CASE Leave(s, "refused") /\ UNCHANGED file
    BY <1>0, <1>a, <1>7, <2>1 DEF WriteTemp, Busy
  <2>2. CASE file' = [file EXCEPT ![Fresh] = Dispatcher(TRUE)] /\ Step(s, next) /\ UNCHANGED lock
    <3>1. Fresh \in Inodes /\ Fresh \notin InUse
      BY FreshIsFree
    <3>2. next \in Session /\ next.pc \in {"link", "verify"} /\ next.tmp = Fresh
      <4>1. at \in Steps /\ at \in {"link", "verify"}
        BY DEF Steps
      <4> HIDE DEF at
      <4> QED
        BY <1>b, <3>1, <4>1 DEF Session
    <3>3. file' \in [Inodes -> Contents] /\ file'[Fresh] = Dispatcher(TRUE)
          /\ \A i \in Inodes \ {Fresh} : file'[i] = file[i]
      BY <1>0, <2>2, <3>1, DispatcherTyped
    <3>4. \A t \in Installers : installer[t].tmp \in InUse
      BY DEF InUse
    <3>5. installer' = [installer EXCEPT ![s] = next]
      BY <2>2 DEF Step
    <3>6. lock' = s /\ lock' \in Installers \cup {Nobody} /\ Busy(s) /\ deaths' \in 0..MaxDeaths
      BY <1>7, <2>2 DEF WriteTemp, Quiet, StageInv, HookTypeOK, Busy
    <3>7. /\ UNCHANGED <<own, risked, acts>>
          /\ hook' \in Inodes \cup {NoFile} /\ backup' \in Inodes \cup {NoFile}
      BY <1>0, <1>7 DEF WriteTemp, Quiet
    <3> HIDE DEF next
    <3> QED
      BY <1>0, <3>1, <3>2, <3>3, <3>4, <3>5, <3>6, <3>7, StageStep
  <2> QED
    BY <1>7, <2>1, <2>2 DEF WriteTemp
<1>8. CASE LinkBackup(s)
  <2> DEFINE go == [installer[s] EXCEPT !.pc = "check"]
             made == [installer[s] EXCEPT !.pc = "check", !.made = TRUE]
  <2>1. Busy(s) /\ installer[s].tmp \in Inodes /\ file[installer[s].tmp] = Dispatcher(TRUE)
        /\ lock = s /\ deaths' \in 0..MaxDeaths
    BY <1>0, <1>8 DEF LinkBackup, Busy, Staged, AtStep, StageInv, HookTypeOK, Quiet
  <2>2. ASSUME NEW next \in {go, made}
        PROVE  next \in Session /\ next.pc = "check" /\ next.tmp = installer[s].tmp
    BY <1>b DEF Session, Steps
  <2>3. CASE Leave(s, "refused")
    BY <1>0, <1>8, <2>1, <2>3, StageLeave DEF LinkBackup
  <2>4. CASE /\ backup' \in Inodes \cup {NoFile} /\ UNCHANGED lock
             /\ Step(s, go) \/ Step(s, made)
    <3>1. PICK next \in {go, made} : installer' = [installer EXCEPT ![s] = next]
      BY <2>4 DEF Step
    <3> HIDE DEF go, made
    <3> QED
      BY <1>0, <1>8, <2>1, <2>2, <2>4, <3>1, StageStep DEF LinkBackup, Quiet
  <2> QED
    BY <1>0, <1>8, <2>3, <2>4 DEF LinkBackup, Goto
<1>9. CASE CheckBackup(s)
  <2>1. Busy(s) /\ installer[s].tmp \in Inodes /\ file[installer[s].tmp] = Dispatcher(TRUE)
    BY <1>0, <1>9 DEF CheckBackup, Busy, Staged, AtStep
  <2>2. CASE Goto(s, "verify") /\ UNCHANGED <<backup, lock>>
    <3> DEFINE next == [installer[s] EXCEPT !.pc = "verify"]
    <3>1. next \in Session /\ next.pc = "verify" /\ next.tmp = installer[s].tmp
      BY <1>b, Went DEF Steps
    <3>2. Step(s, next)
      BY <2>2 DEF Goto
    <3> HIDE DEF next
    <3> QED
      BY <1>9, <2>1, <2>2, <3>1, <3>2, StageGoes DEF CheckBackup
  <2>3. CASE UndoBackup(s) /\ Leave(s, "refused")
    BY <1>0, <1>9, <2>1, <2>3, StageLeave DEF CheckBackup, UndoBackup
  <2> QED
    BY <1>9, <2>2, <2>3 DEF CheckBackup
<1>10. CASE VerifySnapshot(s)
  <2>1. Busy(s) /\ installer[s].tmp \in Inodes /\ file[installer[s].tmp] = Dispatcher(TRUE)
    BY <1>0, <1>10 DEF VerifySnapshot, Busy, Staged, AtStep
  <2>2. CASE Goto(s, "replace") /\ UNCHANGED <<backup, lock>>
    <3> DEFINE next == [installer[s] EXCEPT !.pc = "replace"]
    <3>1. next \in Session /\ next.pc = "replace" /\ next.tmp = installer[s].tmp
      BY <1>b, Went DEF Steps
    <3>2. Step(s, next)
      BY <2>2 DEF Goto
    <3> HIDE DEF next
    <3> QED
      BY <1>10, <2>1, <2>2, <3>1, <3>2, StageGoes DEF VerifySnapshot
  <2>3. CASE UndoBackup(s) /\ Leave(s, "refused")
    BY <1>0, <1>10, <2>1, <2>3, StageLeave DEF VerifySnapshot, UndoBackup
  <2> QED
    BY <1>10, <2>2, <2>3 DEF VerifySnapshot
<1>11. CASE ReplaceHookFile(s)
  <2>1. Busy(s) /\ installer[s].tmp \in Inodes
    BY <1>0, <1>11 DEF ReplaceHookFile, Busy, Staged, AtStep
  <2> QED
    BY <1>0, <1>11, <2>1, StageLeave DEF ReplaceHookFile, UndoBackup
<1> QED
  BY <1>1, <1>2, <1>3, <1>4, <1>5, <1>6, <1>7, <1>8, <1>9, <1>10, <1>11 DEF Install

LEMMA StageDie ==
  ASSUME StageInv, NEW s \in Installers, Die(s)
  PROVE  StageInv'
<1> DEFINE next == [Idle EXCEPT !.pc = "done"]
<1>1. next \in Session /\ next.pc = "done" /\ next.tmp = NoFile
  BY IdleTyped DEF Session, Steps
<1>2. installer' = [installer EXCEPT ![s] = next]
  BY DEF Die, Step
<1>3. /\ hook' \in Inodes \cup {NoFile} /\ backup' \in Inodes \cup {NoFile}
      /\ file' \in [Inodes -> Contents] /\ file' = file /\ deaths' \in 0..MaxDeaths
      /\ lock' \in Installers \cup {Nobody} /\ UNCHANGED <<own, risked, acts>>
      /\ lock' = lock \/ (lock = s /\ lock' = Nobody)
  BY HookAssumption DEF StageInv, HookTypeOK, Die
<1> HIDE DEF next
<1> QED
  BY <1>1, <1>2, <1>3, StageStep

\* Nothing the user does touches a staged file, which no path names yet.
LEMMA StageUser ==
  ASSUME StageInv, UserStep
  PROVE  /\ StageInv'
         /\ UNCHANGED <<installer, lock, deaths>>
<1> DEFINE Keeps == \A i \in Inodes : file[i] = Dispatcher(TRUE) /\ i \in InUse => file'[i] = file[i]
<1>0. /\ hook \in Inodes \cup {NoFile} /\ backup \in Inodes \cup {NoFile}
      /\ file \in [Inodes -> Contents] /\ acts \in 0..MaxActs
      /\ own \in SUBSET [text : 0..MaxActs, exec : BOOLEAN]
      /\ Fresh \in Inodes /\ Fresh \notin InUse
  BY FreshIsFree DEF StageInv, HookTypeOK
<1>1. ASSUME NEW c \in Written \cup {[Dispatcher(TRUE) EXCEPT !.kind = "stale"]}, acts < MaxActs,
             file' = [file EXCEPT ![Fresh] = c]
      PROVE  file' \in [Inodes -> Contents] /\ Keeps
  <2>1. c \in Contents
    <3>1. ASSUME NEW x \in BOOLEAN
          PROVE  [kind |-> "user", text |-> acts + 1, exec |-> x] \in Contents
      BY <1>0, <1>1, HookAssumption DEF Contents, Kinds
    <3>2. "irregular" \in Kinds /\ "stale" \in Kinds
      BY DEF Kinds
    <3> QED
      BY <1>1, <3>1, <3>2, DispatcherTyped DEF Written
  <2> QED
    BY <1>0, <1>1, <2>1
<1>a. ASSUME NEW stays \in SUBSET own, NEW c, NEW i \in Inodes \cup {NoFile},
             UserActs(stays, IF c THEN {i} ELSE {}) \/ UserActs(stays, {})
      PROVE  \E stay \in SUBSET own, exposed \in SUBSET (Inodes \cup {NoFile}) : UserActs(stay, exposed)
  <2>1. (IF c THEN {i} ELSE {}) \in SUBSET (Inodes \cup {NoFile}) /\ {} \in SUBSET (Inodes \cup {NoFile})
    OBVIOUS
  <2> QED
    BY <1>a, <2>1
<1>2. /\ hook' \in Inodes \cup {NoFile} /\ backup' \in Inodes \cup {NoFile}
      /\ file' \in [Inodes -> Contents] /\ Keeps
      /\ \E stays \in SUBSET own, exposed \in SUBSET (Inodes \cup {NoFile}) : UserActs(stays, exposed)
  <2>1. CASE EditInPlace
    <3>1. PICK i \in UserFiles, x \in BOOLEAN : \E t \in {file[i].text, acts + 1} :
            /\ file' = [file EXCEPT ![i] = [kind |-> "user", text |-> t, exec |-> x]]
            /\ UserActs(own \ Held(i),
                        IF (i # hook /\ InBackupWindow) \/ file[i].text \in risked THEN {i} ELSE {})
      BY <2>1 DEF EditInPlace
    <3>2. i \in Inodes /\ file[i].kind = "user" /\ acts < MaxActs
      BY <1>0, <3>1 DEF UserFiles, UserActs
    <3>3. file' \in [Inodes -> Contents] /\ \A j \in Inodes \ {i} : file'[j] = file[j]
      BY <1>0, <3>1, <3>2, HookAssumption DEF Contents, Kinds
    <3>4. file[i] # Dispatcher(TRUE)
      BY <3>2, DispatcherTyped
    <3>5. (own \ Held(i)) \in SUBSET own
      OBVIOUS
    <3>6. \E stays \in SUBSET own, exposed \in SUBSET (Inodes \cup {NoFile}) : UserActs(stays, exposed)
      BY <1>a, <3>1, <3>2, <3>5
    <3> QED
      BY <1>0, <2>1, <3>3, <3>4, <3>6 DEF EditInPlace
  <2>2. CASE PutHook
    <3>1. PICK c \in Written \cup {[Dispatcher(TRUE) EXCEPT !.kind = "stale"]} :
            /\ file' = [file EXCEPT ![Fresh] = c]
            /\ hook' = Fresh /\ UNCHANGED backup
            /\ UserActs(own \ Held(hook), IF InHookWindow THEN {Fresh} ELSE {})
      BY <2>2 DEF PutHook
    <3>2. \E stays \in SUBSET own, exposed \in SUBSET (Inodes \cup {NoFile}) : UserActs(stays, exposed)
      BY <1>0, <1>a, <3>1
    <3>3. acts < MaxActs
      BY <3>1 DEF UserActs
    <3>4. file' \in [Inodes -> Contents] /\ Keeps
      BY <1>1, <3>1, <3>3
    <3> HIDE DEF Keeps
    <3> QED
      BY <1>0, <3>1, <3>2, <3>4
  <2>3. CASE RemoveHook
    BY <1>0, <1>a, <2>3 DEF RemoveHook
  <2>4. CASE PutBackup
    <3>1. PICK c \in Written :
            /\ file' = [file EXCEPT ![Fresh] = c]
            /\ backup' = Fresh /\ UNCHANGED hook
            /\ UserActs(own, IF InBackupWindow THEN {Fresh} ELSE {})
      BY <2>4 DEF PutBackup
    <3>2. \E stays \in SUBSET own, exposed \in SUBSET (Inodes \cup {NoFile}) : UserActs(stays, exposed)
      BY <1>0, <1>a, <3>1
    <3>3. acts < MaxActs
      BY <3>1 DEF UserActs
    <3>4. file' \in [Inodes -> Contents] /\ Keeps
      BY <1>1, <3>1, <3>3
    <3> HIDE DEF Keeps
    <3> QED
      BY <1>0, <3>1, <3>2, <3>4
  <2>5. CASE RemoveBackup
    <3>1. PICK stays \in SUBSET own : UserActs(stays, IF InBackupWindow THEN {hook} ELSE {})
      BY <2>5 DEF RemoveBackup
    <3>2. \E stay \in SUBSET own, exposed \in SUBSET (Inodes \cup {NoFile}) : UserActs(stay, exposed)
      BY <1>0, <1>a, <3>1
    <3> QED
      BY <1>0, <2>5, <3>2 DEF RemoveBackup
  <2> QED
    BY <2>1, <2>2, <2>3, <2>4, <2>5 DEF UserStep
<1>3. UNCHANGED <<installer, lock, deaths>> /\ acts' \in 0..MaxActs
  BY <1>0, <1>2, HookAssumption DEF UserActs
<1>4. UserHooks' \subseteq [text : 0..MaxActs, exec : BOOLEAN]
  BY <1>2 DEF UserHooks, UserFiles, Contents
<1>5. own' \in SUBSET [text : 0..MaxActs, exec : BOOLEAN]
  BY <1>0, <1>2, <1>4 DEF UserActs
<1>6. HookTypeOK'
  <2>1. \A i \in Inodes : file'[i].text \in 0..MaxActs
    BY <1>2 DEF Contents
  <2>2. risked' \subseteq 0..MaxActs
    BY <1>2, <2>1 DEF UserActs, StageInv, HookTypeOK
  <2> QED
    BY <1>2, <1>3, <1>5, <2>2 DEF StageInv, HookTypeOK
<1>7. ASSUME NEW s \in Installers
      PROVE  (Busy(s) => lock = s)' /\ Staged(s)' /\ OpenedFile(s)'
  <2>1. installer[s].tmp \in InUse
    BY DEF InUse
  <2> QED
    BY <1>2, <1>3, <2>1 DEF StageInv, Staged, OpenedFile, Busy, AtStep
<1> QED
  BY <1>3, <1>6, <1>7 DEF StageInv

LEMMA StageInitial == HookInit => StageInv
<1> SUFFICES ASSUME HookInit
             PROVE  StageInv
  OBVIOUS
<1> DEFINE u == [Dispatcher(FALSE) EXCEPT !.kind = "user"]
<1>1. u \in Contents
  BY DispatcherTyped DEF Contents, Kinds
<1>2. file \in [Inodes -> Contents]
  BY <1>1 DEF HookInit
<1>3. hook \in Inodes \cup {NoFile}
  <2>1. Inodes # {}
    <3> SUFFICES ASSUME Inodes = {}
                 PROVE  FALSE
      OBVIOUS
    <3>1. Cardinality(Inodes) = 0
      BY FS_EmptySet
    <3>2. Cardinality(Installers) \in Nat
      BY HookAssumption, FS_CardinalityType
    <3> QED
      BY <3>1, <3>2, HookAssumption
  <2> QED
    BY <2>1 DEF HookInit
<1>4. own \in SUBSET [text : 0..MaxActs, exec : BOOLEAN]
  <2>1. UserHooks \subseteq [text : 0..MaxActs, exec : BOOLEAN]
    BY <1>2, <1>3 DEF HookInit, UserHooks, UserFiles, Contents
  <2> QED
    BY <2>1 DEF HookInit
<1>5. installer \in [Installers -> Session] /\ \A s \in Installers : installer[s] = Idle
  BY IdleTyped DEF HookInit
<1>6. HookTypeOK
  BY <1>2, <1>3, <1>4, <1>5, HookAssumption DEF HookInit, HookTypeOK, Session
<1> QED
  BY <1>5, <1>6, IdleTyped DEF StageInv, Busy, Staged, OpenedFile, AtStep

LEMMA StageInductive == StageInv /\ [HookNext]_hookVars => StageInv'
<1> SUFFICES ASSUME StageInv, [HookNext]_hookVars
             PROVE  StageInv'
  OBVIOUS
<1>1. CASE UNCHANGED hookVars
  BY <1>1 DEF hookVars, StageInv, HookTypeOK, Busy, Staged, OpenedFile, AtStep
<1> QED
  BY <1>1, StageUser, StageInstall, StageDie DEF HookNext

-----------------------------------------------------------------------------
\* An installer that fails or dies at any step, whatever the user did around
\* it, leaves two paths the next installer does not refuse (inspectPostRewrite,
\* "dispatcher installation can resume").
THEOREM InstallResumes == HookSpec => InstallCanResume
<1>1. HookSpec => []StageInv
  BY StageInitial, StageInductive, PTL DEF HookSpec
<1>2. ASSUME StageInv, [HookNext]_hookVars
      PROVE  [InspectPostRewrite' = "unsafe"
                => InspectPostRewrite = "unsafe" \/ acts' # acts]_hookVars
  <2> SUFFICES ASSUME InspectPostRewrite' = "unsafe", acts' = acts
               PROVE  InspectPostRewrite = "unsafe" \/ UNCHANGED hookVars
    OBVIOUS
  <2>0. /\ hook \in Inodes \cup {NoFile} /\ backup \in Inodes \cup {NoFile}
        /\ file \in [Inodes -> Contents] /\ acts \in Nat
        /\ Fresh \in Inodes /\ Fresh \notin InUse
    BY <1>2, FreshIsFree, HookAssumption DEF StageInv, HookTypeOK
  <2>1. ~UserStep
    <3>1. \A stays, exposed : ~UserActs(stays, exposed)
      BY <2>0 DEF UserActs
    <3> QED
      BY <3>1 DEF UserStep, EditInPlace, PutHook, RemoveHook, PutBackup, RemoveBackup
  <2>2. CASE UNCHANGED <<hook, backup, file>>
    BY <2>2 DEF InspectPostRewrite, Regular
  <2>3. ASSUME NEW s \in Installers, RepairMode(s)
        PROVE  InspectPostRewrite = "unsafe"
    <3>1. installer[s].ino \in Inodes
      BY <1>2, <2>3 DEF StageInv, OpenedFile, AtStep, RepairMode
    <3>2. \A i \in Inodes : file'[i].kind = file[i].kind
      BY <2>0, <2>3, <3>1 DEF RepairMode, Contents
    <3> QED
      BY <2>0, <2>3, <3>2 DEF RepairMode, InspectPostRewrite, Regular
  <2>4. ASSUME NEW s \in Installers, WriteTemp(s)
        PROVE  InspectPostRewrite = "unsafe"
    <3>1. \A i \in {hook, backup} \ {NoFile} : file'[i] = file[i]
      BY <2>0, <2>4 DEF WriteTemp, InUse
    <3> QED
      BY <2>0, <2>4, <3>1 DEF WriteTemp, InspectPostRewrite, Regular
  <2>5. ASSUME NEW s \in Installers, LinkBackup(s)
        PROVE  InspectPostRewrite = "unsafe"
    BY <2>0, <2>5 DEF LinkBackup, InspectPostRewrite, Regular
  <2>6. ASSUME NEW s \in Installers, CheckBackup(s) \/ VerifySnapshot(s)
        PROVE  InspectPostRewrite = "unsafe"
    BY <2>0, <2>6 DEF CheckBackup, VerifySnapshot, UndoBackup, InspectPostRewrite, Regular
  <2>7. ASSUME NEW s \in Installers, ReplaceHookFile(s)
        PROVE  InspectPostRewrite = "unsafe"
    <3>1. /\ installer[s].tmp \in Inodes /\ file[installer[s].tmp].kind = "dispatcher"
          /\ file[installer[s].tmp].exec = TRUE
      BY <1>2, <2>7, DispatcherTyped DEF StageInv, Staged, AtStep, ReplaceHookFile
    <3>2. CASE hook' = installer[s].tmp /\ UNCHANGED <<backup, file>>
      <4>1. hook' # NoFile /\ Regular(hook)'
        BY <3>1, <3>2, HookAssumption DEF Regular
      <4> QED
        BY <3>1, <3>2, <4>1 DEF InspectPostRewrite, Regular
    <3>3. CASE UndoBackup(s) /\ UNCHANGED <<hook, file>>
      BY <2>0, <3>3 DEF UndoBackup, InspectPostRewrite, Regular
    <3> QED
      BY <2>7, <3>2, <3>3 DEF ReplaceHookFile
  <2> QED
    BY <1>2, <2>1, <2>2, <2>3, <2>4, <2>5, <2>6, <2>7
       DEF HookNext, Install, Resolve, AcquirePostRewriteLock, Inspect, OpenDispatcher, Snapshot, Die, hookVars
<1> QED
  BY <1>1, <1>2, PTL DEF HookSpec, InstallCanResume

-----------------------------------------------------------------------------
(***************************************************************************)
(* What an installer knows at each step, and which hooks it may lose: those *)
(* that the user put where it no longer looks.                             *)
(***************************************************************************)
\* there is no hook of the user at the path, or one that is at risk
Spent(i) == i = NoFile \/ file[i].kind # "user" \/ file[i].text \in risked

Branch(s) ==
    /\ AtStep(s, {"link", "check"}) => installer[s].state = "user-hook"
    /\ AtStep(s, {"snapshot", "temp", "verify", "replace"})
          => installer[s].state \in {"missing", "user-hook", "stale"}

\* a link that may be taken back is not the only name of a hook of the user
Undoable(s) ==
    installer[s].made => /\ AtStep(s, {"check", "verify", "replace"})
                         /\ installer[s].state = "user-hook"
                         /\ Kept \subseteq Held(hook)

\* the inode an installer compares with is the one its snapshot read
Unread(s) == AtStep(s, {"idle", "lock", "inspect", "snapshot", "open"}) => installer[s].ino = NoFile

\* what it compares with was written before
Dated(s) == installer[s].content.text <= acts

Seen(s) == AtStep(s, {"snapshot"}) /\ installer[s].state # "user-hook" => Spent(hook)

Conditioned(s) ==
    AtStep(s, {"temp", "verify"}) /\ installer[s].state # "user-hook" =>
        \/ installer[s].ino = NoFile
        \/ installer[s].content.kind # "user"
        \/ installer[s].content.text \in risked

\* what the rename would drop is backed up, not the user's, or at risk
Backed(s) ==
    AtStep(s, {"verify"}) /\ installer[s].state = "user-hook" /\ SnapshotHolds(s)
       => hook = backup \/ Spent(hook)

Replaceable(s) ==
    AtStep(s, {"replace"}) => Spent(hook) \/ (installer[s].state = "user-hook" /\ hook = backup)

Facts(s) ==
    /\ Branch(s) /\ Undoable(s) /\ Unread(s) /\ Dated(s)
    /\ Seen(s) /\ Conditioned(s) /\ Backed(s) /\ Replaceable(s)

HookInv ==
    /\ StageInv
    /\ Kept \subseteq UserHooks
    /\ \A i \in Inodes : file[i].text <= acts
    /\ \A s \in Installers : Facts(s)

-----------------------------------------------------------------------------
LEMMA HeldByPaths == StageInv => UserHooks = Held(hook) \cup Held(backup)
BY HookAssumption DEF StageInv, HookTypeOK, UserHooks, UserFiles, Held, Hook

\* Whoever holds the lock is the only one with anything to lose.
LEMMA OthersUndisturbed ==
  ASSUME HookInv, NEW s \in Installers, NEW t \in Installers \ {s},
         installer'[t] = installer[t], UNCHANGED <<own, risked, acts>>,
         Busy(s) \/ UNCHANGED <<hook, backup, file>>
  PROVE  Facts(t)'
<1>1. CASE UNCHANGED <<hook, backup, file>>
  BY <1>1 DEF HookInv, Facts, Branch, Undoable, Unread, Dated, Seen, Conditioned, Backed, Replaceable,
              AtStep, Held, Hook, Kept, Spent, SnapshotHolds, SameFile
<1>2. CASE Busy(s)
  <2>1. installer[t].pc \in {"idle", "lock", "done"}
    BY <1>2 DEF HookInv, StageInv, Busy
  <2>2. ~installer[t].made /\ Unread(t) /\ Dated(t)
    BY <2>1 DEF HookInv, Facts, Undoable, AtStep
  <2> QED
    BY <2>1, <2>2 DEF Facts, Branch, Undoable, Unread, Dated, Seen, Conditioned, Backed, Replaceable, AtStep
<1> QED
  BY <1>1, <1>2

\* An installer that has left, or is before its snapshot, trusts nothing.
LEMMA NothingTrusted ==
  ASSUME NEW s \in Installers, ~installer'[s].made,
         installer'[s].pc \in {"idle", "lock", "inspect", "open", "chmod", "done"},
         installer'[s].pc \in {"chmod", "done"} \/ installer'[s].ino = NoFile,
         Dated(s)'
  PROVE  Facts(s)'
BY DEF Facts, Branch, Undoable, Unread, Seen, Conditioned, Backed, Replaceable, AtStep

LEMMA LeftFacts ==
  ASSUME StageInv, NEW s \in Installers, NEW r \in Reports, Leave(s, r), UNCHANGED acts
  PROVE  Facts(s)' /\ \A t \in Installers \ {s} : installer'[t] = installer[t]
<1> DEFINE next == [Idle EXCEPT !.pc = "done", !.report = r]
<1>1. next.pc = "done" /\ next.made = FALSE /\ next.content.text = 0
  BY IdleTyped
<1>2. installer' = [installer EXCEPT ![s] = next]
  BY DEF Leave, Step
<1> HIDE DEF next
<1>3. installer'[s] = next /\ \A t \in Installers \ {s} : installer'[t] = installer[t]
  BY <1>2, SessionTyped
<1>4. Dated(s)'
  BY <1>1, <1>3, HookAssumption DEF StageInv, HookTypeOK, Dated
<1> QED
  BY <1>1, <1>3, <1>4, NothingTrusted

\* Taking back a link that the installer made loses no hook of the user.
LEMMA UndoKeeps ==
  ASSUME HookInv, NEW s \in Installers, UndoBackup(s), UNCHANGED <<hook, file, own, risked>>
  PROVE  Kept' \subseteq Held(hook)' \cup Held(backup)'
<1>1. Kept \subseteq Held(hook) \cup Held(backup) /\ Kept' = Kept
  BY HeldByPaths DEF HookInv, Kept
<1>2. CASE installer[s].made
  BY <1>1, <1>2 DEF HookInv, Facts, Undoable, Held, Hook
<1>3. CASE ~installer[s].made
  BY <1>1, <1>3 DEF UndoBackup, Held, Hook
<1> QED
  BY <1>2, <1>3

\* What the user wrote and did is the user's business alone.
LEMMA InstallQuiet ==
  ASSUME NEW s \in Installers, Install(s)
  PROVE  UNCHANGED <<own, risked, acts, deaths>>
BY DEF Install, Quiet, Resolve, AcquirePostRewriteLock, Inspect, OpenDispatcher, RepairMode, Snapshot,
       WriteTemp, LinkBackup, CheckBackup, VerifySnapshot, ReplaceHookFile

\* The steps of an installer, once each, for the installer itself.
LEMMA InstallFacts ==
  ASSUME HookInv, NEW s \in Installers, Install(s)
  PROVE  /\ Facts(s)'
         /\ Kept' \subseteq Held(hook)' \cup Held(backup)'
         /\ \A t \in Installers \ {s} : installer'[t] = installer[t]
         /\ Busy(s) \/ UNCHANGED <<hook, backup, file>>
<1>0. /\ hook \in Inodes \cup {NoFile} /\ backup \in Inodes \cup {NoFile}
      /\ file \in [Inodes -> Contents]
      /\ installer \in [Installers -> Session] /\ installer[s] \in Session
      /\ {"refused", "installed", "already", "no-repository"} \subseteq Reports
      /\ Fresh \in Inodes /\ Fresh \notin InUse
      /\ Facts(s) /\ StageInv
  BY SessionTyped, FreshIsFree DEF HookInv, StageInv, HookTypeOK, Reports
<1>k. Kept \subseteq Held(hook) \cup Held(backup)
  BY HeldByPaths DEF HookInv
<1>z. UNCHANGED <<own, risked, acts>>
  BY InstallQuiet
<1>y. Kept' = Kept
  BY <1>z DEF Kept
<1>s. UNCHANGED <<hook, backup, file>> => Kept' \subseteq Held(hook)' \cup Held(backup)'
  BY <1>k, <1>y DEF Held, Hook
<1>c. installer'[s].content = installer[s].content => Dated(s)'
  BY <1>0, <1>z DEF Facts, Dated
<1>n. \A next : Step(s, next) => /\ installer'[s] = next
                                 /\ \A t \in Installers \ {s} : installer'[t] = installer[t]
  BY <1>0 DEF Step
<1>g. ASSUME NEW at \in Steps, Goto(s, at)
      PROVE  /\ installer'[s].pc = at
             /\ installer'[s].state = installer[s].state /\ installer'[s].ino = installer[s].ino
             /\ installer'[s].content = installer[s].content
             /\ installer'[s].tmp = installer[s].tmp /\ installer'[s].made = installer[s].made
             /\ \A t \in Installers \ {s} : installer'[t] = installer[t]
  <2> DEFINE next == [installer[s] EXCEPT !.pc = at]
  <2>1. /\ next.pc = at /\ next.state = installer[s].state /\ next.ino = installer[s].ino
        /\ next.content = installer[s].content /\ next.tmp = installer[s].tmp
        /\ next.made = installer[s].made
    BY <1>0, Went
  <2>2. Step(s, next)
    BY <1>g DEF Goto
  <2> HIDE DEF next
  <2> QED
    BY <1>n, <2>1, <2>2
<1>q. {"lock", "inspect", "check", "verify", "replace", "temp"} \subseteq Steps
  BY DEF Steps
<1>1. CASE Resolve(s)
  <2>1. CASE Goto(s, "lock")
    <3>1. ~installer[s].made /\ installer[s].ino = NoFile
      BY <1>0, <1>1 DEF Resolve, Facts, Undoable, Unread, AtStep
    <3>2. installer'[s].pc = "lock" /\ ~installer'[s].made /\ installer'[s].ino = NoFile
      BY <1>g, <1>q, <2>1, <3>1
    <3> QED
      BY <1>1, <1>c, <1>g, <1>q, <1>s, <2>1, <3>2, NothingTrusted DEF Resolve
  <2>2. CASE Step(s, [Idle EXCEPT !.pc = "done", !.report = "no-repository"])
    <3> DEFINE next == [Idle EXCEPT !.pc = "done", !.report = "no-repository"]
    <3>1. next.pc = "done" /\ next.made = FALSE /\ next.content.text = 0
      BY <1>0, IdleTyped
    <3>2. Step(s, next)
      BY <2>2
    <3> HIDE DEF next
    <3>3. Dated(s)'
      BY <1>0, <1>n, <1>z, <3>1, <3>2, HookAssumption DEF StageInv, HookTypeOK, Dated
    <3> QED
      BY <1>1, <1>n, <1>s, <1>z, <3>1, <3>2, <3>3, NothingTrusted DEF Resolve
  <2> QED
    BY <1>1, <2>1, <2>2 DEF Resolve
<1>2. CASE AcquirePostRewriteLock(s)
  <2>1. ~installer[s].made /\ installer[s].ino = NoFile
    BY <1>0, <1>2 DEF AcquirePostRewriteLock, Facts, Undoable, Unread, AtStep
  <2>2. installer'[s].pc = "inspect" /\ ~installer'[s].made /\ installer'[s].ino = NoFile
    BY <1>g, <1>q, <1>2, <2>1 DEF AcquirePostRewriteLock
  <2> QED
    BY <1>2, <1>c, <1>g, <1>q, <1>s, <1>z, <2>2, NothingTrusted DEF AcquirePostRewriteLock
<1>a. ASSUME NEW r \in Reports, Leave(s, r), Busy(s)
      PROVE  /\ Facts(s)' /\ Busy(s)
             /\ \A t \in Installers \ {s} : installer'[t] = installer[t]
  BY <1>0, <1>a, <1>z, LeftFacts
<1>3. CASE Inspect(s)
  <2> DEFINE d == InspectPostRewrite
             at == IF d = "not-executable" THEN "open" ELSE "snapshot"
             next == [installer[s] EXCEPT !.state = d, !.pc = at]
  <2>0. /\ Busy(s) /\ ~installer[s].made /\ installer[s].ino = NoFile
        /\ UNCHANGED <<hook, backup, file>>
    BY <1>0, <1>3 DEF Inspect, Busy, Facts, Undoable, Unread, AtStep
  <2>1. CASE Leave(s, "already") \/ Leave(s, "refused")
    BY <1>0, <1>a, <1>s, <2>0, <2>1
  <2>2. CASE d \notin {"current", "unsafe"} /\ Step(s, next)
    <3>1. d \in Diagnoses
      BY DEF InspectPostRewrite, Diagnoses
    <3>2. /\ at \in Steps
          /\ d # "not-executable" => at = "snapshot" /\ d \in {"missing", "user-hook", "stale"}
          /\ d = "not-executable" => at = "open"
      BY <2>2, <3>1 DEF Steps, Diagnoses
    <3>3. d \in {"missing", "stale"} => hook = NoFile \/ file[hook].kind = "stale"
      BY DEF InspectPostRewrite
    <3> HIDE DEF at, d
    <3>4. /\ next.pc = at /\ next.state = d /\ next.content = installer[s].content
          /\ next.made = installer[s].made /\ next.ino = installer[s].ino
      BY <1>0, <3>1, <3>2 DEF Session
    <3>5. Step(s, next)
      BY <2>2
    <3> HIDE DEF next
    <3>6. CASE d = "not-executable"
      BY <1>c, <1>n, <1>s, <1>z, <2>0, <3>2, <3>4, <3>5, <3>6, NothingTrusted
    <3>7. CASE d # "not-executable"
      <4>1. Facts(s)'
        BY <1>c, <1>n, <2>0, <3>2, <3>3, <3>4, <3>5, <3>7
           DEF Facts, Branch, Undoable, Unread, Seen, Spent, Conditioned, Backed, Replaceable, AtStep
      <4> QED
        BY <1>n, <1>s, <1>z, <2>0, <3>5, <4>1
    <3> QED
      BY <3>6, <3>7
  <2> QED
    BY <1>3, <2>1, <2>2 DEF Inspect
<1>4. CASE OpenDispatcher(s)
  <2> DEFINE next == [installer[s] EXCEPT !.pc = "chmod", !.ino = hook]
  <2>0. Busy(s) /\ ~installer[s].made /\ UNCHANGED <<hook, backup, file>>
    BY <1>0, <1>4 DEF OpenDispatcher, Busy, Facts, Undoable, AtStep
  <2>1. CASE Leave(s, "refused")
    BY <1>0, <1>a, <1>s, <2>0, <2>1
  <2>2. CASE Step(s, next)
    <3>1. next.pc = "chmod" /\ next.made = installer[s].made /\ next.content = installer[s].content
      BY <1>0 DEF Session
    <3>2. Step(s, next)
      BY <2>2
    <3> HIDE DEF next
    <3> QED
      BY <1>c, <1>n, <1>s, <2>0, <3>1, <3>2, NothingTrusted
  <2> QED
    BY <1>4, <2>1, <2>2 DEF OpenDispatcher
<1>5. CASE RepairMode(s)
  <2> DEFINE i == installer[s].ino
  <2>0. Busy(s) /\ UNCHANGED <<hook, backup>>
    BY <1>5 DEF RepairMode, Busy
  <2>1. \E r \in Reports : Leave(s, r)
    BY <1>0, <1>5 DEF RepairMode
  <2>2. i \in Inodes
    BY <1>0, <1>5 DEF RepairMode, StageInv, OpenedFile, AtStep
  <2>3. \A j \in Inodes : \/ file'[j] = file[j]
                          \/ file[j].kind = "dispatcher" /\ file'[j].kind = "dispatcher"
    BY <1>0, <1>5, <2>2 DEF RepairMode, Contents
  <2>4. Kept' \subseteq Held(hook)' \cup Held(backup)'
    BY <1>0, <1>k, <1>y, <2>0, <2>3 DEF Held, Hook
  <2> QED
    BY <1>a, <2>0, <2>1, <2>4
<1>6. CASE Snapshot(s)
  <2> DEFINE seen == [installer[s] EXCEPT !.pc = "temp", !.ino = hook, !.content = file[hook]]
  <2>0. /\ Busy(s) /\ ~installer[s].made /\ installer[s].ino = NoFile
        /\ UNCHANGED <<hook, backup, file>>
    BY <1>0, <1>6 DEF Snapshot, Busy, Facts, Undoable, Unread, AtStep
  <2>1. CASE hook = NoFile /\ Step(s, [installer[s] EXCEPT !.pc = "temp"])
    <3>1. Goto(s, "temp")
      BY <2>1 DEF Goto
    <3>2. Facts(s)'
      BY <1>0, <1>6, <1>c, <1>g, <1>q, <2>0, <2>1, <3>1
         DEF Snapshot, Facts, Branch, Undoable, Unread, Seen, Conditioned, Backed, Replaceable, AtStep
    <3> QED
      BY <1>g, <1>q, <1>s, <2>0, <3>1, <3>2
  <2>2. CASE Leave(s, "refused")
    BY <1>0, <1>a, <1>s, <2>0, <2>2
  <2>3. CASE hook # NoFile /\ Step(s, seen)
    <3>1. /\ seen.pc = "temp" /\ seen.ino = hook /\ seen.content = file[hook]
          /\ seen.state = installer[s].state /\ seen.made = installer[s].made
      BY <1>0, <2>3 DEF Session
    <3>2. Step(s, seen)
      BY <2>3
    <3> HIDE DEF seen
    <3>3. Dated(s)'
      BY <1>0, <1>n, <1>z, <2>3, <3>1, <3>2 DEF HookInv, Dated
    <3>4. AtStep(s, {"snapshot"}) /\ (installer[s].state # "user-hook" => Spent(hook))
      BY <1>0, <1>6 DEF Snapshot, Facts, Seen, AtStep
    <3>5. Conditioned(s)'
      BY <1>n, <1>z, <2>3, <3>1, <3>2, <3>4 DEF Conditioned, Spent
    <3>6. Facts(s)'
      BY <1>0, <1>n, <2>0, <3>1, <3>2, <3>3, <3>4, <3>5
         DEF Facts, Branch, Undoable, Unread, Seen, Backed, Replaceable, AtStep
    <3> QED
      BY <1>n, <1>s, <2>0, <3>2, <3>6
  <2> QED
    BY <1>0, <1>6, <2>1, <2>2, <2>3 DEF Snapshot
<1>7. CASE WriteTemp(s)
  <2> DEFINE at == IF installer[s].state = "user-hook" THEN "link" ELSE "verify"
             next == [installer[s] EXCEPT !.tmp = Fresh, !.pc = at]
  <2>0. /\ Busy(s) /\ ~installer[s].made /\ UNCHANGED <<hook, backup>>
        /\ AtStep(s, {"temp"})
    BY <1>0, <1>7 DEF WriteTemp, Busy, Facts, Undoable, AtStep
  <2>1. CASE Leave(s, "refused") /\ UNCHANGED file
    BY <1>0, <1>a, <1>s, <2>0, <2>1
  <2>2. CASE file' = [file EXCEPT ![Fresh] = Dispatcher(TRUE)] /\ Step(s, next)
    <3>1. \A i \in {hook, backup} \ {NoFile} : file'[i] = file[i]
      BY <1>0, <2>2 DEF InUse
    <3>2. Kept' \subseteq Held(hook)' \cup Held(backup)'
      BY <1>k, <1>y, <2>0, <3>1 DEF Held, Hook
    <3>3. at \in Steps
      BY DEF Steps
    <3>4. /\ next.pc = at /\ next.ino = installer[s].ino /\ next.content = installer[s].content
          /\ next.state = installer[s].state /\ next.made = installer[s].made
      BY <1>0, <3>3 DEF Session
    <3>5. Step(s, next)
      BY <2>2
    <3> HIDE DEF next
    <3>6. Conditioned(s)'
      BY <1>0, <1>n, <1>z, <2>0, <3>4, <3>5 DEF Facts, Conditioned, AtStep
    <3>7. Backed(s)'
      BY <1>n, <3>4, <3>5 DEF Backed, AtStep
    <3>8. Facts(s)'
      BY <1>0, <1>c, <1>n, <2>0, <3>4, <3>5, <3>6, <3>7
         DEF Facts, Branch, Undoable, Unread, Seen, Conditioned, Backed, Replaceable, AtStep
    <3> QED
      BY <1>n, <2>0, <3>2, <3>5, <3>8
  <2> QED
    BY <1>7, <2>1, <2>2 DEF WriteTemp
<1>u. ASSUME Busy(s), UndoBackup(s), Leave(s, "refused"), UNCHANGED <<hook, file>>
      PROVE  /\ Facts(s)' /\ Busy(s)
             /\ Kept' \subseteq Held(hook)' \cup Held(backup)'
             /\ \A t \in Installers \ {s} : installer'[t] = installer[t]
  BY <1>0, <1>a, <1>u, <1>z, UndoKeeps
<1>8. CASE LinkBackup(s)
  <2> DEFINE next == [installer[s] EXCEPT !.pc = "check", !.made = TRUE]
  <2>0. /\ Busy(s) /\ ~installer[s].made /\ installer[s].state = "user-hook"
        /\ UNCHANGED <<hook, file>>
    BY <1>0, <1>8 DEF LinkBackup, Busy, Facts, Undoable, Branch, AtStep
  <2>1. CASE Goto(s, "check") /\ UNCHANGED backup
    <3>1. Facts(s)'
      BY <1>c, <1>g, <1>q, <2>0, <2>1
         DEF Facts, Branch, Undoable, Unread, Seen, Conditioned, Backed, Replaceable, AtStep
    <3> QED
      BY <1>g, <1>q, <1>s, <2>0, <2>1, <3>1
  <2>2. CASE backup = NoFile /\ hook # NoFile /\ backup' = hook /\ Step(s, next)
    <3>1. next.pc = "check" /\ next.made /\ next.state = installer[s].state
          /\ next.content = installer[s].content
      BY <1>0, <1>q DEF Session
    <3>2. Step(s, next)
      BY <2>2
    <3> HIDE DEF next
    <3>3. Kept' \subseteq Held(hook)'
      BY <1>k, <1>y, <2>0, <2>2 DEF Held, Hook
    <3>4. Facts(s)'
      BY <1>c, <1>n, <2>0, <3>1, <3>2, <3>3
         DEF Facts, Branch, Undoable, Unread, Seen, Conditioned, Backed, Replaceable, AtStep
    <3> QED
      BY <1>n, <2>0, <3>2, <3>3, <3>4
  <2>3. CASE Leave(s, "refused") /\ UNCHANGED backup
    BY <1>0, <1>a, <1>s, <2>0, <2>3
  <2> QED
    BY <1>8, <2>1, <2>2, <2>3 DEF LinkBackup
<1>9. CASE CheckBackup(s)
  <2>0. Busy(s) /\ installer[s].state = "user-hook" /\ UNCHANGED <<hook, file>>
    BY <1>0, <1>9 DEF CheckBackup, Busy, Facts, Branch, AtStep
  <2>1. CASE SameFile(s, backup) /\ Goto(s, "verify") /\ UNCHANGED backup
    <3>1. backup = installer[s].ino /\ installer[s].ino # NoFile
      BY <2>1 DEF SameFile
    <3>2. Undoable(s)'
      BY <1>0, <1>g, <1>q, <1>y, <2>0, <2>1 DEF Facts, Undoable, AtStep, Held, Hook
    <3>3. Backed(s)'
      BY <1>g, <1>q, <2>0, <2>1, <3>1 DEF Backed, SnapshotHolds, SameFile
    <3>4. Facts(s)'
      BY <1>c, <1>g, <1>q, <2>0, <2>1, <3>2, <3>3
         DEF Facts, Branch, Unread, Seen, Conditioned, Replaceable, AtStep
    <3> QED
      BY <1>g, <1>q, <1>s, <2>0, <2>1, <3>4
  <2>2. CASE UndoBackup(s) /\ Leave(s, "refused")
    BY <1>u, <2>0, <2>2
  <2> QED
    BY <1>9, <2>1, <2>2 DEF CheckBackup
<1>10. CASE VerifySnapshot(s)
  <2>0. Busy(s) /\ AtStep(s, {"verify"}) /\ UNCHANGED <<hook, file>>
    BY <1>10 DEF VerifySnapshot, Busy, AtStep
  <2>1. CASE SnapshotHolds(s) /\ Goto(s, "replace") /\ UNCHANGED backup
    <3>1. installer[s].state = "user-hook" => hook = backup \/ Spent(hook)
      BY <1>0, <2>0, <2>1 DEF Facts, Backed
    <3>2. installer[s].state # "user-hook" => Spent(hook)
      <4>1. CASE installer[s].ino = NoFile
        BY <2>1, <4>1 DEF SnapshotHolds, Spent
      <4>2. CASE installer[s].ino # NoFile /\ installer[s].state # "user-hook"
        <5>1. installer[s].content.kind # "user" \/ installer[s].content.text \in risked
          BY <1>0, <2>0, <4>2 DEF Facts, Conditioned, AtStep
        <5>2. /\ file[hook].kind = installer[s].content.kind
              /\ file[hook].text = installer[s].content.text
          BY <1>0, <2>1, <4>2 DEF SnapshotHolds, Session, Contents
        <5> QED
          BY <5>1, <5>2 DEF Spent
      <4> QED
        BY <4>1, <4>2
    <3>3. Undoable(s)'
      BY <1>0, <1>g, <1>q, <1>y, <2>0, <2>1 DEF Facts, Undoable, AtStep, Held, Hook
    <3>4. Replaceable(s)'
      BY <1>g, <1>q, <1>z, <2>0, <2>1, <3>1, <3>2 DEF Replaceable, Spent
    <3>5. Branch(s)'
      BY <1>0, <1>g, <1>q, <2>0, <2>1 DEF Facts, Branch, AtStep
    <3>6. Facts(s)'
      BY <1>c, <1>g, <1>q, <2>0, <2>1, <3>3, <3>4, <3>5
         DEF Facts, Unread, Seen, Conditioned, Backed, AtStep
    <3> QED
      BY <1>g, <1>q, <1>s, <2>0, <2>1, <3>6
  <2>2. CASE UndoBackup(s) /\ Leave(s, "refused")
    BY <1>u, <2>0, <2>2
  <2> QED
    BY <1>10, <2>1, <2>2 DEF VerifySnapshot
<1>11. CASE ReplaceHookFile(s)
  <2>0. Busy(s) /\ AtStep(s, {"replace"}) /\ UNCHANGED file
    BY <1>11 DEF ReplaceHookFile, Busy, AtStep
  <2>1. CASE UNCHANGED backup /\ Leave(s, "installed")
    <3>1. Spent(hook) \/ hook = backup
      BY <1>0, <2>0 DEF Facts, Replaceable
    <3>2. Kept \subseteq Held(backup)
      BY <1>k, <3>1 DEF Kept, Held, Hook, Spent
    <3>3. Kept' \subseteq Held(hook)' \cup Held(backup)'
      BY <1>y, <2>0, <2>1, <3>2 DEF Held, Hook
    <3> QED
      BY <1>0, <1>a, <2>0, <2>1, <3>3
  <2>2. CASE UndoBackup(s) /\ UNCHANGED hook /\ Leave(s, "refused")
    BY <1>u, <2>0, <2>2
  <2> QED
    BY <1>11, <2>1, <2>2 DEF ReplaceHookFile
<1> QED
  BY <1>1, <1>2, <1>3, <1>4, <1>5, <1>6, <1>7, <1>8, <1>9, <1>10, <1>11 DEF Install

\* The user: what is put in a window is at risk, and so is a hook that loses its
\* backup in one.
LEMMA UserFacts ==
  ASSUME HookInv, UserStep,
         UserHooks' = Held(hook)' \cup Held(backup)'
  PROVE  /\ Kept' \subseteq UserHooks'
         /\ \A i \in Inodes : file'[i].text <= acts'
         /\ \A t \in Installers : Facts(t)'
<1>0. /\ hook \in Inodes \cup {NoFile} /\ backup \in Inodes \cup {NoFile}
      /\ file \in [Inodes -> Contents] /\ Fresh \in Inodes /\ Fresh \notin {hook, backup}
      /\ NoFile \notin Inodes /\ acts \in Nat /\ installer \in [Installers -> Session]
      /\ \A i \in Inodes : file[i].text \in Nat /\ file[i].text <= acts
  BY FreshIsFree, HookAssumption, SessionTyped DEF HookInv, StageInv, HookTypeOK, InUse, Contents
<1>k. UserHooks = Held(hook) \cup Held(backup) /\ Kept \subseteq UserHooks
  BY HeldByPaths DEF HookInv
<1>a. /\ acts' = acts + 1 /\ UNCHANGED installer
      /\ \E stays, exposed : UserActs(stays, exposed)
  BY DEF UserStep, EditInPlace, PutHook, RemoveHook, PutBackup, RemoveBackup, UserActs
<1>b. risked \subseteq risked'
  BY <1>a DEF UserActs
<1>t. ASSUME NEW t \in Installers
      PROVE  /\ Facts(t) /\ Branch(t)' /\ Unread(t)' /\ Dated(t)' /\ Conditioned(t)'
             /\ installer[t].content.text \in Nat /\ installer[t].content.text <= acts
             /\ installer'[t] = installer[t]
  <2>1. Facts(t) /\ installer'[t] = installer[t] /\ installer[t].content.text \in Nat
    BY <1>0, <1>a DEF HookInv, Session, Contents
  <2> QED
    BY <1>0, <1>a, <1>b, <2>1 DEF Facts, Branch, Unread, Dated, Conditioned, AtStep
<1>w. ASSUME NEW t \in Installers
      PROVE  /\ AtStep(t, {"snapshot", "replace"}) => InHookWindow
             /\ AtStep(t, {"check", "verify", "replace"}) /\ installer[t].state = "user-hook"
                => InBackupWindow
  BY DEF AtStep, InHookWindow, InBackupWindow
\* where a path is left alone, so is the hook of the user that it holds
<1>h. /\ UNCHANGED hook /\ (hook # NoFile => file'[hook] = file[hook]) => Held(hook)' = Held(hook)
      /\ UNCHANGED backup /\ (backup # NoFile => file'[backup] = file[backup]) => Held(backup)' = Held(backup)
      /\ hook' = NoFile => Held(hook)' = {}
      /\ backup' = NoFile => Held(backup)' = {}
  BY DEF Held, Hook
\* what the installers know is about what they would drop
<1>f. ASSUME \A t \in Installers :
                /\ installer[t].made => Kept' \subseteq Held(hook)'
                /\ AtStep(t, {"snapshot"}) /\ Spent(hook) => Spent(hook)'
                /\ AtStep(t, {"verify"}) /\ SnapshotHolds(t)'
                   => Spent(hook)' \/ (SnapshotHolds(t) /\ ~Spent(hook)
                                        /\ (hook = backup /\ installer[t].state = "user-hook"
                                             => hook' = backup'))
                /\ AtStep(t, {"replace"})
                   => Spent(hook)' \/ (~Spent(hook)
                                        /\ (hook = backup /\ installer[t].state = "user-hook"
                                             => hook' = backup'))
      PROVE  \A t \in Installers : Facts(t)'
  BY <1>f, <1>t DEF Facts, Undoable, Seen, Backed, Replaceable, AtStep
<1>1. CASE EditInPlace
  <2>1. PICK i \in UserFiles : \E x \in BOOLEAN : \E v \in {file[i].text, acts + 1} :
             /\ file' = [file EXCEPT ![i] = [kind |-> "user", text |-> v, exec |-> x]]
             /\ UserActs(own \ Held(i),
                         IF (i # hook /\ InBackupWindow) \/ file[i].text \in risked THEN {i} ELSE {})
    BY <1>1 DEF EditInPlace
  <2>2. i \in {hook, backup} /\ i # NoFile /\ i \in Inodes /\ file[i].kind = "user"
    BY <1>0 DEF UserFiles
  <2>3. /\ UNCHANGED <<hook, backup>> /\ \A j \in Inodes \ {i} : file'[j] = file[j]
        /\ file'[i].kind = "user" /\ file'[i].text \in {file[i].text, acts + 1}
    BY <1>0, <1>1, <2>1, <2>2 DEF EditInPlace
  <2>4. /\ hook # i => Held(hook)' = Held(hook)
        /\ backup # i => Held(backup)' = Held(backup)
    BY <1>0, <1>h, <2>3
  <2>5. /\ own' = (own \ Held(i)) \cup (UserHooks' \ UserHooks)
        /\ (i # hook /\ InBackupWindow) \/ file[i].text \in risked => file'[i].text \in risked'
    BY <2>1, <2>2 DEF UserActs
  <2>6. Kept' \subseteq UserHooks'
    BY <1>b, <1>k, <2>2, <2>4, <2>5 DEF Kept
  <2>7. Spent(hook) => Spent(hook)'
    BY <1>0, <1>b, <2>2, <2>3, <2>5 DEF Spent
  <2>8. ASSUME NEW t \in Installers, SnapshotHolds(t)', ~SnapshotHolds(t)
        PROVE  Spent(hook)'
    <3>1. CASE hook = NoFile \/ hook # i
      <4>1. hook # NoFile => file'[hook] = file[hook]
        BY <1>0, <2>3, <3>1
      <4> QED
        BY <1>t, <2>3, <2>8, <4>1 DEF SnapshotHolds, SameFile
    <3>2. CASE hook = i
      <4>1. file[hook] \in Contents /\ file'[hook].kind = "user" /\ installer[t].content \in Contents
        BY <1>0, <2>2, <2>3, <3>2 DEF Session
      <4>2. /\ installer[t].ino = hook /\ hook # NoFile
            /\ file'[hook] = [installer[t].content EXCEPT !.exec = file'[hook].exec]
        BY <1>t, <2>2, <2>3, <2>8, <3>2 DEF SnapshotHolds, SameFile
      <4>3. file'[hook].text = installer[t].content.text /\ installer[t].content.kind = "user"
        BY <4>1, <4>2 DEF Contents
      <4>4. file'[hook].text = file[hook].text
        BY <1>0, <1>t, <2>3, <3>2, <4>3
      <4>5. file[hook] = [installer[t].content EXCEPT !.exec = file[hook].exec]
        BY <2>2, <3>2, <4>1, <4>3, <4>4 DEF Contents
      <4> QED
        BY <2>2, <2>8, <3>2, <4>2, <4>5 DEF SnapshotHolds, SameFile
    <3> QED
      BY <3>1, <3>2
  <2>9. ASSUME NEW t \in Installers, installer[t].made
        PROVE  Kept' \subseteq Held(hook)'
    <3>1. InBackupWindow /\ Kept \subseteq Held(hook)
      BY <1>t, <1>w, <2>9 DEF Facts, Undoable
    <3>2. CASE i = hook
      <4>1. Held(backup)' \subseteq Held(hook)' \cup Held(backup)
        BY <2>3, <2>4, <3>2 DEF Held, Hook
      <4> QED
        BY <1>b, <1>k, <2>5, <3>1, <3>2, <4>1 DEF Kept
    <3>3. CASE i # hook
      <4>1. \A h \in Held(backup)' : h.text \in risked'
        BY <2>2, <2>3, <2>5, <3>1, <3>3 DEF Held, Hook
      <4> QED
        BY <1>b, <1>k, <2>4, <2>5, <3>1, <3>3, <4>1 DEF Kept
    <3> QED
      BY <3>2, <3>3
  <2>10. \A t \in Installers : Facts(t)'
    BY <1>f, <2>3, <2>7, <2>8, <2>9
  <2>11. \A j \in Inodes : file'[j].text <= acts'
    BY <1>0, <1>a, <2>3
  <2> QED
    BY <2>6, <2>10, <2>11
<1>2. CASE PutHook
  <2>1. PICK c \in Written \cup {[Dispatcher(TRUE) EXCEPT !.kind = "stale"]} :
             /\ file' = [file EXCEPT ![Fresh] = c]
             /\ hook' = Fresh /\ UNCHANGED backup
             /\ UserActs(own \ Held(hook), IF InHookWindow THEN {Fresh} ELSE {})
    BY <1>2 DEF PutHook
  <2>2. /\ \A j \in Inodes \ {Fresh} : file'[j] = file[j]
        /\ file'[Fresh] = c /\ c.text \in {0, acts + 1} /\ (c.kind = "user" => c.text = acts + 1)
    BY <1>0, <2>1 DEF Written, Dispatcher
  <2>3. Held(backup)' = Held(backup)
    BY <1>0, <1>h, <2>1, <2>2
  <2>4. /\ own' = (own \ Held(hook)) \cup (UserHooks' \ UserHooks)
        /\ InHookWindow => file'[Fresh].text \in risked'
    BY <1>0, <2>1 DEF UserActs
  <2>5. /\ Kept' \subseteq UserHooks'
        /\ Kept \subseteq Held(hook) => Kept' \subseteq Held(hook)'
    BY <1>b, <1>k, <2>3, <2>4 DEF Kept
  <2>6. InHookWindow => Spent(hook)'
    BY <2>1, <2>4 DEF Spent
  <2>7. ASSUME NEW t \in Installers, SnapshotHolds(t)'
        PROVE  Spent(hook)'
    <3>1. /\ installer[t].ino = Fresh /\ installer[t].content \in Contents
          /\ c = [installer[t].content EXCEPT !.exec = c.exec]
      BY <1>0, <1>t, <2>1, <2>2, <2>7 DEF SnapshotHolds, SameFile, Session
    <3>2. c.text = installer[t].content.text
      BY <3>1 DEF Contents
    <3> QED
      BY <1>0, <1>t, <2>1, <2>2, <3>2 DEF Spent
  <2>8. ASSUME NEW t \in Installers
        PROVE  /\ installer[t].made => Kept \subseteq Held(hook)
               /\ AtStep(t, {"snapshot"}) \/ AtStep(t, {"replace"}) => InHookWindow
    BY <1>t, <1>w DEF Facts, Undoable, AtStep
  <2>9. \A t \in Installers : Facts(t)'
    BY <1>f, <2>5, <2>6, <2>7, <2>8
  <2>10. \A j \in Inodes : file'[j].text <= acts'
    BY <1>0, <1>a, <2>2
  <2> QED
    BY <2>5, <2>9, <2>10
<1>3. CASE RemoveHook
  <2>1. /\ hook' = NoFile /\ UNCHANGED <<backup, file>>
        /\ UserActs(own \ Held(hook), {})
    BY <1>3 DEF RemoveHook
  <2>2. Held(backup)' = Held(backup) /\ Held(hook)' = {}
    BY <1>h, <2>1
  <2>3. own' = (own \ Held(hook)) \cup (UserHooks' \ UserHooks)
    BY <2>1 DEF UserActs
  <2>4. /\ Kept' \subseteq UserHooks'
        /\ Kept \subseteq Held(hook) => Kept' \subseteq Held(hook)'
    BY <1>b, <1>k, <2>2, <2>3 DEF Kept
  <2>5. Spent(hook)'
    BY <2>1 DEF Spent
  <2>6. \A t \in Installers : installer[t].made => Kept \subseteq Held(hook)
    BY <1>t DEF Facts, Undoable
  <2>7. \A t \in Installers : Facts(t)'
    BY <1>f, <2>4, <2>5, <2>6
  <2> QED
    BY <1>0, <1>a, <2>1, <2>4, <2>7
<1>4. CASE PutBackup
  <2>1. PICK c \in Written :
             /\ file' = [file EXCEPT ![Fresh] = c]
             /\ backup' = Fresh /\ UNCHANGED hook
             /\ UserActs(own, IF InBackupWindow THEN {Fresh} ELSE {})
    BY <1>4 DEF PutBackup
  <2>2. /\ \A j \in Inodes \ {Fresh} : file'[j] = file[j]
        /\ file'[Fresh] = c /\ c.text \in {0, acts + 1}
        /\ backup = NoFile
    BY <1>0, <1>4, <2>1 DEF Written, Dispatcher, PutBackup
  <2>3. Held(hook)' = Held(hook) /\ Held(backup) = {}
    BY <1>0, <1>h, <2>1, <2>2 DEF Held
  <2>4. /\ own' = own \cup (UserHooks' \ UserHooks)
        /\ InBackupWindow => file'[Fresh].text \in risked'
    BY <1>0, <2>1 DEF UserActs
  <2>5. Kept' \subseteq UserHooks'
    BY <1>b, <1>k, <2>3, <2>4 DEF Kept
  <2>6. /\ Spent(hook) => Spent(hook)'
        /\ \A t \in Installers : SnapshotHolds(t)' => SnapshotHolds(t)
        /\ hook = backup => Spent(hook)
    <3>1. hook # NoFile => file'[hook] = file[hook]
      BY <1>0, <2>2
    <3> QED
      BY <1>b, <1>t, <2>1, <2>2, <3>1 DEF Spent, SnapshotHolds, SameFile
  <2>7. ASSUME NEW t \in Installers, installer[t].made
        PROVE  Kept' \subseteq Held(hook)'
    <3>1. InBackupWindow /\ Kept \subseteq Held(hook)
      BY <1>t, <1>w, <2>7 DEF Facts, Undoable
    <3>2. \A h \in Held(backup)' : h.text \in risked'
      BY <2>1, <2>4, <3>1 DEF Held, Hook
    <3> QED
      BY <1>b, <1>k, <2>3, <2>4, <3>1, <3>2 DEF Kept
  <2>8. \A t \in Installers : Facts(t)'
    BY <1>f, <2>1, <2>6, <2>7
  <2>9. \A j \in Inodes : file'[j].text <= acts'
    BY <1>0, <1>a, <2>2
  <2> QED
    BY <2>5, <2>8, <2>9
<1>5. CASE RemoveBackup
  <2>1. /\ backup' = NoFile /\ UNCHANGED <<hook, file>>
        /\ UserActs(IF hook = backup THEN own ELSE own \ Held(backup),
                    IF InBackupWindow THEN {hook} ELSE {})
    BY <1>5 DEF RemoveBackup
  <2>2. Held(hook)' = Held(hook) /\ Held(backup)' = {}
    BY <1>h, <2>1
  <2>3. /\ own' \subseteq own /\ (hook # backup => own' \subseteq own \ Held(backup))
        /\ InBackupWindow /\ hook # NoFile => file'[hook].text \in risked'
    BY <1>k, <2>1, <2>2 DEF UserActs
  <2>4. /\ Kept' \subseteq UserHooks'
        /\ Kept \subseteq Held(hook) => Kept' \subseteq Held(hook)'
    BY <1>b, <1>k, <2>2, <2>3 DEF Kept
  <2>5. /\ Spent(hook) => Spent(hook)'
        /\ InBackupWindow => Spent(hook)'
        /\ \A t \in Installers : SnapshotHolds(t)' => SnapshotHolds(t)
    BY <1>b, <1>t, <2>1, <2>3 DEF Spent, SnapshotHolds, SameFile
  <2>6. ASSUME NEW t \in Installers
        PROVE  /\ installer[t].made => Kept \subseteq Held(hook)
               /\ (AtStep(t, {"verify"}) \/ AtStep(t, {"replace"})) /\ installer[t].state = "user-hook"
                  => InBackupWindow
    BY <1>t, <1>w DEF Facts, Undoable, AtStep
  <2>7. \A t \in Installers : Facts(t)'
    BY <1>f, <2>1, <2>4, <2>5, <2>6
  <2> QED
    BY <1>0, <1>a, <2>1, <2>4, <2>7
<1> QED
  BY <1>1, <1>2, <1>3, <1>4, <1>5 DEF UserStep

LEMMA HookInitial == HookInit => HookInv
<1> SUFFICES ASSUME HookInit
             PROVE  HookInv
  OBVIOUS
<1>1. StageInv
  BY StageInitial
<1>2. ASSUME NEW s \in Installers
      PROVE  Facts(s)
  <2>1. /\ installer[s].pc = "idle" /\ ~installer[s].made /\ installer[s].ino = NoFile
        /\ installer[s].content.text = 0 /\ acts = 0
    BY IdleTyped DEF HookInit
  <2> QED
    BY <2>1 DEF Facts, Branch, Undoable, Unread, Dated, Seen, Conditioned, Backed, Replaceable, AtStep
<1>3. \A i \in Inodes : file[i].text <= acts
  BY DEF HookInit, Dispatcher
<1>4. Kept \subseteq UserHooks
  BY DEF HookInit, Kept
<1> QED
  BY <1>1, <1>2, <1>3, <1>4 DEF HookInv

LEMMA HookInductive == HookInv /\ [HookNext]_hookVars => HookInv'
<1> SUFFICES ASSUME HookInv, [HookNext]_hookVars
             PROVE  HookInv'
  OBVIOUS
<1>1. StageInv'
  BY StageInductive DEF HookInv
<1>2. UserHooks' = Held(hook)' \cup Held(backup)'
  <2>1. StageInv' => (UserHooks = Held(hook) \cup Held(backup))'
    BY HeldByPaths, PTL
  <2> QED
    BY <1>1, <2>1
<1>3. CASE UNCHANGED hookVars
  BY <1>3 DEF HookInv, StageInv, HookTypeOK, hookVars, Facts, Branch, Undoable, Unread, Dated, Seen,
              Kept, Spent, SnapshotHolds, SameFile, Conditioned, Backed, Replaceable, AtStep, Held, Hook, UserHooks, UserFiles,
              Busy, Staged, OpenedFile
<1>4. CASE UserStep
  BY <1>1, <1>2, <1>4, UserFacts DEF HookInv
<1>5. ASSUME NEW s \in Installers, Install(s)
      PROVE  HookInv'
  <2>1. /\ Facts(s)' /\ Kept' \subseteq UserHooks'
        /\ \A t \in Installers \ {s} : installer'[t] = installer[t]
        /\ Busy(s) \/ UNCHANGED <<hook, backup, file>>
        /\ UNCHANGED <<own, risked, acts>>
    BY <1>2, <1>5, InstallFacts, InstallQuiet
  <2>2. \A t \in Installers \ {s} : Facts(t)'
    BY <2>1, OthersUndisturbed
  <2>3. \A i \in Inodes : file'[i].text = file[i].text \/ file'[i].text = 0
    <3>1. \/ file' = file \/ file' = [file EXCEPT ![Fresh] = Dispatcher(TRUE)]
          \/ \E i \in Inodes : file' = [file EXCEPT ![i].exec = TRUE]
      BY <1>5, SessionTyped
         DEF HookInv, StageInv, OpenedFile, AtStep, Install, Resolve, AcquirePostRewriteLock, Inspect,
             OpenDispatcher, RepairMode, Snapshot, WriteTemp, LinkBackup, CheckBackup, VerifySnapshot,
             ReplaceHookFile
    <3> QED
      BY <3>1 DEF HookInv, StageInv, HookTypeOK, Contents, Dispatcher
  <2>4. \A i \in Inodes : file'[i].text <= acts'
    BY <2>1, <2>3, HookAssumption DEF HookInv, StageInv, HookTypeOK
  <2> QED
    BY <1>1, <2>1, <2>2, <2>4 DEF HookInv
<1>6. ASSUME NEW s \in Installers, Die(s)
      PROVE  HookInv'
  <2> DEFINE next == [Idle EXCEPT !.pc = "done"]
  <2>1. next.pc = "done" /\ next.made = FALSE /\ next.content.text = 0
    <3>1. next = [Idle EXCEPT !.pc = "done", !.report = "none"]
      BY IdleTyped DEF Session
    <3> HIDE DEF next
    <3> QED
      BY <3>1, IdleTyped DEF Reports
  <2>2. installer' = [installer EXCEPT ![s] = next]
    BY <1>6 DEF Die, Step
  <2> HIDE DEF next
  <2>3. installer'[s] = next /\ \A t \in Installers \ {s} : installer'[t] = installer[t]
    BY <2>2, SessionTyped DEF HookInv
  <2>4. UNCHANGED <<hook, backup, file, own, risked, acts>>
    BY <1>6 DEF Die
  <2>5. Facts(s)'
    <3>1. Dated(s)'
      BY <2>1, <2>3, <2>4, HookAssumption DEF HookInv, StageInv, HookTypeOK, Dated
    <3> QED
      BY <2>1, <2>3, <3>1, NothingTrusted
  <2>6. \A t \in Installers \ {s} : Facts(t)'
    BY <2>3, <2>4, OthersUndisturbed
  <2>7. Kept' \subseteq UserHooks'
    BY <2>4 DEF HookInv, Kept, UserHooks, UserFiles
  <2> QED
    BY <1>1, <2>4, <2>5, <2>6, <2>7 DEF HookInv
<1> QED
  BY <1>3, <1>4, <1>5, <1>6 DEF HookNext

\* No run of InstallPostRewrite, however many race and wherever one is killed,
\* loses a hook that the user put where an installer still looks: the rename
\* drops only what is backed up or not the user's, and a failure takes back only
\* a link it made itself.
THEOREM UserHookIsKept == HookSpec => []UserHookSurvives
<1>1. HookInv => UserHookSurvives
  BY DEF HookInv, StageInv, UserHookSurvives
<1> QED
  BY <1>1, HookInitial, HookInductive, PTL DEF HookSpec

-----------------------------------------------------------------------------
(***************************************************************************)
(* Provision                                                               *)
(***************************************************************************)
\* A provisioner that goes on to copy has found the copy wanting and the binary
\* on PATH good, unless it missed a change of one of them; and what it renames is
\* what it read there, unless another one had bin/sdd.tmp open with it.
Looked(p) ==
    /\ prov[p].pc = "path" => prov[p].source = NoBinary
    /\ \/ prov[p].source = NoBinary /\ prov[p].pc # "idle"
       \/ prov[p].pc \in {"open", "write", "rename"}
       => (Admitted(copy) => "copy" \in prov[p].missed)
    /\ prov[p].source = NoBinary
         /\ prov[p].pc \in {"hooks", "hooksTmp", "hooksRename", "hooksRemove", "read"}
       => Admitted(onPath) \/ "path" \in prov[p].missed
    /\ prov[p].pc \in {"open", "write", "rename"}
       => prov[p].source # NoBinary /\ (Admitted(prov[p].source) \/ "path" \in prov[p].missed)

StagedWell(p) ==
    /\ prov[p].pc = "write" /\ "tmp" \notin prov[p].missed
       => \/ prov[p].into = "staged"
          \/ prov[p].into = "lost" /\ tmp = NoBinary
    /\ prov[p].pc = "rename" /\ "tmp" \notin prov[p].missed
       => tmp \in {prov[p].source, NoBinary}
    /\ prov[p].pc = "write" /\ prov[p].into = "placed" => "copy" \in prov[p].missed
    /\ \A q \in Provisioners \ {p} :
          prov[p].pc \in {"write", "rename"} /\ prov[q].pc \in {"write", "rename"}
          => "tmp" \in prov[p].missed

ProvisionInv ==
    /\ ProvisionTypeOK
    /\ \A p \in Provisioners : Looked(p) /\ StagedWell(p)

LEMMA ProvisionInitial == ProvisionInit => ProvisionInv
BY ProvisionAssumption
   DEF ProvisionInit, ProvisionInv, ProvisionTypeOK, Places, Asleep, Documents, Looked, StagedWell

Provisioning ==
    [pc : {"idle", "path", "hooks", "hooksTmp", "hooksRename", "hooksRemove",
           "read", "open", "write", "rename", "remove"},
     source : Places, into : {"staged", "placed", "lost"},
     missed : SUBSET {"copy", "path", "tmp"}]

LEMMA AsleepTyped ==
  /\ Asleep \in Provisioning /\ Asleep.pc = "idle"
BY DEF Asleep, Provisioning, Places

\* Missing something leaves a provisioner where it is.
LEMMA MissedType ==
  ASSUME prov \in [Provisioners -> Provisioning], NEW P, NEW what \in {"copy", "path", "tmp"}
  PROVE  /\ Missed(P, what) \in [Provisioners -> Provisioning]
         /\ \A p \in Provisioners :
               /\ Missed(P, what)[p].pc = prov[p].pc
               /\ Missed(P, what)[p].source = prov[p].source
               /\ Missed(P, what)[p].into = prov[p].into
               /\ prov[p].missed \subseteq Missed(P, what)[p].missed
               /\ p \in P => what \in Missed(P, what)[p].missed
               /\ p \notin P => Missed(P, what)[p] = prov[p]
               /\ \A w \in {"copy", "path", "tmp"} \ {what} :
                     w \in Missed(P, what)[p].missed <=> w \in prov[p].missed
BY DEF Provisioning, Missed

LEMMA ProvisionInductive ==
  ASSUME ProvisionInv, [ProvisionNext]_provisionVars
  PROVE  ProvisionInv'
<1>0. /\ prov \in [Provisioners -> Provisioning]
      /\ copy \in Places /\ onPath \in Places /\ tmp \in Places
      /\ \A p \in Provisioners : Looked(p) /\ StagedWell(p)
  BY DEF ProvisionInv, ProvisionTypeOK, Provisioning
<1>t. ASSUME prov' \in [Provisioners -> Provisioning],
             {copy', tmp'} \subseteq Places,
             UNCHANGED <<floor, onPath, hooksJson, hooksTmp, changes, kills>>
      PROVE  ProvisionTypeOK'
  BY <1>t DEF ProvisionInv, ProvisionTypeOK, Provisioning
<1>1. ASSUME NEW p \in Provisioners, ProbeCopy(p)
      PROVE  ProvisionInv'
  <2> DEFINE r == [prov[p] EXCEPT !.pc = IF Admitted(copy) THEN "hooks" ELSE "path",
                                  !.source = IF Admitted(copy) THEN copy ELSE NoBinary]
  <2>1. r \in Provisioning /\ r.missed = prov[p].missed
        /\ r.pc = (IF Admitted(copy) THEN "hooks" ELSE "path")
        /\ r.source = (IF Admitted(copy) THEN copy ELSE NoBinary)
    BY <1>0 DEF Provisioning, Admitted, Places
  <2>2. prov' = [prov EXCEPT ![p] = r]
        /\ UNCHANGED <<floor, copy, onPath, tmp, hooksJson, hooksTmp, changes, kills>>
    BY <1>1 DEF ProbeCopy
  <2>a. prov[p].pc = "idle"
    BY <1>1 DEF ProbeCopy, At
  <2> HIDE DEF r
  <2>3. prov' \in [Provisioners -> Provisioning] /\ prov'[p] = r
        /\ \A q \in Provisioners \ {p} : prov'[q] = prov[q]
    BY <1>0, <2>1, <2>2
  <2>4. ASSUME NEW q \in Provisioners
        PROVE  Looked(q)' /\ StagedWell(q)'
    BY <1>0, <2>1, <2>2, <2>3, <2>a DEF Admitted, Looked, StagedWell
  <2>5. ProvisionTypeOK'
    BY <1>0, <1>t, <2>2, <2>3
  <2> QED
    BY <2>4, <2>5 DEF ProvisionInv
<1>2. ASSUME NEW p \in Provisioners, ProbePath(p)
      PROVE  ProvisionInv'
  BY ProvisionAssumption, <1>2
     DEF ProbePath, ProvisionInv, ProvisionTypeOK, Looked, StagedWell, At, To, Stop, Asleep, Admitted, Places
<1>3. ASSUME NEW p \in Provisioners, InstallHooks(p)
      PROVE  ProvisionInv'
  BY ProvisionAssumption, <1>3
     DEF InstallHooks, ProvisionInv, ProvisionTypeOK, Looked, StagedWell, At, To, Stop, Asleep, Admitted, Places, Documents
<1>4. ASSUME NEW p \in Provisioners, WriteHooks(p)
      PROVE  ProvisionInv'
  BY ProvisionAssumption, <1>4
     DEF WriteHooks, ProvisionInv, ProvisionTypeOK, Looked, StagedWell, At, To, Stop, Asleep, Admitted, Places, Documents
<1>5. ASSUME NEW p \in Provisioners, RenameHooks(p)
      PROVE  ProvisionInv'
  BY ProvisionAssumption, <1>5
     DEF RenameHooks, ProvisionInv, ProvisionTypeOK, Looked, StagedWell, At, To, Stop, Asleep, Moved, Admitted, Places, Documents
<1>6. ASSUME NEW p \in Provisioners, RemoveHooksTmp(p)
      PROVE  ProvisionInv'
  BY ProvisionAssumption, <1>6
     DEF RemoveHooksTmp, ProvisionInv, ProvisionTypeOK, Looked, StagedWell, At, To, Stop, Asleep, Removed, Admitted, Places, Documents
<1>7. ASSUME NEW p \in Provisioners, ReadSource(p)
      PROVE  ProvisionInv'
  BY ProvisionAssumption, <1>7
     DEF ReadSource, ProvisionInv, ProvisionTypeOK, Looked, StagedWell, At, To, Stop, Asleep, Admitted, Places
<1>8. ASSUME NEW p \in Provisioners, OpenTmp(p)
      PROVE  ProvisionInv'
  <2> DEFINE S == IF Staging = {} THEN {} ELSE Staging \cup {p}
             m == Missed(S, "tmp")
             b == [prov[p].source EXCEPT !.state = "broken"]
             r == [m[p] EXCEPT !.pc = "write", !.into = "staged"]
  <2>1. /\ prov[p].pc = "open" /\ tmp' = b /\ prov' = [m EXCEPT ![p] = r]
        /\ UNCHANGED <<floor, copy, onPath, hooksJson, hooksTmp, changes, kills>>
    BY <1>8 DEF OpenTmp, At
  <2>2. b \in Places
    BY <1>0, <2>1 DEF Provisioning, Places, Binaries, Looked
  <2>3. \A q \in Provisioners : prov[q].pc \in {"write", "rename"} => q \in S /\ p \in S
    BY DEF Staging
  <2> HIDE DEF S, b
  <2>4. /\ m \in [Provisioners -> Provisioning]
        /\ \A q \in Provisioners :
              /\ m[q].pc = prov[q].pc /\ m[q].source = prov[q].source /\ m[q].into = prov[q].into
              /\ q \in S => "tmp" \in m[q].missed
              /\ prov[q].missed \subseteq m[q].missed
    BY <1>0, MissedType
  <2> HIDE DEF m
  <2>5. r \in Provisioning /\ r.pc = "write" /\ r.into = "staged"
        /\ r.source = m[p].source /\ r.missed = m[p].missed
    BY <2>4 DEF Provisioning
  <2> HIDE DEF r
  <2>6. /\ prov' \in [Provisioners -> Provisioning] /\ prov'[p] = r
        /\ \A q \in Provisioners \ {p} : prov'[q] = m[q]
    BY <2>1, <2>4, <2>5
  <2>7. ASSUME NEW q \in Provisioners
        PROVE  Looked(q)'
    BY <1>0, <2>1, <2>4, <2>5, <2>6 DEF Admitted, Looked
  <2>8. ASSUME NEW q \in Provisioners
        PROVE  StagedWell(q)'
    BY <1>0, <2>1, <2>3, <2>4, <2>5, <2>6 DEF StagedWell
  <2>9. ProvisionTypeOK'
    BY <1>0, <1>t, <2>1, <2>2, <2>6
  <2> QED
    BY <2>7, <2>8, <2>9 DEF ProvisionInv
<1>9. ASSUME NEW p \in Provisioners, WriteTmp(p)
      PROVE  ProvisionInv'
  <2> DEFINE P == IF copy' # copy THEN Running \ {p} ELSE {}
             m == Missed(P, "copy")
             r == [m[p] EXCEPT !.pc = "rename", !.into = "lost"]
  <2>a. /\ \A q \in Provisioners \ {p} : copy' # copy /\ prov[q].pc # "idle" => q \in P
        /\ copy' = copy => P = {}
    BY DEF Running, At
  <2>1. PICK b \in {prov[p].source, [prov[p].source EXCEPT !.state = "broken"]} :
          /\ tmp' = IF prov[p].into = "staged" THEN b ELSE tmp
          /\ copy' = IF prov[p].into = "placed" THEN b ELSE copy
          /\ \/ (b = prov[p].source \/ "tmp" \in prov[p].missed) /\ prov' = [m EXCEPT ![p] = r]
             \/ prov' = [m EXCEPT ![p] = Asleep]
    BY <1>9 DEF WriteTmp, Stop
  <2> HIDE DEF P
  <2>2. prov[p].pc = "write" /\ UNCHANGED <<floor, onPath, hooksJson, hooksTmp, changes, kills>>
    BY <1>9 DEF WriteTmp, At
  <2>3. b \in Places
    BY <1>0, <2>1, <2>2 DEF Provisioning, Places, Binaries, Looked
  <2>4. /\ m \in [Provisioners -> Provisioning]
        /\ \A q \in Provisioners :
              /\ m[q].pc = prov[q].pc /\ m[q].source = prov[q].source /\ m[q].into = prov[q].into
              /\ q \in P => "copy" \in m[q].missed
              /\ prov[q].missed \subseteq m[q].missed
              /\ \A w \in {"path", "tmp"} : w \in m[q].missed <=> w \in prov[q].missed
    BY <1>0, MissedType
  <2> HIDE DEF m
  <2>6. r \in Provisioning /\ r.pc = "rename" /\ r.into = "lost"
        /\ r.source = m[p].source /\ r.missed = m[p].missed
    <3>1. m[p] \in Provisioning
      BY <2>4
    <3> QED
      BY <3>1 DEF Provisioning
  <2> HIDE DEF r
  <2>7. /\ prov' \in [Provisioners -> Provisioning]
        /\ \A q \in Provisioners \ {p} : prov'[q] = m[q]
        /\ \/ (b = prov[p].source \/ "tmp" \in prov[p].missed) /\ prov'[p] = r
           \/ prov'[p] = Asleep
    BY <2>1, <2>4, <2>6, AsleepTyped
  <2>8. ASSUME NEW q \in Provisioners
        PROVE  Looked(q)'
    <3>1. CASE q = p
      BY <1>0, <2>1, <2>2, <2>4, <2>6, <2>7, <3>1, AsleepTyped DEF Admitted, Looked, StagedWell, Asleep
    <3>2. CASE q # p
      BY <1>0, <2>1, <2>2, <2>4, <2>a, <2>7, <3>2 DEF Admitted, Looked
    <3> QED
      BY <3>1, <3>2
  <2>9. ASSUME NEW q \in Provisioners
        PROVE  StagedWell(q)'
    <3>1. CASE q = p
      BY <1>0, <2>1, <2>2, <2>4, <2>6, <2>7, <3>1, AsleepTyped DEF StagedWell
    <3>2. CASE q # p
      BY <1>0, <2>1, <2>2, <2>4, <2>6, <2>7, <3>2, AsleepTyped DEF StagedWell
    <3> QED
      BY <3>1, <3>2
  <2>10. ProvisionTypeOK'
    BY <1>0, <1>t, <2>1, <2>2, <2>3, <2>7
  <2> QED
    BY <2>8, <2>9, <2>10 DEF ProvisionInv
<1>10. ASSUME NEW p \in Provisioners, RenameTmp(p)
       PROVE  ProvisionInv'
  <2> DEFINE P == Running \ {p}
             m == Missed(P, "copy")
             f == [m EXCEPT ![p] = Asleep]
  <2>1. prov[p].pc = "rename" /\ UNCHANGED <<floor, onPath, hooksJson, hooksTmp, changes, kills>>
    BY <1>10 DEF RenameTmp, At
  <2>2. CASE copy' = tmp /\ tmp' = NoBinary /\ prov' = Moved(f, "write")
    <3>0. \A q \in Provisioners \ {p} : prov[q].pc # "idle" => q \in P
      BY DEF Running, At
    <3> HIDE DEF P
    <3>1. /\ m \in [Provisioners -> Provisioning]
          /\ \A q \in Provisioners :
                /\ m[q].pc = prov[q].pc /\ m[q].source = prov[q].source /\ m[q].into = prov[q].into
                /\ q \in P => "copy" \in m[q].missed
                /\ prov[q].missed \subseteq m[q].missed
                /\ \A w \in {"path", "tmp"} : w \in m[q].missed <=> w \in prov[q].missed
      BY <1>0, MissedType
    <3>2. \A q \in Provisioners \ {p} : prov[q].pc # "idle" => "copy" \in m[q].missed
      BY <3>0, <3>1
    <3> HIDE DEF m
    <3>3. /\ f \in [Provisioners -> Provisioning] /\ f[p] = Asleep
          /\ \A q \in Provisioners \ {p} : f[q] = m[q]
      BY <3>1, AsleepTyped
    <3> HIDE DEF f
    <3>4. /\ prov' \in [Provisioners -> Provisioning]
          /\ \A q \in Provisioners :
                /\ prov'[q].pc = f[q].pc /\ prov'[q].source = f[q].source
                /\ prov'[q].missed = f[q].missed
                /\ prov'[q].pc # "write" => prov'[q] = f[q]
      BY <2>2, <3>3 DEF Moved, Provisioning
    <3>5. ASSUME NEW q \in Provisioners
          PROVE  Looked(q)' /\ StagedWell(q)'
      <4>1. CASE q = p
        BY <1>0, <2>1, <2>2, <3>3, <3>4, <4>1, AsleepTyped DEF Admitted, Looked, StagedWell, Asleep
      <4>2. CASE q # p
        <5>1. Looked(q)'
          BY <1>0, <2>1, <2>2, <3>1, <3>2, <3>3, <3>4, <4>2 DEF Admitted, Looked
        <5>2. StagedWell(q)'
          BY <1>0, <2>1, <2>2, <3>1, <3>2, <3>3, <3>4, <4>2, AsleepTyped DEF StagedWell
        <5> QED
          BY <5>1, <5>2
      <4> QED
        BY <4>1, <4>2
    <3>6. NoBinary \in Places
      BY DEF Places
    <3>7. ProvisionTypeOK'
      BY <1>0, <1>t, <2>1, <2>2, <3>4, <3>6
    <3> QED
      BY <3>5, <3>7 DEF ProvisionInv
  <2>3. CASE UNCHANGED <<copy, tmp>> /\ To(p, "remove")
    <3>1. /\ prov' \in [Provisioners -> Provisioning] /\ prov'[p].pc = "remove"
          /\ prov'[p].missed = prov[p].missed /\ prov'[p].source = prov[p].source
          /\ \A q \in Provisioners \ {p} : prov'[q] = prov[q]
      BY <1>0, <2>3 DEF To, Provisioning
    <3>2. ASSUME NEW q \in Provisioners
          PROVE  Looked(q)' /\ StagedWell(q)'
      BY <1>0, <2>1, <2>3, <3>1 DEF Admitted, Looked, StagedWell
    <3>3. ProvisionTypeOK'
      BY <1>0, <1>t, <2>1, <2>3, <3>1
    <3> QED
      BY <3>2, <3>3 DEF ProvisionInv
  <2> QED
    BY <1>10, <2>2, <2>3 DEF RenameTmp
<1>11. ASSUME NEW p \in Provisioners, RemoveTmp(p)
       PROVE  ProvisionInv'
  BY ProvisionAssumption, <1>11
     DEF RemoveTmp, ProvisionInv, ProvisionTypeOK, Looked, StagedWell, At, To, Stop, Asleep, Removed, Admitted, Places
<1>12. ASSUME NEW p \in Provisioners, Kill(p)
       PROVE  ProvisionInv'
  BY ProvisionAssumption, <1>12
     DEF Kill, ProvisionInv, ProvisionTypeOK, Looked, StagedWell, At, To, Stop, Asleep, Admitted, Places
<1>13. CASE UpgradePath
  BY ProvisionAssumption, <1>13
     DEF UpgradePath, ProvisionInv, ProvisionTypeOK, Looked, StagedWell, At, Missed, Admitted, Places
<1>14. CASE UpgradePlugin
  BY ProvisionAssumption, <1>14
     DEF UpgradePlugin, ProvisionInv, ProvisionTypeOK, Looked, StagedWell, At, Admitted, Places, Documents
<1>15. CASE UNCHANGED provisionVars
  BY <1>15 DEF provisionVars, ProvisionInv, ProvisionTypeOK, Looked, StagedWell, Admitted
<1> QED
  BY <1>1, <1>2, <1>3, <1>4, <1>5, <1>6, <1>7, <1>8, <1>9, <1>10, <1>11, <1>12, <1>13, <1>14, <1>15
     DEF ProvisionNext, ProvisionStep

\* The copy that hooks run changes only with a plugin upgrade, or to what a
\* provisioner read on PATH: in the place of a copy the floor rejects unless it
\* missed a change of the copy, with one it admits unless it missed a change of
\* the binary on PATH, and whatever it likes only if it shared bin/sdd.tmp.
THEOREM AdmittedCopyStays == ProvisionSpec => CopyStaysAdmitted
<1>1. ProvisionSpec => []ProvisionInv
  BY ProvisionInitial, ProvisionInductive, PTL DEF ProvisionSpec
<1>2. ASSUME ProvisionInv, ProvisionInv', [ProvisionNext]_provisionVars
      PROVE  [/\ ProvisionTypeOK'
              /\ copy' # copy /\ changes' = changes =>
                   \E p \in Provisioners :
                      prov'[p].pc # prov[p].pc
                      /\ ("tmp" \in prov[p].missed \/ Replaces(p))]_provisionVars
  <2> USE DEF ProvisionInv, ProvisionTypeOK, At, To
  <2>1. ProvisionTypeOK'
    BY <1>2
  <2>2. CASE UpgradePlugin
    BY <2>1, <2>2, <1>2, ProvisionAssumption DEF UpgradePlugin
  <2>3. ASSUME NEW p \in Provisioners, RenameTmp(p), copy' # copy
        PROVE  prov'[p].pc # prov[p].pc /\ ("tmp" \in prov[p].missed \/ Replaces(p))
    <3>1. prov[p].pc = "rename" /\ prov'[p].pc = "idle" /\ tmp # NoBinary /\ copy' = tmp /\ floor' = floor
      <4> DEFINE m == Missed(Running \ {p}, "copy")
                 f == [m EXCEPT ![p] = Asleep]
      <4>1. /\ prov[p].pc = "rename" /\ floor' = floor
            /\ tmp # NoBinary /\ copy' = tmp /\ prov' = Moved(f, "write")
        BY <2>3 DEF RenameTmp
      <4>2. f[p] = Asleep
        BY DEF Missed
      <4> HIDE DEF f
      <4>3. prov'[p] = Asleep
        BY <4>1, <4>2, AsleepTyped DEF Moved
      <4> QED
        BY <4>1, <4>3, AsleepTyped
    <3>2. ASSUME "tmp" \notin prov[p].missed
          PROVE  Replaces(p)
      BY <1>2, <3>1, <3>2 DEF Looked, StagedWell, Replaces, Admitted
    <3> QED
      BY <3>1, <3>2
  <2>4. ASSUME NEW p \in Provisioners, WriteTmp(p), copy' # copy
        PROVE  prov'[p].pc # prov[p].pc /\ "tmp" \in prov[p].missed
    BY <1>2, <2>4 DEF WriteTmp, Missed, StagedWell, Asleep
  <2>5. CASE UNCHANGED provisionVars
    BY <2>5
  <2>6. CASE copy' = copy
    BY <2>1, <2>6
  <2> QED
    BY <1>2, <2>1, <2>2, <2>3, <2>4, <2>5, <2>6
       DEF ProvisionNext, ProvisionStep, ProbeCopy, ProbePath, InstallHooks, WriteHooks, RenameHooks,
           RemoveHooksTmp, ReadSource, OpenTmp, RemoveTmp, Kill, UpgradePath
<1> QED
  BY <1>1, <1>2, PTL DEF ProvisionSpec, CopyStaysAdmitted

-----------------------------------------------------------------------------
(***************************************************************************)
(* ProcExec                                                                *)
(***************************************************************************)
Flags == [swept : BOOLEAN, cleaned : BOOLEAN, delay : BOOLEAN, torn : BOOLEAN,
          contain : BOOLEAN, drain : BOOLEAN, cancelled : BOOLEAN, late : BOOLEAN]

\* a context was cancelled by somebody, and output is dropped only on overflow
ContextsExplained ==
    /\ overflow => sent > Limit /\ runCtx # "live"
    /\ ~overflow => got <= sent
    /\ runCtx = "cancelled" => caller \/ overflow

\* a command that was killed is reported for the reason it was killed
CodeExplained ==
    /\ code = "none" <=> leader \in {"unborn", "suspended", "running"}
    /\ code = "killed" => runCtx # "live" \/ flags.contain
                          \/ result \in {"containment", "cancelled", "deadline"}

BeforeItRan ==
    leader \in {"unborn", "suspended"} => sent = 0 /\ \A d \in Descendants : desc[d] = "unborn"

\* where the command is at each step of either runner
LeaderAt ==
    /\ pc = "start" => leader = "unborn"
    /\ pc \in {"assign", "resume"} => leader = "suspended"
    /\ pc \in {"await", "wait", "loop"} => leader \in {"running", "zombie"}
    /\ pc \in {"sweep", "join"} => leader = "zombie"
    /\ pc \in {"handOver", "drain", "cleanup", "signalled"} => leader = "reaped"
    /\ pc \in {"query", "empty", "close"} => leader = "zombie" \/ (leader = "running" /\ flags.contain)
    /\ pc = "classify" => leader \in {"zombie", "reaped"}
    /\ pc = "done" => leader \in {"unborn", "zombie", "reaped"}

\* the cause is chosen after the output was collected, or an error was noted
Collected ==
    /\ flags.torn => pc \in {"cleanup", "signalled", "classify", "done"}
    /\ pc \in {"cleanup", "signalled"} => Copied \/ flags.torn
    /\ pc = "classify" => Copied \/ flags.drain \/ flags.torn

\* and after the tree was seen to be gone, or an error was noted
Swept ==
    /\ pc = "join" => Owned = {}
    /\ pc = "classify" => Owned = {} \/ flags.contain

NothingOwnedLeft == pc = "done" /\ result # "containment" => ~Alive /\ Owned = {}

OthersSpared ==
    /\ leader # "reaped" => stranger = "none"
    /\ flags.swept /\ ~flags.late => stranger # "killed"

ProcInv ==
    /\ ContextsExplained /\ CodeExplained /\ BeforeItRan /\ LeaderAt
    /\ Collected /\ Swept /\ OthersSpared
    /\ result = "none" <=> pc # "done"
    /\ ReportIsTrue /\ NothingOwnedLeft

LEMMA ProcInitial == ProcInit => ProcInv
<1> SUFFICES ASSUME ProcInit
             PROVE  ProcInv
  OBVIOUS
<1>1. flags \in Flags
  BY DEF ProcInit, NoFlags, Flags
<1>2. ~flags.swept /\ ~flags.torn /\ ~flags.contain /\ ~flags.late
  BY DEF ProcInit, NoFlags
<1>3. ProcTypeOK
  <2>1. desc \in [Descendants -> {"unborn", "owned", "escaped", "dead"}]
    BY DEF ProcInit
  <2>2. sent \in 0..MaxSent /\ got \in 0..Limit
    BY ProcAssumption DEF ProcInit
  <2>3. /\ adapter \in {"zombie", "reaped", "job"} /\ pc = "start" /\ leader = "unborn" /\ code = "none"
        /\ overflow = FALSE /\ caller = FALSE /\ runCtx = "live" /\ stranger = "none" /\ result = "none"
        /\ capture \in BOOLEAN
    BY DEF ProcInit
  <2> QED
    BY <1>1, <2>1, <2>2, <2>3 DEF ProcTypeOK, Flags
<1> QED
  BY <1>2, <1>3, ProcAssumption DEF ProcInit, ProcInv, ContextsExplained, CodeExplained, BeforeItRan,
                              LeaderAt, Collected, Swept, OthersSpared, ReportIsTrue, NothingOwnedLeft, Alive

LEMMA ProcInductive == ProcInv /\ [ProcNext]_procVars => ProcInv'
<1> SUFFICES ASSUME ProcInv, [ProcNext]_procVars
             PROVE  ProcInv'
  OBVIOUS
<1> USE ProcAssumption
<1> USE DEF ProcInv, ContextsExplained, CodeExplained, BeforeItRan, LeaderAt, Collected, Swept,
        OthersSpared, ReportIsTrue, NothingOwnedLeft, ProcTypeOK, Causes, Owned, Alive, Copied, Processes,
        Streams, Contexts, Call, World, Remember, Next_, Report, Flags
<1>1. CASE StartPosix
  BY <1>1 DEF StartPosix
<1>2. CASE AwaitExit
  BY <1>2 DEF AwaitExit
<1>3. CASE SweepGroup
  <2>1. /\ flags' \in Flags
        /\ flags'.contain = flags.contain /\ flags'.drain = flags.drain
        /\ flags'.torn = flags.torn /\ flags'.late = flags.late
    BY <1>3 DEF SweepGroup
  <2>2. UNCHANGED <<leader, code>> /\ desc' \in [Descendants -> {"unborn", "owned", "escaped", "dead"}]
    BY <1>3 DEF SweepGroup, KillOwned
  <2> QED
    BY <1>3, <2>1, <2>2 DEF SweepGroup
<1>4. CASE Reap
  BY <1>4 DEF Reap
<1>5. CASE HandOver
  BY <1>5 DEF HandOver
<1>6. CASE DrainPipes
  <2>1. /\ flags' \in Flags
        /\ flags'.contain = flags.contain /\ flags'.swept = flags.swept
        /\ flags'.late = flags.late
    BY <1>6 DEF DrainPipes
  <2>2. Copied' \/ flags'.torn
    BY <1>6 DEF DrainPipes, EndOfFile
  <2> QED
    BY <1>6, <2>1, <2>2 DEF DrainPipes
<1>7. CASE PollGroup
  <2>1. /\ flags' \in Flags /\ flags'.swept = flags.swept
        /\ flags.contain => flags'.contain
        /\ Owned = {} \/ flags'.contain
        /\ flags'.torn = flags.torn /\ flags'.late = flags.late
    BY <1>7 DEF PollGroup, GroupAnswers
  <2>2. (Copied' \/ flags'.torn) /\ Owned' = Owned
    BY <1>7, <2>1 DEF PollGroup
  <2> QED
    BY <1>7, <2>1, <2>2 DEF PollGroup
<1>8. CASE KillAfterReap
  <2>1. /\ flags' \in Flags /\ flags'.swept = flags.swept
        /\ flags.contain => flags'.contain
        /\ pc' = "classify" => Owned = {} \/ flags'.contain
        /\ flags'.torn = flags.torn /\ flags'.late = flags.late
    BY <1>8 DEF KillAfterReap, GroupAnswers
  <2>2. /\ Copied' \/ flags.torn
        /\ UNCHANGED <<leader, code>>
        /\ desc' \in [Descendants -> {"unborn", "owned", "escaped", "dead"}]
        /\ pc' = "classify" => desc' = desc
    BY <1>8 DEF KillAfterReap, KillGroupId, KillOwned
  <2>3. pc = "cleanup" /\ pc' \in {"classify", "signalled"} /\ leader = "reaped" /\ ~flags.swept
        /\ UNCHANGED <<adapter, capture, result, caller, runCtx, sent, got, overflow>>
        /\ stranger' \in {"none", "alive", "killed"}
    BY <1>8 DEF KillAfterReap, KillGroupId
  <2>4. ProcTypeOK'
    BY <2>1, <2>2, <2>3
  <2>5. ContextsExplained' /\ CodeExplained' /\ BeforeItRan' /\ LeaderAt' /\ Collected'
    BY <2>1, <2>2, <2>3
  <2>6. Swept' /\ OthersSpared'
    BY <2>1, <2>2, <2>3
  <2> QED
    BY <2>1, <2>2, <2>3, <2>4, <2>5, <2>6
<1>9. CASE PollSignalled
  <2>1. /\ flags' \in Flags /\ flags'.swept = flags.swept
        /\ flags.contain => flags'.contain
        /\ Owned = {} \/ flags'.contain
    BY <1>9 DEF PollSignalled, GroupAnswers
  <2> QED
    BY <1>9, <2>1 DEF PollSignalled
<1>10. CASE StartSuspended
  BY <1>10 DEF StartSuspended
<1>11. CASE AssignJob
  BY <1>11 DEF AssignJob, KillOwned
<1>12. CASE ResumeThread
  BY <1>12 DEF ResumeThread, KillOwned
<1>13. CASE LoopJob
  <2>1. /\ flags' \in Flags /\ flags'.swept = flags.swept
        /\ flags.contain => flags'.contain
        /\ pc' = "query" => leader = "zombie" \/ flags'.contain
        /\ flags'.torn = flags.torn /\ flags'.late = flags.late
    <3>1. \/ flags' = flags
          \/ flags' = [flags EXCEPT !.cancelled = TRUE]
          \/ flags' = [flags EXCEPT !.contain = TRUE]
      BY <1>13 DEF LoopJob
    <3>2. pc' = "query" => leader = "zombie" \/ flags' = [flags EXCEPT !.contain = TRUE]
      BY <1>13 DEF LoopJob
    <3> QED
      BY <3>1, <3>2
  <2>2. /\ desc' \in [Descendants -> {"unborn", "owned", "escaped", "dead"}]
        /\ \/ UNCHANGED <<leader, code>>
           \/ /\ runCtx # "live" /\ leader = "running" /\ leader' = "zombie" /\ code' = "killed"
    BY <1>13 DEF LoopJob, KillOwned
  <2>3. pc = "loop" /\ pc' \in {"loop", "query"}
        /\ UNCHANGED <<adapter, capture, result, caller, runCtx, sent, got, overflow, stranger>>
    BY <1>13 DEF LoopJob
  <2> QED
    BY <2>1, <2>2, <2>3
<1>14. CASE QueryJob
  <2>1. /\ flags' \in Flags /\ flags'.swept = flags.swept
        /\ flags'.contain = flags.contain
        /\ flags'.torn = flags.torn /\ flags'.late = flags.late
    BY <1>14 DEF QueryJob
  <2>2. /\ desc' \in [Descendants -> {"unborn", "owned", "escaped", "dead"}]
        /\ \/ UNCHANGED <<leader, code>>
           \/ /\ leader = "running" /\ leader' = "zombie" /\ code' = "killed"
    BY <1>14 DEF QueryJob, KillOwned
  <2>3. pc = "query" /\ pc' \in {"empty", "close"}
        /\ UNCHANGED <<adapter, capture, result, caller, runCtx, sent, got, overflow, stranger>>
    BY <1>14 DEF QueryJob
  <2> QED
    BY <2>1, <2>2, <2>3
<1>15. CASE PollJob
  <2>1. /\ flags' \in Flags /\ flags'.swept = flags.swept
        /\ flags.contain => flags'.contain
        /\ (Owned = {} /\ ~Alive) \/ flags'.contain
        /\ flags'.torn = flags.torn /\ flags'.late = flags.late
    BY <1>15 DEF PollJob
  <2>2. pc = "empty" /\ pc' = "close"
        /\ UNCHANGED <<adapter, capture, result, leader, code, desc, caller, runCtx, sent, got, overflow, stranger>>
    BY <1>15 DEF PollJob
  <2> QED
    BY <2>1, <2>2
<1>16. CASE CloseJob
  BY <1>16 DEF CloseJob, KillOwned
<1>17. CASE JoinStreams
  <2>1. /\ flags' \in Flags /\ flags'.swept = flags.swept
        /\ flags'.contain = flags.contain
        /\ Copied \/ flags'.drain
    BY <1>17 DEF JoinStreams, EndOfFile
  <2> QED
    BY <1>17, <2>1 DEF JoinStreams
<1>18. CASE Classify
  <2>1. /\ result' \in {"success"} \cup Causes
        /\ result' = "success" =>
              /\ ~overflow /\ ~flags.drain /\ ~flags.contain /\ ~caller /\ runCtx # "deadline"
              /\ (code = "zero" /\ ~flags.torn) \/ (capture /\ code # "zero")
        /\ result' = "exit" => ~capture /\ code # "zero" /\ ~overflow /\ ~caller /\ runCtx # "deadline" /\ ~flags.contain
        /\ result' = "overflow" => overflow
        /\ result' = "cancelled" => caller
        /\ result' = "deadline" => runCtx = "deadline"
        /\ flags.contain => result' = "containment"
    <3>0. flags \in Flags /\ overflow \in BOOLEAN /\ caller \in BOOLEAN /\ capture \in BOOLEAN
      OBVIOUS
    <3> HIDE DEF ProcInv, ContextsExplained, CodeExplained, BeforeItRan, LeaderAt, Collected, Swept,
                OthersSpared, ReportIsTrue, NothingOwnedLeft
    <3>1. result' = Cause
      BY <1>18 DEF Classify
    <3> QED
      BY <3>0, <3>1 DEF Cause
  <2>2. UNCHANGED <<adapter, capture, flags, stranger, leader, code, desc, sent, got, overflow, caller, runCtx>>
        /\ pc = "classify" /\ pc' = "done"
    BY <1>18 DEF Classify
  <2> QED
    BY <2>1, <2>2
<1>19. CASE Copy
  <2>1. /\ got < sent /\ ~overflow /\ pc \notin {"classify", "done"}
        /\ UNCHANGED <<adapter, capture, pc, sent, caller, flags, stranger, result, leader, code, desc>>
    BY <1>19 DEF Copy
  <2>2. CASE got + 1 > Limit
    <3>1. overflow' = TRUE /\ got' = 0 /\ runCtx' = (IF runCtx = "live" THEN "cancelled" ELSE runCtx)
      BY <1>19, <2>2 DEF Copy, CancelRunCtx
    <3> QED
      BY <2>1, <2>2, <3>1
  <2>3. CASE ~(got + 1 > Limit)
    <3>1. got' = got + 1 /\ UNCHANGED <<overflow, runCtx>>
      BY <1>19, <2>3 DEF Copy
    <3> QED
      BY <2>1, <2>3, <3>1
  <2> QED
    BY <2>2, <2>3
<1>20. CASE WatcherCancels
  <2>1. /\ flags' \in Flags /\ flags'.swept = flags.swept
        /\ flags'.contain = flags.contain /\ flags'.drain = flags.drain
    BY <1>20 DEF WatcherCancels
  <2>2. /\ desc' \in [Descendants -> {"unborn", "owned", "escaped", "dead"}]
        /\ \/ UNCHANGED <<leader, code>>
           \/ /\ runCtx # "live" /\ leader \in {"suspended", "running"}
              /\ leader' = "zombie" /\ code' = "killed"
    BY <1>20 DEF WatcherCancels, KillOwned, KillGroupId
  <2>3. /\ UNCHANGED <<adapter, capture, pc, result, caller, runCtx, sent, got, overflow>>
        /\ pc \in {"await", "sweep", "wait", "handOver"}
        /\ flags'.torn = flags.torn /\ flags'.late = (leader = "reaped")
        /\ stranger' = (IF stranger = "alive" THEN "killed" ELSE stranger)
    BY <1>20 DEF WatcherCancels, KillGroupId
  <2> QED
    BY <2>1, <2>2, <2>3
<1>21. CASE CallerCancels
  <2>1. /\ ~caller /\ caller' /\ pc # "done"
        /\ runCtx' = (IF runCtx = "live" THEN "cancelled" ELSE runCtx)
        /\ UNCHANGED <<adapter, capture, pc, flags, stranger, result, leader, code, desc, sent, got, overflow>>
    BY <1>21 DEF CallerCancels, CancelRunCtx
  <2> QED
    BY <2>1
<1>22. CASE DeadlineElapses
  BY <1>22 DEF DeadlineElapses, CancelRunCtx
<1>23. CASE LeaderWrites
  BY <1>23 DEF LeaderWrites
<1>24. CASE LeaderExits
  BY <1>24 DEF LeaderExits
<1>25. CASE RecycleId
  BY <1>25 DEF RecycleId
<1>26. ASSUME NEW d \in Descendants, Fork(d)
       PROVE  ProcInv'
  BY <1>26 DEF Fork
<1>27. ASSUME NEW d \in Descendants, DescendantMoves(d)
       PROVE  ProcInv'
  BY <1>27 DEF DescendantMoves
<1>28. CASE UNCHANGED procVars
  BY <1>28 DEF procVars
<1> QED
  BY <1>1, <1>2, <1>3, <1>4, <1>5, <1>6, <1>7, <1>8, <1>9, <1>10,
     <1>11, <1>12, <1>13, <1>14, <1>15, <1>16, <1>17, <1>18, <1>19, <1>20,
     <1>21, <1>22, <1>23, <1>24, <1>25, <1>26, <1>27, <1>28
     DEF ProcNext, Runner

\* Whatever came first, the exit, the deadline, the caller or the overflow, the
\* cause that a call returns took place, and a success carries all the output of
\* a command that exited zero by itself.
THEOREM ReportsAreTrue == ProcSpec => []ReportIsTrue
<1>1. ProcInv => ReportIsTrue
  BY DEF ProcInv
<1> QED
  BY <1>1, ProcInitial, ProcInductive, PTL DEF ProcSpec

\* No signal reaches a group that got the recycled id after the sweep, but one
\* that the watcher sends between the reap and the moment it is told to stop; and
\* a call that reports no containment failure leaves nothing behind.
THEOREM TreeIsContained == ProcSpec => []NothingOwnedSurvives
<1>1. ProcInv => NothingOwnedSurvives
  BY DEF ProcInv, NothingOwnedLeft, OthersSpared, NothingOwnedSurvives
<1> QED
  BY <1>1, ProcInitial, ProcInductive, PTL DEF ProcSpec

-----------------------------------------------------------------------------
(***************************************************************************)
(* Reachability, and the lineages validateRemapLineage lets through.       *)
(***************************************************************************)
\* A set that holds the roots and is closed under the rows.
Closed(S, roots, ps) == roots \subseteq S /\ \A p \in ps : p[1] \in S => p[2] \in S

\* What is reachable is in every closed set of revisions.
LEMMA ReachableLeast ==
  ASSUME NEW roots, NEW ps, NEW S \in SUBSET Revisions, Closed(S, roots, ps)
  PROVE  ReachableFrom(roots, ps) \subseteq S
BY DEF ReachableFrom, Closed

\* What is reachable is itself closed, as far as it stays within the revisions.
LEMMA ReachableClosed ==
  ASSUME NEW roots \in SUBSET Revisions, NEW ps \in SUBSET Pairs
  PROVE  /\ ReachableFrom(roots, ps) \in SUBSET Revisions
         /\ Closed(ReachableFrom(roots, ps), roots, ps)
BY DEF ReachableFrom, Closed, Pairs

\* More roots and more rows reach more.
LEMMA ReachableMonotone ==
  ASSUME NEW roots, NEW more, NEW ps, NEW qs, roots \subseteq more, ps \subseteq qs
  PROVE  ReachableFrom(roots, ps) \subseteq ReachableFrom(more, qs)
BY DEF ReachableFrom

\* A part of a valid lineage is a valid lineage.
LEMMA ValidPart ==
  ASSUME NEW ps, NEW qs, ps \subseteq qs, LineageValid(qs)
  PROVE  LineageValid(ps)
<1>1. \A p \in ps : ReachableFrom({p[2]}, ps) \subseteq ReachableFrom({p[2]}, qs)
  BY ReachableMonotone
<1> QED
  BY <1>1 DEF LineageValid

\* A valid lineage that binds each revision once is made of chains: following
\* it from a revision that is never left would be an injection of a finite set
\* into itself that misses nothing, and so would come back to where it began.
LEMMA ChainsEnd ==
  ASSUME IsFiniteSet(Revisions), NEW ps \in SUBSET Pairs,
         Functional(ps), LineageValid(ps), NEW r \in Revisions
  PROVE  ChainEnds(r, ps)
<1> DEFINE R == ReachableFrom({r}, ps)
           next == [x \in R |-> CHOOSE y \in Revisions : <<x, y>> \in ps]
<1>1. R \in SUBSET Revisions /\ Closed(R, {r}, ps)
  BY ReachableClosed
<1> SUFFICES ASSUME \A t \in R : t \in Olds(ps)
             PROVE  FALSE
  BY DEF ChainEnds
<1> HIDE DEF R
<1>2. \A x \in R : next[x] \in R /\ <<x, next[x]>> \in ps
  <2> TAKE x \in R
  <2>1. PICK p \in ps : p[1] = x
    BY DEF Olds
  <2>2. p = <<x, p[2]>> /\ p[2] \in Revisions
    BY <2>1 DEF Pairs
  <2>3. next[x] \in Revisions /\ <<x, next[x]>> \in ps
    BY <2>2
  <2> QED
    BY <1>1, <2>3 DEF Closed
<1> HIDE DEF next
<1>3. next \in [R -> R]
  <2>1. next = [x \in R |-> CHOOSE y \in Revisions : <<x, y>> \in ps]
    BY DEF next
  <2> QED
    BY <1>2, <2>1
<1>4. next \in Injection(R, R)
  <2>1. \A a, b \in R : next[a] = next[b] => a = b
    BY <1>2 DEF LineageValid
  <2> QED
    BY <1>3, <2>1, Fun_IsInj
<1>5. IsFiniteSet(R)
  BY <1>1, FS_Subset
<1>6. next \in Surjection(R, R)
  BY <1>4, <1>5, FS_Injection
<1>7. PICK x \in R : next[x] = r
  BY <1>1, <1>6 DEF Surjection, Closed
<1>8. <<x, r>> \in ps
  BY <1>2, <1>7
<1>9. x \notin ReachableFrom({r}, ps)
  BY <1>8 DEF LineageValid
<1> QED
  BY <1>9 DEF R

-----------------------------------------------------------------------------
(***************************************************************************)
(* The inductive invariant.                                                *)
(***************************************************************************)
Remap == [pc : {"idle", "captured", "previewed", "evaluated"},
          rows : SUBSET Pairs, digest : Graphs]

\* What an evaluation found of a graph and some rows, and what stays true of
\* them however the commits Git keeps change meanwhile.
Sound(g, ps) ==
    /\ Functional(ps)
    /\ ~ChangedBinding(g, ps)
    /\ LineageValid(g.lineage \cup Moving(ps))

LineageInv ==
    /\ LineageTypeOK
    /\ remap \in [Sessions -> Remap]
    /\ \A n \in Nodes : observed[n] \in ever \cup {NoRevision}
    /\ Functional(lineage)
    /\ LineageValid(lineage)
    /\ Olds(lineage) \subseteq ReachableFrom(ever, lineage)
    /\ \A s \in Sessions : remap[s].pc = "evaluated" => Sound(remap[s].digest, remap[s].rows)

-----------------------------------------------------------------------------
(***************************************************************************)
(* What one remap adds.                                                    *)
(***************************************************************************)
\* Both ends of a row that leaves a reachable revision are reachable.
LEMMA EndsReachable ==
  ASSUME NEW roots \in SUBSET Revisions, NEW ps \in SUBSET Pairs,
         Olds(ps) \subseteq ReachableFrom(roots, ps)
  PROVE  News(ps) \subseteq ReachableFrom(roots, ps)
BY ReachableClosed DEF Olds, News, Closed

\* A sound remap of a graph extends its lineage, binds no revision twice and
\* closes no cycle.
LEMMA FinalSound ==
  ASSUME NEW g \in Graphs, NEW ps \in SUBSET Pairs, Sound(g, ps), Functional(g.lineage)
  PROVE  /\ Final(g, ps) \in SUBSET Pairs
         /\ g.lineage \subseteq Final(g, ps)
         /\ Functional(Final(g, ps))
         /\ LineageValid(Final(g, ps))
<1>1. Final(g, ps) \subseteq g.lineage \cup Moving(ps) /\ Moving(ps) \subseteq ps
  BY DEF Final, Recorded, Moving
<1>2. /\ Final(g, ps) \in SUBSET Pairs
      /\ g.lineage \subseteq Final(g, ps)
  BY <1>1 DEF Final, Graphs
<1>3. Functional(g.lineage \cup Moving(ps))
  <2> SUFFICES ASSUME NEW p \in g.lineage \cup Moving(ps), NEW q \in g.lineage \cup Moving(ps),
                      p[1] = q[1]
               PROVE  p = q
    BY DEF Functional
  <2>1. CASE p \in g.lineage /\ q \in g.lineage
    BY <2>1 DEF Functional
  <2>2. CASE p \in Moving(ps) /\ q \in Moving(ps)
    BY <2>2, <1>1 DEF Sound, Functional
  <2>3. CASE p \in Moving(ps) /\ q \in g.lineage
    BY <2>3 DEF Sound, ChangedBinding
  <2>4. CASE p \in g.lineage /\ q \in Moving(ps)
    BY <2>4 DEF Sound, ChangedBinding
  <2> QED
    BY <2>1, <2>2, <2>3, <2>4
<1>4. Functional(Final(g, ps))
  BY <1>1, <1>3 DEF Functional
<1>5. LineageValid(Final(g, ps))
  BY <1>1, ValidPart DEF Sound
<1> QED
  BY <1>2, <1>4, <1>5

\* Every row a remap records leaves a revision that an observation named or
\* that the lineage came to from one: a walk along the captured rows only ever
\* uses rows that are recorded with it.
LEMMA FinalRooted ==
  ASSUME NEW g \in Graphs, NEW ps \in SUBSET Pairs, NEW known \in SUBSET Revisions,
         \A n \in Nodes : g.observed[n] \in known \cup {NoRevision},
         Olds(g.lineage) \subseteq ReachableFrom(known, g.lineage)
  PROVE  Olds(Final(g, ps)) \subseteq ReachableFrom(known, Final(g, ps))
<1> DEFINE F == Final(g, ps)
           S == ReachableFrom(known, F)
           T == S \cap Relevant(g, ps)
<1>1. g.lineage \in SUBSET Pairs /\ Moving(ps) \in SUBSET Pairs /\ F \in SUBSET Pairs
  BY DEF Final, Recorded, Moving, Graphs
<1>2. S \in SUBSET Revisions /\ Closed(S, known, F)
  BY <1>1, ReachableClosed
<1>3. Roots(g) \in SUBSET Revisions
  <2>1. Olds(g.lineage) \subseteq Revisions /\ News(g.lineage) \subseteq Revisions
    BY <1>1 DEF Olds, News, Pairs
  <2> QED
    BY <2>1 DEF Roots, Graphs
<1>4. /\ Relevant(g, ps) \in SUBSET Revisions
      /\ Closed(Relevant(g, ps), Roots(g), Moving(ps))
  BY <1>1, <1>3, ReachableClosed DEF Relevant
<1>5. Olds(g.lineage) \cup News(g.lineage) \subseteq S
  <2>1. Olds(g.lineage) \cup News(g.lineage) \subseteq ReachableFrom(known, g.lineage)
    BY <1>1, EndsReachable
  <2>2. ReachableFrom(known, g.lineage) \subseteq S
    BY ReachableMonotone DEF Final
  <2> QED
    BY <2>1, <2>2
<1>6. Roots(g) \subseteq S
  <2>1. {g.observed[n] : n \in Nodes} \ {NoRevision} \subseteq known
    OBVIOUS
  <2> HIDE DEF S
  <2> QED
    BY <1>2, <1>5, <2>1 DEF Roots, Closed
<1>7. Closed(T, Roots(g), Moving(ps))
  <2>1. Roots(g) \subseteq T
    BY <1>4, <1>6 DEF Closed
  <2>2. ASSUME NEW p \in Moving(ps), p[1] \in T
        PROVE  p[2] \in T
    <3>1. p \in F
      BY <2>2 DEF Recorded, Final
    <3> HIDE DEF F, S
    <3> QED
      BY <1>2, <1>4, <2>2, <3>1 DEF Closed
  <2> QED
    BY <2>1, <2>2 DEF Closed
<1>8. Relevant(g, ps) \subseteq S
  <2>1. Relevant(g, ps) \subseteq T
    <3> HIDE DEF T
    <3>1. T \in SUBSET Revisions
      BY <1>4 DEF T
    <3> QED
      BY <1>7, <3>1, ReachableLeast DEF Relevant
  <2> QED
    BY <2>1
<1>9. Olds(F) \subseteq Olds(g.lineage) \cup Relevant(g, ps)
  BY DEF Final, Recorded, Olds
<1> HIDE DEF S, F
<1>10. Olds(F) \subseteq S
  BY <1>5, <1>8, <1>9
<1> QED
  BY <1>10 DEF S, F

-----------------------------------------------------------------------------
(***************************************************************************)
(* The invariant holds at first and is kept by every step.                 *)
(***************************************************************************)
LEMMA Initial == LineageInit => LineageInv
<1> SUFFICES ASSUME LineageInit
             PROVE  LineageInv
  OBVIOUS
<1> USE LineageAssumption
<1>1. NoGraph \in Graphs
  BY DEF NoGraph, Graphs
<1>2. remap \in [Sessions -> Remap] /\ \A s \in Sessions : remap[s].pc = "idle"
  BY <1>1 DEF LineageInit, Resting, Remap
<1>3. LineageTypeOK
  BY <1>2 DEF LineageInit, LineageTypeOK, Remap
<1> QED
  BY <1>2, <1>3 DEF LineageInv, LineageInit, Functional, LineageValid, Olds

\* A session that moves on, with the graph left alone.
LEMMA SessionMoves ==
  ASSUME LineageInv, NEW s \in Sessions, NEW next \in Remap, Go(s, next),
         next.pc = "evaluated" => Sound(next.digest, next.rows),
         captures' \in 0..MaxCaptures,
         UNCHANGED <<observed, lineage, available, syncs, ever>>
  PROVE  LineageInv'
<1>1. remap' \in [Sessions -> Remap]
  BY DEF LineageInv, Go
<1>2. LineageTypeOK'
  BY <1>1 DEF LineageInv, LineageTypeOK, Remap
<1>3. \A t \in Sessions : remap'[t].pc = "evaluated" => Sound(remap'[t].digest, remap'[t].rows)
  BY DEF LineageInv, Go
<1> QED
  BY <1>1, <1>2, <1>3 DEF LineageInv

\* What the write of an evaluated remap makes of the lineage.
LEMMA WriteSound ==
  ASSUME LineageInv, NEW s \in Sessions, WriteFinal(s)
  PROVE  /\ lineage' \in SUBSET Pairs
         /\ lineage \subseteq lineage'
         /\ Functional(lineage')
         /\ LineageValid(lineage')
         /\ Olds(lineage') \subseteq ReachableFrom(ever, lineage')
<1> DEFINE g == remap[s].digest
           rows == remap[s].rows
<1>1. g \in Graphs /\ rows \in SUBSET Pairs /\ Sound(g, rows)
  BY DEF LineageInv, WriteFinal, Remap
<1>2. CASE Graph # g
  <2>1. lineage' = lineage
    BY <1>2 DEF WriteFinal
  <2> QED
    BY <2>1 DEF LineageInv, LineageTypeOK
<1>3. CASE Graph = g
  <2>1. lineage' = Final(g, rows)
    BY <1>3 DEF WriteFinal
  <2>2. g.lineage = lineage /\ g.observed = observed
    BY <1>3 DEF Graph
  <2> HIDE DEF g, rows
  <2>3. /\ Final(g, rows) \in SUBSET Pairs
        /\ lineage \subseteq Final(g, rows)
        /\ Functional(Final(g, rows))
        /\ LineageValid(Final(g, rows))
    BY <1>1, <2>2, FinalSound DEF LineageInv
  <2>4. Olds(Final(g, rows)) \subseteq ReachableFrom(ever, Final(g, rows))
    BY <1>1, <2>2, FinalRooted DEF LineageInv, LineageTypeOK
  <2> QED
    BY <2>1, <2>3, <2>4
<1> QED
  BY <1>2, <1>3

LEMMA Inductive == LineageInv /\ [LineageNext]_lineageVars => LineageInv'
<1> SUFFICES ASSUME LineageInv, [LineageNext]_lineageVars
             PROVE  LineageInv'
  OBVIOUS
<1> USE LineageAssumption
<1>0. NoGraph \in Graphs /\ Graph \in Graphs /\ Resting \in Remap /\ Resting.pc = "idle"
  BY DEF NoGraph, Graph, Graphs, Resting, Remap, LineageInv, LineageTypeOK
<1>1. ASSUME NEW s \in Sessions, CapturePostRewrite(s)
      PROVE  LineageInv'
  <2>1. captures' \in 0..MaxCaptures
    BY <1>1 DEF CapturePostRewrite, LineageInv, LineageTypeOK
  <2>2. PICK rows \in SUBSET Pairs : Go(s, [Resting EXCEPT !.pc = "captured", !.rows = rows])
    BY <1>1 DEF CapturePostRewrite
  <2> DEFINE next == [Resting EXCEPT !.pc = "captured", !.rows = rows]
  <2>3. next \in Remap /\ next.pc = "captured"
    BY <1>0 DEF Resting, Remap
  <2> HIDE DEF next
  <2>4. Go(s, next)
    BY <2>2 DEF next
  <2> QED
    BY <1>1, <2>1, <2>3, <2>4, SessionMoves DEF CapturePostRewrite
<1>2. ASSUME NEW s \in Sessions, Preview(s)
      PROVE  LineageInv'
  <2> DEFINE next == [remap[s] EXCEPT !.pc = "previewed", !.digest = Graph]
  <2>1. next \in Remap /\ next.pc = "previewed"
    BY <1>0 DEF LineageInv, Remap
  <2>2. captures' \in 0..MaxCaptures
    BY <1>2 DEF Preview, LineageInv, LineageTypeOK
  <2>3. Go(s, next) \/ Go(s, Resting)
    BY <1>2 DEF Preview, Back
  <2> HIDE DEF next
  <2> QED
    BY <1>0, <1>2, <2>1, <2>2, <2>3, SessionMoves DEF Preview
<1>3. ASSUME NEW s \in Sessions, Evaluate(s)
      PROVE  LineageInv'
  <2>1. captures' \in 0..MaxCaptures
    BY <1>3 DEF Evaluate, LineageInv, LineageTypeOK
  <2>2. CASE Go(s, Resting)
    BY <1>0, <1>3, <2>1, <2>2, SessionMoves DEF Evaluate
  <2>3. CASE /\ Accepts(Graph, remap[s].rows) /\ Graph = remap[s].digest
             /\ Go(s, [remap[s] EXCEPT !.pc = "evaluated"])
    <3> DEFINE next == [remap[s] EXCEPT !.pc = "evaluated"]
    <3>1. next \in Remap /\ next.digest = Graph /\ next.rows = remap[s].rows
      BY <2>3 DEF LineageInv, Remap
    <3>2. Sound(next.digest, next.rows)
      BY <2>3, <3>1 DEF Accepts, Sound, Graph
    <3>3. Go(s, next)
      BY <2>3
    <3> HIDE DEF next
    <3> QED
      BY <1>3, <2>1, <3>1, <3>2, <3>3, SessionMoves DEF Evaluate
  <2> QED
    BY <1>3, <2>2, <2>3 DEF Evaluate, Back
<1>4. ASSUME NEW s \in Sessions, WriteFinal(s)
      PROVE  LineageInv'
  <2>1. remap' \in [Sessions -> Remap]
    BY <1>0, <1>4 DEF LineageInv, WriteFinal, Back, Go
  <2>2. \A t \in Sessions : remap'[t].pc = "evaluated"
                            => remap'[t] = remap[t]
    BY <1>0, <1>4 DEF LineageInv, WriteFinal, Back, Go
  <2>3. LineageTypeOK'
    BY <1>4, <2>1, WriteSound DEF LineageInv, LineageTypeOK, WriteFinal, Remap
  <2>4. \A t \in Sessions : remap'[t].pc = "evaluated" => Sound(remap'[t].digest, remap'[t].rows)
    BY <2>2 DEF LineageInv
  <2>5. UNCHANGED <<observed, ever>>
    BY <1>4 DEF WriteFinal
  <2> QED
    BY <1>4, <2>1, <2>3, <2>4, <2>5, WriteSound DEF LineageInv
<1>5. ASSUME NEW n \in Nodes, Observe(n)
      PROVE  LineageInv'
  <2>1. PICK r \in available \cup {NoRevision} :
          /\ observed' = [observed EXCEPT ![n] = r]
          /\ ever' = ever \cup ({r} \ {NoRevision})
    BY <1>5 DEF Observe
  <2>2. UNCHANGED <<lineage, available, remap, captures>> /\ syncs' \in 0..MaxSyncs
    BY <1>5 DEF Observe, LineageInv, LineageTypeOK
  <2>3. LineageTypeOK'
    BY <2>1, <2>2 DEF LineageInv, LineageTypeOK
  <2>4. \A m \in Nodes : observed'[m] \in ever' \cup {NoRevision}
    BY <2>1 DEF LineageInv, LineageTypeOK
  <2>5. ReachableFrom(ever, lineage) \subseteq ReachableFrom(ever', lineage)
    BY <2>1, ReachableMonotone
  <2>6. Olds(lineage') \subseteq ReachableFrom(ever', lineage')
    BY <2>2, <2>5 DEF LineageInv
  <2> QED
    BY <2>2, <2>3, <2>4, <2>6 DEF LineageInv
<1>6. ASSUME Prune
      PROVE  LineageInv'
  <2>1. LineageTypeOK'
    BY <1>6 DEF Prune, LineageInv, LineageTypeOK
  <2> QED
    BY <1>6, <2>1 DEF Prune, LineageInv
<1>7. CASE UNCHANGED lineageVars
  BY <1>7 DEF lineageVars, LineageInv, LineageTypeOK
<1> QED
  BY <1>1, <1>2, <1>3, <1>4, <1>5, <1>6, <1>7 DEF LineageNext, RemapRevisions

-----------------------------------------------------------------------------
(***************************************************************************)
(* Theorems.                                                               *)
(***************************************************************************)
\* The lineage is a set of chains, all of which begin at an observed revision.
LEMMA InvMeansChains == LineageInv => LineageIsChains
<1> SUFFICES ASSUME LineageInv
             PROVE  LineageIsChains
  OBVIOUS
<1>1. lineage \in SUBSET Pairs
  BY DEF LineageInv, LineageTypeOK
<1>2. \A r \in Revisions : ChainEnds(r, lineage)
  BY <1>1, LineageAssumption, ChainsEnd DEF LineageInv
<1> QED
  BY <1>2 DEF LineageInv, LineageIsChains, LineageValid

\* However many sessions remap, preview and race each other while others
\* observe and Git prunes, the recorded lineage stays a set of disjoint,
\* finite chains rooted at observed revisions (remapRevisionsWithWrite,
\* validateRemapLineage).
THEOREM LineageStaysChains == LineageSpec => []LineageIsChains
<1>1. LineageSpec => []LineageInv
  BY Initial, Inductive, PTL DEF LineageSpec
<1> QED
  BY <1>1, InvMeansChains, PTL

\* No race of remaps drops a recorded row or binds its commit to another one.
THEOREM LineageIsAppendOnly == LineageSpec => LineageAppendOnly
<1>1. LineageSpec => []LineageInv
  BY Initial, Inductive, PTL DEF LineageSpec
<1>2. ASSUME LineageInv, LineageInv', [LineageNext]_lineageVars
      PROVE  [lineage' # lineage
                => /\ lineage \subseteq lineage'
                   /\ Functional(lineage')
                   /\ LineageIsChains']_lineage
  <2> SUFFICES ASSUME lineage' # lineage
               PROVE  /\ lineage \subseteq lineage'
                      /\ Functional(lineage')
                      /\ LineageIsChains'
    OBVIOUS
  <2>1. PICK s \in Sessions : WriteFinal(s)
    BY <1>2 DEF LineageNext, RemapRevisions, lineageVars, CapturePostRewrite, Preview, Evaluate, Observe, Prune
  <2>2. LineageIsChains'
    <3>1. LineageInv' => LineageIsChains'
      BY InvMeansChains, PTL
    <3> QED
      BY <1>2, <3>1
  <2> QED
    BY <1>2, <2>1, <2>2, WriteSound
<1> QED
  BY <1>1, <1>2, PTL DEF LineageSpec, LineageAppendOnly

(***************************************************************************)
(* Citations: what the index holds after some of the definers.             *)
(***************************************************************************)
Registered == definers \ todo

\* Where there is a single winner, the index says nothing before it is
\* registered that would keep it out, and nothing takes over from it later.
CitationInv ==
    /\ definers \in SUBSET Sources /\ direct \in SUBSET Sources /\ todo \in SUBSET definers
    /\ Registered = {} => byKey = None /\ ambiguous = {}
    /\ \A w \in Sources :
          /\ Direct = {w} => IF w \in Registered THEN byKey = w /\ priorityHit
                                                 ELSE ~priorityHit
          /\ definers = {w} /\ w \in Registered => byKey = w

LEMMA CitationInitial == CitationInit => CitationInv
BY CitationsAssumption DEF CitationInit, CitationInv, Registered

LEMMA CitationInductive == CitationInv /\ [CitationNext]_citationVars => CitationInv'
<1> SUFFICES ASSUME CitationInv, [CitationNext]_citationVars
             PROVE  CitationInv'
  OBVIOUS
<1>1. ASSUME NEW s \in todo, Register(s), todo' = todo \ {s}, UNCHANGED <<definers, direct>>
      PROVE  CitationInv'
  <2>0. s \in definers /\ s \in Sources /\ s # None /\ None \notin Sources
        /\ Registered' = Registered \cup {s} /\ s \notin Registered /\ Direct' = Direct
    BY <1>1, CitationsAssumption DEF CitationInv, Registered, Direct
  <2>1. ASSUME NEW w \in Sources, Direct = {w}, w \in Registered'
        PROVE  byKey' = w /\ priorityHit'
    <3>1. CASE w = s
      <4>1. s \in direct /\ ~priorityHit
        BY <2>0, <2>1, <3>1 DEF CitationInv, Direct
      <4> QED
        BY <1>1, <3>1, <4>1 DEF Register, Displaces
    <3>2. CASE w # s
      <4>1. w \in Registered /\ byKey = w /\ priorityHit
        BY <2>0, <2>1, <3>2 DEF CitationInv
      <4>2. s \notin direct
        BY <2>0, <2>1, <3>2 DEF Direct
      <4> QED
        BY <1>1, <2>0, <4>1, <4>2, CitationsAssumption DEF Register, Displaces
    <3> QED
      BY <3>1, <3>2
  <2>2. ASSUME NEW w \in Sources, Direct = {w}, w \notin Registered'
        PROVE  ~priorityHit'
    <3>1. ~priorityHit /\ s \notin direct
      BY <2>0, <2>2 DEF CitationInv, Direct
    <3> QED
      BY <1>1, <3>1 DEF Register, Displaces
  <2>3. ASSUME NEW w \in Sources, definers = {w}
        PROVE  byKey' = w
    <3>1. w = s /\ Registered = {}
      BY <2>0, <2>3 DEF Registered
    <3>2. byKey = None /\ ambiguous = {}
      BY <3>1 DEF CitationInv
    <3> QED
      BY <1>1, <3>1, <3>2 DEF Register
  <2> QED
    BY <1>1, <2>0, <2>1, <2>2, <2>3 DEF CitationInv
<1>2. CASE UNCHANGED citationVars
  BY <1>2 DEF CitationInv, citationVars, Registered, Direct
<1> QED
  BY <1>1, <1>2 DEF CitationNext

\* Go iterates the sources of a document in any order; an identifier that one
\* of them defines with priority, or only one defines at all, resolves to it.
THEOREM OrderDoesNotMatter == CitationSpec => []OneDefinerWins
<1>1. CitationInv => OneDefinerWins
  <2> SUFFICES ASSUME CitationInv, todo = {}, definers # {}, ~Tied
               PROVE  Resolved # None /\ (Direct # {} => Resolved \in Direct)
    BY DEF OneDefinerWins
  <2>0. /\ Registered = definers /\ definers \subseteq Sources /\ None \notin Sources
        /\ IsFiniteSet(definers) /\ IsFiniteSet(Direct)
    BY CitationsAssumption, FS_Subset DEF CitationInv, Registered, Direct
  <2>1. ASSUME NEW S, IsFiniteSet(S), S # {}, ~(Cardinality(S) > 1)
        PROVE  \E w \in S : S = {w}
    <3>1. Cardinality(S) \in Nat /\ Cardinality(S) # 0
      BY <2>1, FS_CardinalityType, FS_EmptySet
    <3>2. Cardinality(S) = 1
      BY <2>1, <3>1
    <3> QED
      BY <2>1, <3>2, FS_Singleton
  <2>2. CASE Direct # {}
    <3>1. PICK w \in Direct : Direct = {w}
      BY <2>0, <2>1, <2>2 DEF Tied
    <3>2. w \in Sources /\ w \in Registered
      BY <2>0 DEF Direct
    <3> QED
      BY <2>0, <3>1, <3>2 DEF CitationInv, Resolved
  <2>3. CASE Direct = {}
    <3>1. PICK w \in definers : definers = {w}
      BY <2>0, <2>1, <2>3 DEF Tied
    <3> QED
      BY <2>0, <2>3, <3>1 DEF CitationInv, Resolved
  <2> QED
    BY <2>2, <2>3
<1> QED
  BY <1>1, CitationInitial, CitationInductive, PTL DEF CitationSpec

(***************************************************************************)
(* DecisionLedger: what the files hold, and what a command at work knows.  *)
(***************************************************************************)
Ledgers == [Plans -> Seq(EntryType)]

CommandFields == {"pc", "kind", "tree", "plan", "text", "refs", "dd", "rooted", "root", "index",
                  "since", "own"}

Shaped(c) ==
  /\ c = [x \in CommandFields |-> c[x]]
  /\ c.kind \in {"add", "sync"} /\ c.tree \in Trees /\ c.plan \in Plans
  /\ c.dd \in Nat \ {0} /\ c.root \in Ledgers

\* Before it writes, a command has seen that its statement is not in the file.
CommandOK(c) ==
  \/ c = NoCommand
  \/ /\ Shaped(c)
     /\ c.pc \in {"attempt", "judge", "write", "reload"}
     /\ c.pc # "reload" => /\ c.text \in Statements
                           /\ \A r \in c.refs : r.id \in Ids
                           /\ c.kind = "sync" => c.dd \in DOMAIN Design
     /\ c.pc = "write" => /\ c.own \in Seq(EntryType)
                          /\ \A e \in Elems(c.own) : IdOf(e) # Digest[c.text]

LedgerInv ==
  /\ files \in [Trees -> Ledgers]
  /\ \A t \in Trees, p \in Plans : NoneTwice(files[t][p])
  /\ se = [s \in Authors |-> se[s]]
  /\ \A s \in Authors : CommandOK(se[s])
  /\ commands \in 0 .. MaxCommands /\ merges \in 0 .. MaxMerges

-----------------------------------------------------------------------------
LEMMA LeastIs ==
  ASSUME NEW S \in SUBSET Nat, S # {}
  PROVE  Least(S) \in S
<1>1. PICK k \in S : \A j \in S : ~(<<j, k>> \in OpToRel(<, Nat))
  BY WFMin, NatLessThanWellFounded
<1>2. ASSUME NEW j \in S PROVE k <= j
  <2> SUFFICES ASSUME j < k PROVE FALSE
    OBVIOUS
  <2>1. <<j, k>> \in OpToRel(<, Nat)
    BY DEF OpToRel
  <2> QED
    BY <1>1, <2>1
<1> QED
  BY <1>2 DEF Least

LEMMA ElemsTyped ==
  ASSUME NEW S, NEW q \in Seq(S)
  PROVE  Elems(q) \subseteq S /\ DOMAIN q = 1 .. Len(q) /\ Len(q) \in Nat
BY DEF Elems

LEMMA DesignTyped ==
  /\ \A k \in DOMAIN Design : Design[k].text \in Statements
  /\ DOMAIN Design = 1 .. Len(Design) /\ Len(Design) \in Nat
<1> DEFINE R == [text : Statements, sup : Nat]
<1>1. Design \in Seq(R) /\ \A d \in R : d.text \in Statements
  BY LedgerAssumption
<1> HIDE DEF R
<1>2. Elems(Design) \subseteq R /\ DOMAIN Design = 1 .. Len(Design) /\ Len(Design) \in Nat
  BY <1>1, ElemsTyped
<1> QED
  BY <1>1, <1>2 DEF Elems

LEMMA IdsTyped ==
  ASSUME NEW x \in Ledgers
  PROVE  RecordedIds(x) \subseteq Ids /\ \A e \in EntryType : IdOf(e) \in Ids
<1>1. \A e \in EntryType : IdOf(e) \in Ids
  BY LedgerAssumption DEF IdOf, EntryType
<1>2. \A p \in Plans : Elems(x[p]) \subseteq EntryType
  BY ElemsTyped DEF Ledgers
<1> QED
  BY <1>1, <1>2 DEF RecordedIds, Entries

LEMMA ChoicesTyped ==
  ASSUME NEW x \in Ledgers, NEW R \in RefChoices(x), NEW r \in R
  PROVE  r.id \in Ids
<1>1. RecordedIds(x) \subseteq Ids
  BY IdsTyped
<1>2. \A i : Qualified(x, i).id = i /\ \A y \in Spellings(x, i) : y.id = i
  BY DEF Qualified, Spellings
<1>3. \/ R = {}
      \/ \E i \in RecordedIds(x) : r \in Spellings(x, i)
      \/ \E i, j \in RecordedIds(x) : r = Qualified(x, i) \/ r = Qualified(x, j)
  BY DEF RefChoices, Standing
<1> QED
  BY <1>1, <1>2, <1>3

LEMMA SourceTyped ==
  ASSUME NEW x \in Ledgers, NEW k, NEW p \in Plans, CarryCopy(x, k) # {}
  PROVE  BySource(x, k, p).id \in Ids
<1> DEFINE q == IF p \in CarryCopy(x, k) THEN p ELSE Least(CarryCopy(x, k))
           n == Least(CopiesIn(x, k, q))
<1>1. CarryCopy(x, k) \subseteq Nat
  BY LedgerAssumption DEF CarryCopy, Plans
<1>2. q \in CarryCopy(x, k)
  BY <1>1, LeastIs
<1> HIDE DEF q
<1>3. q \in Plans /\ CopiesIn(x, k, q) # {} /\ x[q] \in Seq(EntryType)
  BY <1>2 DEF CarryCopy, Ledgers
<1>4. CopiesIn(x, k, q) \subseteq Nat /\ CopiesIn(x, k, q) \subseteq DOMAIN x[q]
  BY <1>3 DEF CopiesIn
<1>5. n \in DOMAIN x[q]
  BY <1>3, <1>4, LeastIs
<1> HIDE DEF n
<1>6. x[q][n] \in EntryType
  BY <1>3, <1>5
<1>7. BySource(x, k, p).id = IdOf(x[q][n])
  BY DEF BySource, q, n
<1> QED
  BY <1>6, <1>7, IdsTyped

-----------------------------------------------------------------------------
LEMMA Started ==
  ASSUME NEW kind \in {"add", "sync"}, NEW t \in Trees, NEW p \in Plans, NEW text, NEW refs
  PROVE  LET c == Command(kind, t, p, text, refs)
         IN Shaped(c) /\ c.pc = "attempt" /\ c.text = text /\ c.refs = refs /\ c.kind = kind
<1>1. Blank \in Ledgers
  BY DEF Blank, Ledgers
<1> QED
  BY <1>1 DEF Command, Shaped, CommandFields

LEMMA TakenUp ==
  ASSUME NEW c, Shaped(c)
  PROVE  CommandOK(TakeUp(c))
<1>1. CASE c.dd \notin DOMAIN Design
  BY <1>1 DEF TakeUp, CommandOK
<1>2. CASE c.dd \in DOMAIN Design
  <2> DEFINE d == Design[c.dd]
  <2>1. d.text \in Statements
    BY <1>2, DesignTyped
  <2>2a. ASSUME NEW e, NEW refs, e = [c EXCEPT !.pc = "attempt", !.text = d.text, !.refs = refs],
                \A r \in refs : r.id \in Ids
         PROVE  CommandOK(e)
    <3> HIDE DEF d
    <3>1. PICK text \in Statements : text = d.text
      BY <2>1
    <3>2. e = [c EXCEPT !.pc = "attempt", !.text = text, !.refs = refs]
      BY <2>2a, <3>1
    <3>3. Shaped(e) /\ e.pc = "attempt" /\ e.text = text /\ e.refs = refs /\ e.kind = c.kind /\ e.dd = c.dd
      BY <3>2 DEF Shaped, CommandFields
    <3> QED
      BY <1>2, <2>2a, <3>1, <3>3 DEF CommandOK
  <2>2. CASE d.sup = 0
    <3>1. TakeUp(c) = [c EXCEPT !.pc = "attempt", !.text = d.text, !.refs = {}]
      BY <1>2, <2>2 DEF TakeUp
    <3> QED
      BY <2>2a, <3>1
  <2>3. CASE d.sup # 0 /\ CarryCopy(c.root, d.sup) = {}
    BY <1>2, <2>3 DEF TakeUp, CommandOK
  <2>4. CASE d.sup # 0 /\ CarryCopy(c.root, d.sup) # {}
    <3>1. PICK refs : refs = {BySource(c.root, d.sup, c.plan)}
      OBVIOUS
    <3>4. TakeUp(c) = [c EXCEPT !.pc = "attempt", !.text = d.text, !.refs = refs]
      BY <1>2, <2>4, <3>1 DEF TakeUp
    <3>2. BySource(c.root, d.sup, c.plan).id \in Ids
      BY <2>4, SourceTyped DEF Shaped
    <3> HIDE DEF d
    <3>3. \A r \in refs : r.id \in Ids
      BY <3>1, <3>2
    <3> QED
      BY <2>2a, <3>3, <3>4
  <2> QED
    BY <2>2, <2>3, <2>4
<1> QED
  BY <1>1, <1>2

\* In a finite set of numbers there is one of every rank.
LEMMA RankIs ==
  ASSUME NEW S \in SUBSET Nat, IsFiniteSet(S), NEW k \in 1 .. Cardinality(S)
  PROVE  \E n \in S : Cardinality({m \in S : m <= n}) = k
<1> DEFINE below(n) == {m \in S : m <= n}
           c == Cardinality(S)
           f == [n \in S |-> Cardinality(below(n))]
<1>1. c \in Nat /\ Cardinality(1 .. c) = c /\ IsFiniteSet(1 .. c)
  BY FS_CardinalityType, FS_Interval
<1>2. ASSUME NEW n \in S PROVE f[n] \in 1 .. c /\ IsFiniteSet(below(n))
  <2>1. IsFiniteSet(below(n)) /\ Cardinality(below(n)) <= c
    BY FS_Subset
  <2>2. Cardinality(below(n)) \in Nat /\ Cardinality(below(n)) # 0
    <3>1. n \in below(n)
      OBVIOUS
    <3> HIDE DEF below
    <3> QED
      BY <2>1, <3>1, FS_CardinalityType, FS_EmptySet
  <2> HIDE DEF below, c
  <2> QED
    BY <1>1, <2>1, <2>2
<1>3. ASSUME NEW n \in S, NEW o \in S, n < o PROVE f[n] # f[o]
  <2>0. n \in Nat /\ o \in Nat /\ \A m \in S : m \in Nat
    OBVIOUS
  <2>1. below(n) \subseteq below(o) /\ o \in below(o) /\ o \notin below(n)
    <3>1. o <= o /\ ~(o <= n) /\ \A m \in S : m <= n => m <= o
      BY <1>3, <2>0
    <3> QED
      BY <3>1
  <2>2. IsFiniteSet(below(o)) /\ below(n) # below(o)
    BY <1>2, <2>1
  <2> HIDE DEF below
  <2>3. Cardinality(below(n)) # Cardinality(below(o))
    BY <2>1, <2>2, FS_Subset
  <2> QED
    BY <2>3
<1>4. \A n, o \in S : f[n] = f[o] => n = o
  <2> SUFFICES ASSUME NEW n \in S, NEW o \in S, f[n] = f[o], n # o PROVE FALSE
    OBVIOUS
  <2>1. n < o \/ o < n
    OBVIOUS
  <2> HIDE DEF f
  <2> QED
    BY <1>3, <2>1
<1>5. f \in [S -> 1 .. c]
  BY <1>2
<1> HIDE DEF f, c
<1>6. f \in Injection(S, 1 .. c)
  BY <1>4, <1>5, Fun_IsInj
<1>7. f \in Surjection(S, 1 .. c)
  BY <1>1, <1>6, FS_Injection DEF c
<1>8. PICK n \in S : f[n] = k
  BY <1>7 DEF Surjection, c
<1> QED
  BY <1>8 DEF f

LEMMA MergedOK ==
  ASSUME NEW mine \in Seq(EntryType), NEW theirs \in Seq(EntryType),
         NoneTwice(mine), NoneTwice(theirs)
  PROVE  /\ Merged(mine, theirs) \in Seq(EntryType)
         /\ Elems(mine) \subseteq Elems(Merged(mine, theirs))
         /\ NoneTwice(Merged(mine, theirs))
<1> DEFINE new == {n \in DOMAIN theirs : \A d \in Elems(mine) : IdOf(d) # IdOf(theirs[n])}
           rank(n) == Cardinality({m \in new : m <= n})
           at(k) == CHOOSE n \in new : rank(n) = k
           c == Cardinality(new)
           rest == [k \in 1 .. c |-> theirs[at(k)]]
           all == mine \o rest
<1>1. new \subseteq 1 .. Len(theirs) /\ Len(theirs) \in Nat /\ Len(mine) \in Nat
      /\ DOMAIN theirs = 1 .. Len(theirs) /\ DOMAIN mine = 1 .. Len(mine)
  OBVIOUS
<1>2. IsFiniteSet(new) /\ c \in Nat /\ new \in SUBSET Nat
  <2> HIDE DEF new
  <2>1. IsFiniteSet(1 .. Len(theirs)) /\ new \in SUBSET (1 .. Len(theirs))
    BY <1>1, FS_Interval
  <2>2. IsFiniteSet(new)
    BY <2>1, FS_Subset
  <2>3. new \in SUBSET Nat
    BY <1>1
  <2> QED
    BY <2>2, <2>3, FS_CardinalityType
<1>3. ASSUME NEW k \in 1 .. c PROVE at(k) \in new /\ rank(at(k)) = k
  <2> HIDE DEF new
  <2>1. \E n \in new : rank(n) = k
    BY <1>2, RankIs
  <2> HIDE DEF rank
  <2> QED
    BY <2>1
<1>4. \A k \in 1 .. c : rest[k] = theirs[at(k)] /\ at(k) \in DOMAIN theirs
                        /\ \A d \in Elems(mine) : IdOf(d) # IdOf(rest[k])
  <2> HIDE DEF at, rank, c
  <2> QED
    BY <1>3
<1>5. \A k, l \in 1 .. c : at(k) = at(l) => k = l
  <2> HIDE DEF at, rank, new, c
  <2> QED
    BY <1>3
<1>6. rest \in Seq(EntryType) /\ Len(rest) = c
  <2>1. \A k \in 1 .. c : theirs[at(k)] \in EntryType
    <3> HIDE DEF at, rank, new, c, rest
    <3> QED
      BY <1>1, <1>4
  <2>2. rest \in [1 .. c -> EntryType]
    <3> HIDE DEF at, rank, new, c
    <3> QED
      BY <2>1
  <2> HIDE DEF rest, c
  <2> QED
    BY <1>2, <2>2
<1> HIDE DEF rest, at, rank, new, c
<1>7. /\ all \in Seq(EntryType) /\ Len(all) = Len(mine) + c /\ DOMAIN all = 1 .. (Len(mine) + c)
      /\ \A i \in 1 .. Len(mine) : all[i] = mine[i]
      /\ \A i \in 1 .. (Len(mine) + c) : i > Len(mine) => all[i] = rest[i - Len(mine)]
  BY <1>1, <1>2, <1>6
<1> HIDE DEF all
<1>8. Elems(mine) \subseteq Elems(all)
  BY <1>1, <1>2, <1>7 DEF Elems
<1>9. \A i \in 1 .. (Len(mine) + c) : i > Len(mine) => i - Len(mine) \in 1 .. c
  BY <1>1, <1>2
<1>10. ASSUME NEW i \in 1 .. Len(mine), NEW j \in 1 .. (Len(mine) + c), j > Len(mine)
       PROVE  IdOf(all[i]) # IdOf(all[j])
  <2>1. all[i] = mine[i] /\ mine[i] \in Elems(mine)
    BY <1>1, <1>7 DEF Elems
  <2>2. all[j] = rest[j - Len(mine)] /\ j - Len(mine) \in 1 .. c
    BY <1>7, <1>9, <1>10
  <2> QED
    BY <1>4, <2>1, <2>2
<1>11. NoneTwice(all)
  <2> SUFFICES ASSUME NEW i \in 1 .. (Len(mine) + c), NEW j \in 1 .. (Len(mine) + c),
                      IdOf(all[i]) = IdOf(all[j])
               PROVE  i = j
    BY <1>7 DEF NoneTwice
  <2>1. CASE i \in 1 .. Len(mine) /\ j \in 1 .. Len(mine)
    <3>1. IdOf(mine[i]) = IdOf(mine[j])
      BY <1>7, <2>1
    <3> QED
      BY <1>1, <2>1, <3>1 DEF NoneTwice
  <2>2. CASE i > Len(mine) /\ j > Len(mine)
    <3>1. PICK k \in 1 .. c, l \in 1 .. c : k = i - Len(mine) /\ l = j - Len(mine)
      BY <1>9, <2>2
    <3>2. all[i] = theirs[at(k)] /\ all[j] = theirs[at(l)] /\ at(k) \in DOMAIN theirs
          /\ at(l) \in DOMAIN theirs
      BY <1>4, <1>7, <2>2, <3>1
    <3>3. at(k) = at(l)
      BY <3>2 DEF NoneTwice
    <3>4. k = l
      BY <1>5, <3>3
    <3> QED
      BY <1>1, <3>1, <3>4
  <2>3. i \in 1 .. Len(mine) \/ i > Len(mine)
    BY <1>1, <1>2
  <2>4. j \in 1 .. Len(mine) \/ j > Len(mine)
    BY <1>1, <1>2
  <2> QED
    BY <1>10, <2>1, <2>2, <2>3, <2>4
<1>12. Merged(mine, theirs) = all
  BY DEF Merged, all, rest, at, rank, new, c
<1> QED
  BY <1>7, <1>8, <1>11, <1>12

-----------------------------------------------------------------------------
\* The commands.
LEMMA LedgerInitial == LedgerInit => LedgerInv
<1> SUFFICES ASSUME LedgerInit PROVE LedgerInv
  OBVIOUS
<1>1. PICK h \in Histories : files = [t \in Trees |-> h]
  BY DEF LedgerInit
<1>2. h \in Ledgers /\ \A p \in Plans : NoneTwice(h[p])
  BY HistoriesAssumption DEF Ledgers
<1>3. \A s \in Authors : se[s] = NoCommand
  BY DEF LedgerInit
<1>4. commands \in 0 .. MaxCommands /\ merges \in 0 .. MaxMerges
  BY LedgerAssumption DEF LedgerInit
<1>5. se = [s \in Authors |-> se[s]]
  BY DEF LedgerInit
<1> QED
  BY <1>1, <1>2, <1>3, <1>4, <1>5 DEF LedgerInv, CommandOK

\* A step that only changes what one command knows.
LEMMA OnlyBecomes ==
  ASSUME LedgerInv, NEW s \in Authors, NEW c, CommandOK(c), Become(s, c), UNCHANGED <<files, merges>>,
         commands' \in 0 .. MaxCommands
  PROVE  LedgerInv'
<1>1. /\ se' = [se EXCEPT ![s] = c] /\ files' = files /\ merges' = merges
      /\ se = [r \in Authors |-> se[r]]
  BY DEF Become, LedgerInv
<1>2. se'[s] = c /\ \A r \in Authors : r # s => se'[r] = se[r]
  BY <1>1
<1>3. se' = [r \in Authors |-> se'[r]]
  BY <1>1
<1>4. \A r \in Authors : CommandOK(se'[r])
  BY <1>2 DEF LedgerInv
<1> QED
  BY <1>1, <1>3, <1>4 DEF LedgerInv

LEMMA StartAddOK ==
  ASSUME LedgerInv, NEW s \in Authors, StartAdd(s)
  PROVE  LedgerInv'
<1>1. PICK t \in Trees, p \in Plans, text \in Statements \ {Unused} :
        \E R \in RefChoices(files[t]) : Become(s, Command("add", t, p, text, R))
  BY DEF StartAdd
<1>2. PICK R \in RefChoices(files[t]) : Become(s, Command("add", t, p, text, R))
  BY <1>1
<1>3. files[t] \in Ledgers
  BY DEF LedgerInv
<1>4. \A r \in R : r.id \in Ids
  BY <1>3, ChoicesTyped
<1>5. CommandOK(Command("add", t, p, text, R))
  <2>1. PICK c : c = Command("add", t, p, text, R)
    OBVIOUS
  <2>2. Shaped(c) /\ c.pc = "attempt" /\ c.text = text /\ c.refs = R /\ c.kind = "add"
    BY <2>1, Started
  <2> QED
    BY <1>4, <2>1, <2>2 DEF CommandOK
<1>6. commands' \in 0 .. MaxCommands /\ UNCHANGED <<files, merges>>
  BY LedgerAssumption DEF StartAdd, LedgerInv
<1> QED
  BY <1>2, <1>5, <1>6, OnlyBecomes

LEMMA StartSyncOK ==
  ASSUME LedgerInv, NEW s \in Authors, StartSync(s)
  PROVE  LedgerInv'
<1>1. PICK t \in Trees, p \in Plans :
        Become(s, TakeUp([Command("sync", t, p, Unused, {}) EXCEPT !.root = files[t]]))
  BY DEF StartSync
<1>2. files[t] \in Ledgers
  BY DEF LedgerInv
<1>3. PICK c : c = Command("sync", t, p, Unused, {})
  OBVIOUS
<1>4. Shaped(c)
  BY <1>3, Started
<1>5. Shaped([c EXCEPT !.root = files[t]])
  BY <1>2, <1>4 DEF Shaped, CommandFields
<1>6. CommandOK(TakeUp([c EXCEPT !.root = files[t]]))
  BY <1>5, TakenUp
<1>7. commands' \in 0 .. MaxCommands /\ UNCHANGED <<files, merges>>
  BY LedgerAssumption DEF StartSync, LedgerInv
<1> QED
  BY <1>1, <1>3, <1>6, <1>7, OnlyBecomes

LEMMA AtWork ==
  ASSUME LedgerInv, NEW s \in Authors, se[s].pc # "idle"
  PROVE  Shaped(se[s]) /\ CommandOK(se[s]) /\ files[se[s].tree] \in Ledgers
         /\ files[se[s].tree][se[s].plan] \in Seq(EntryType)
<1>1. CommandOK(se[s])
  BY DEF LedgerInv
<1>2. se[s] # NoCommand
  BY DEF NoCommand
<1>3. Shaped(se[s])
  BY <1>1, <1>2 DEF CommandOK
<1> QED
  BY <1>1, <1>3 DEF Shaped, LedgerInv, Ledgers

LEMMA BeginAttemptOK ==
  ASSUME LedgerInv, NEW s \in Authors, BeginAttempt(s)
  PROVE  LedgerInv'
<1> DEFINE x == IndexFor(se[s])
           c == [se[s] EXCEPT !.pc = "judge", !.index = x, !.since = files[se[s].tree]]
<1>1. Shaped(se[s]) /\ CommandOK(se[s]) /\ se[s].pc = "attempt" /\ se[s] # NoCommand
  BY AtWork DEF BeginAttempt, NoCommand
<1>2. Become(s, IF ValidatedIndex(x) THEN c ELSE NoCommand) /\ UNCHANGED <<files, commands, merges>>
  BY DEF BeginAttempt
<1>3. CommandOK(c)
  <2> HIDE DEF x
  <2>1. PICK d, y, z : d = se[s] /\ y = x /\ z = files[se[s].tree] /\ c = [d EXCEPT !.pc = "judge", !.index = y, !.since = z]
    OBVIOUS
  <2> HIDE DEF c
  <2>2. /\ Shaped(c) /\ c.pc = "judge" /\ c.text = d.text /\ c.refs = d.refs /\ c.kind = d.kind
        /\ c.dd = d.dd
    BY <1>1, <2>1 DEF Shaped, CommandFields
  <2> QED
    BY <1>1, <2>1, <2>2 DEF CommandOK
<1>4. CommandOK(NoCommand)
  BY DEF CommandOK
<1>5. commands' \in 0 .. MaxCommands
  BY <1>2 DEF LedgerInv
<1> HIDE DEF c, x
<1> QED
  BY <1>2, <1>3, <1>4, <1>5, OnlyBecomes

LEMMA JudgeOK ==
  ASSUME LedgerInv, NEW s \in Authors, Judge(s)
  PROVE  LedgerInv'
<1> DEFINE rec == se[s]
           held == files[rec.tree][rec.plan]
           next == [rec EXCEPT !.dd = @ + 1, !.index = Blank, !.since = Blank]
           go == [rec EXCEPT !.pc = "write", !.own = held, !.index = Blank]
<1>1. Shaped(rec) /\ CommandOK(rec) /\ rec.pc = "judge" /\ rec # NoCommand /\ held \in Seq(EntryType)
  BY AtWork DEF Judge, NoCommand
<1>2. /\ Become(s, IF Collides(rec.index, held, rec.text) THEN NoCommand
                 ELSE IF AlreadyIn(held, rec.text)
                 THEN IF rec.kind = "add" THEN NoCommand ELSE TakeUp(next)
                 ELSE IF MayAppend(rec.index, held, rec.text, rec.refs, rec.plan) THEN go
                 ELSE NoCommand)
      /\ UNCHANGED <<files, commands, merges>>
  BY DEF Judge
<1>3. CommandOK(TakeUp(next))
  <2>0. PICK c, b : c = rec /\ b = Blank
    OBVIOUS
  <2>1. Shaped(next)
    <3>1. next = [c EXCEPT !.dd = c.dd + 1, !.index = b, !.since = b]
      BY <2>0
    <3> HIDE DEF next, rec
    <3>2. Shaped(c) /\ c.dd + 1 \in Nat \ {0}
      BY <1>1, <2>0 DEF Shaped
    <3> QED
      BY <3>1, <3>2 DEF Shaped, CommandFields
  <2> HIDE DEF next
  <2> QED
    BY <2>1, TakenUp
<1>4. ~Collides(rec.index, held, rec.text) /\ ~AlreadyIn(held, rec.text) => CommandOK(go)
  <2>1. PICK c, o : c = rec /\ o = held
    OBVIOUS
  <2>2. go = [c EXCEPT !.pc = "write", !.own = o, !.index = Blank]
    BY <2>1
  <2> HIDE DEF rec, held, go
  <2>3. /\ Shaped(go) /\ go.pc = "write" /\ go.text = c.text /\ go.refs = c.refs /\ go.kind = c.kind
        /\ go.dd = c.dd /\ go.own = o
    BY <1>1, <2>1, <2>2 DEF Shaped, CommandFields
  <2>4. ~Collides(c.index, o, c.text) /\ ~AlreadyIn(o, c.text)
           => \A e \in Elems(o) : IdOf(e) # Digest[c.text]
    BY DEF Collides, AlreadyIn
  <2> QED
    BY <1>1, <2>1, <2>3, <2>4 DEF CommandOK
<1>5. CommandOK(NoCommand)
  BY DEF CommandOK
<1>6. commands' \in 0 .. MaxCommands
  BY <1>2 DEF LedgerInv
<1> HIDE DEF next, go, held, rec
<1> QED
  BY <1>2, <1>3, <1>4, <1>5, <1>6, OnlyBecomes

LEMMA ReloadOK ==
  ASSUME LedgerInv, NEW s \in Authors, Reload(s)
  PROVE  LedgerInv'
<1> DEFINE x == files[se[s].tree]
           c == [se[s] EXCEPT !.root = x]
<1>1. Shaped(se[s]) /\ x \in Ledgers
  BY AtWork DEF Reload
<1>2. /\ Become(s, IF ValidatedIndex(x) THEN TakeUp(c) ELSE NoCommand)
      /\ UNCHANGED <<files, commands, merges>>
  BY DEF Reload
<1>3. CommandOK(TakeUp(c))
  <2>1. Shaped(c)
    <3> HIDE DEF x
    <3> QED
      BY <1>1 DEF Shaped, CommandFields
  <2> HIDE DEF c
  <2> QED
    BY <2>1, TakenUp
<1>4. CommandOK(NoCommand)
  BY DEF CommandOK
<1>5. commands' \in 0 .. MaxCommands
  BY <1>2 DEF LedgerInv
<1> HIDE DEF c, x
<1> QED
  BY <1>2, <1>3, <1>4, <1>5, OnlyBecomes

\* What is written: one more entry, of an identity the file did not have.
LEMMA AppendedOK ==
  ASSUME NEW q \in Seq(EntryType), NoneTwice(q), NEW e \in EntryType,
         \A d \in Elems(q) : IdOf(d) # IdOf(e)
  PROVE  /\ Append(q, e) \in Seq(EntryType)
         /\ NoneTwice(Append(q, e)) /\ Elems(q) \subseteq Elems(Append(q, e))
<1> DEFINE a == Append(q, e)
<1>1. /\ a \in Seq(EntryType) /\ Len(q) \in Nat /\ DOMAIN q = 1 .. Len(q)
      /\ DOMAIN a = 1 .. (Len(q) + 1)
      /\ a[Len(q) + 1] = e /\ \A i \in 1 .. Len(q) : a[i] = q[i]
  BY AppendProperties
<1> HIDE DEF a
<1>2. \A i \in 1 .. Len(q) : IdOf(a[i]) # IdOf(a[Len(q) + 1])
  BY <1>1 DEF Elems
<1>3. \A i \in 1 .. (Len(q) + 1) : i \in 1 .. Len(q) \/ i = Len(q) + 1
  BY <1>1
<1>4. NoneTwice(a)
  <2> SUFFICES ASSUME NEW i \in 1 .. (Len(q) + 1), NEW j \in 1 .. (Len(q) + 1),
                      IdOf(a[i]) = IdOf(a[j])
               PROVE  i = j
    BY <1>1 DEF NoneTwice
  <2>1. CASE i \in 1 .. Len(q) /\ j \in 1 .. Len(q)
    BY <1>1, <2>1 DEF NoneTwice
  <2> QED
    BY <1>2, <1>3, <2>1
<1>5. Elems(q) \subseteq Elems(a)
  BY <1>1 DEF Elems
<1> QED
  BY <1>1, <1>4, <1>5 DEF a

\* Files that a step leaves, replaces, or extends.
Grown(f, g) ==
  \A t \in Trees, p \in Plans : Elems(f[t][p]) \subseteq Elems(g[t][p]) /\ NoneTwice(g[t][p])

LEMMA NewEntryTyped ==
  ASSUME NEW c, Shaped(c), c.text \in Statements, \A r \in c.refs : r.id \in Ids,
         c.kind = "sync" => c.dd \in DOMAIN Design
  PROVE  NewEntry(c) \in EntryType /\ IdOf(NewEntry(c)) = Digest[c.text]
<1>1. {r.id : r \in c.refs} \in SUBSET Ids
  OBVIOUS
<1>2. (IF c.kind = "sync" THEN c.dd ELSE 0) \in 0 .. Len(Design)
  BY DesignTyped DEF Shaped
<1> QED
  BY <1>1, <1>2 DEF NewEntry, Entry, EntryType, IdOf

LEMMA WriteOK ==
  ASSUME LedgerInv, NEW s \in Authors, Write(s)
  PROVE  LedgerInv' /\ (files' # files => Grown(files, files'))
<1>1. PICK c, b : c = se[s] /\ b = Blank
  OBVIOUS
<1> DEFINE rec == [c EXCEPT !.own = <<>>, !.since = b]
<1>2. /\ Shaped(c) /\ CommandOK(c) /\ c.pc = "write" /\ c # NoCommand
      /\ files[c.tree] \in Ledgers
  BY <1>1, AtWork DEF Write, NoCommand
<1>3. /\ c.own \in Seq(EntryType) /\ \A e \in Elems(c.own) : IdOf(e) # Digest[c.text]
      /\ c.text \in Statements /\ \A r \in c.refs : r.id \in Ids
      /\ c.kind = "sync" => c.dd \in DOMAIN Design
  BY <1>2 DEF CommandOK
<1>4. Shaped(rec) /\ rec.text = c.text /\ rec.refs = c.refs /\ rec.kind = c.kind /\ rec.dd = c.dd
      /\ rec.tree = c.tree /\ rec.plan = c.plan
  BY <1>2 DEF Shaped, CommandFields
<1>5. /\ IF ~Unchanged(c)
         THEN Become(s, [rec EXCEPT !.pc = "attempt"]) /\ UNCHANGED files
         ELSE /\ files' = [files EXCEPT ![rec.tree][rec.plan] = Append(c.own, NewEntry(rec))]
              /\ Become(s, IF rec.kind = "add" THEN NoCommand
                           ELSE [rec EXCEPT !.pc = "reload", !.dd = @ + 1, !.rooted = TRUE])
      /\ UNCHANGED <<commands, merges>>
  BY <1>1 DEF Write
<1> HIDE DEF rec
<1>6. commands' \in 0 .. MaxCommands /\ merges' = merges
  BY <1>5 DEF LedgerInv
<1>7. CASE ~Unchanged(c)
  <2> DEFINE d == [rec EXCEPT !.pc = "attempt"]
  <2>1. Shaped(d) /\ d.pc = "attempt" /\ d.text = rec.text /\ d.refs = rec.refs /\ d.kind = rec.kind
        /\ d.dd = rec.dd
    BY <1>4 DEF Shaped, CommandFields
  <2>2. Become(s, d) /\ UNCHANGED files
    BY <1>5, <1>7
  <2> HIDE DEF d
  <2>3. CommandOK(d)
    BY <1>3, <1>4, <2>1 DEF CommandOK
  <2> QED
    BY <1>6, <2>2, <2>3, OnlyBecomes
<1>8. CASE Unchanged(c)
  <2> DEFINE d == [rec EXCEPT !.pc = "reload", !.dd = @ + 1, !.rooted = TRUE]
             q == Append(c.own, NewEntry(rec))
  <2>1. Become(s, IF rec.kind = "add" THEN NoCommand ELSE d)
        /\ files' = [files EXCEPT ![c.tree][c.plan] = q]
    BY <1>4, <1>5, <1>8
  <2>2. CommandOK(d) /\ CommandOK(NoCommand)
    <3>1. rec.dd + 1 \in Nat \ {0}
      BY <1>4 DEF Shaped
    <3>2. Shaped(d) /\ d.pc = "reload"
      BY <1>4, <3>1 DEF Shaped, CommandFields
    <3> QED
      BY <3>2 DEF CommandOK
  <2>3. NewEntry(rec) \in EntryType /\ IdOf(NewEntry(rec)) = Digest[c.text]
    BY <1>3, <1>4, NewEntryTyped
  <2>4. c.tree \in Trees /\ c.plan \in Plans /\ files[c.tree][c.plan] = c.own /\ NoneTwice(c.own)
    BY <1>2, <1>8 DEF Shaped, Unchanged, LedgerInv
  <2>5. q \in Seq(EntryType) /\ NoneTwice(q) /\ Elems(c.own) \subseteq Elems(q)
    BY <1>3, <2>3, <2>4, AppendedOK
  <2> HIDE DEF d, q
  <2>6. /\ files' \in [Trees -> Ledgers]
        /\ \A t \in Trees, p \in Plans :
             files'[t][p] = IF t = c.tree /\ p = c.plan THEN q ELSE files[t][p]
    BY <2>1, <2>4, <2>5 DEF LedgerInv, Ledgers
  <2>7. \A t \in Trees, p \in Plans : NoneTwice(files'[t][p]) /\ Elems(files[t][p]) \subseteq Elems(files'[t][p])
    BY <2>4, <2>5, <2>6 DEF LedgerInv
  <2>8. se' = [r \in Authors |-> se'[r]] /\ \A r \in Authors : CommandOK(se'[r])
    <3>1. PICK e : CommandOK(e) /\ Become(s, e)
      BY <2>1, <2>2
    <3> QED
      BY <3>1 DEF Become, LedgerInv
  <2> QED
    BY <1>6, <2>6, <2>7, <2>8 DEF LedgerInv, Grown
<1> QED
  BY <1>7, <1>8

LEMMA MergeOK ==
  ASSUME LedgerInv, NEW t \in Trees, NEW u \in Trees, MergeTree(t, u)
  PROVE  LedgerInv' /\ (files' # files => Grown(files, files'))
<1> DEFINE x == [p \in Plans |-> Merged(files[t][p], files[u][p])]
<1>1. files' = [files EXCEPT ![t] = x] /\ se' = se /\ commands' = commands
      /\ merges' \in 0 .. MaxMerges
  BY LedgerAssumption DEF MergeTree, LedgerInv
<1>2. \A p \in Plans : /\ files[t][p] \in Seq(EntryType) /\ files[u][p] \in Seq(EntryType)
                       /\ NoneTwice(files[t][p]) /\ NoneTwice(files[u][p])
  BY DEF LedgerInv, Ledgers
<1>3. \A p \in Plans : /\ x[p] \in Seq(EntryType) /\ NoneTwice(x[p])
                       /\ Elems(files[t][p]) \subseteq Elems(x[p])
  BY <1>2, MergedOK
<1>4. x \in Ledgers
  <2>1. \A p \in Plans : Merged(files[t][p], files[u][p]) \in Seq(EntryType)
    BY <1>3
  <2> QED
    BY <2>1 DEF Ledgers
<1> HIDE DEF x
<1>5. /\ files' \in [Trees -> Ledgers]
      /\ \A v \in Trees : files'[v] = IF v = t THEN x ELSE files[v]
  BY <1>1, <1>4 DEF LedgerInv
<1>6. \A v \in Trees, p \in Plans : NoneTwice(files'[v][p]) /\ Elems(files[v][p]) \subseteq Elems(files'[v][p])
  BY <1>3, <1>5 DEF LedgerInv
<1>7. se' = [s \in Authors |-> se'[s]] /\ \A s \in Authors : CommandOK(se'[s])
  BY <1>1 DEF LedgerInv
<1>8. commands' \in 0 .. MaxCommands
  BY <1>1 DEF LedgerInv
<1> QED
  BY <1>1, <1>5, <1>6, <1>7, <1>8 DEF LedgerInv, Grown

LEMMA LedgerStep ==
  ASSUME LedgerInv, [LedgerNext]_ledgerVars
  PROVE  LedgerInv' /\ (files' # files => Grown(files, files'))
<1>1. CASE UNCHANGED ledgerVars
  BY <1>1 DEF ledgerVars, LedgerInv
<1>2. ASSUME NEW s \in Authors, StartAdd(s) \/ StartSync(s) \/ BeginAttempt(s) \/ Judge(s) \/ Reload(s)
      PROVE  LedgerInv' /\ files' = files
  <2>1. files' = files
    BY <1>2 DEF StartAdd, StartSync, BeginAttempt, Judge, Reload
  <2> QED
    BY <1>2, <2>1, StartAddOK, StartSyncOK, BeginAttemptOK, JudgeOK, ReloadOK
<1>3. ASSUME NEW s \in Authors, Write(s) PROVE LedgerInv' /\ (files' # files => Grown(files, files'))
  BY <1>3, WriteOK
<1>4. ASSUME NEW t \in Trees, NEW u \in Trees, MergeTree(t, u)
      PROVE  LedgerInv' /\ (files' # files => Grown(files, files'))
  BY <1>4, MergeOK
<1> QED
  BY <1>1, <1>2, <1>3, <1>4 DEF LedgerNext

LEMMA LedgerInvariance == LedgerSpec => []LedgerInv
<1>1. LedgerInv /\ [LedgerNext]_ledgerVars => LedgerInv'
  BY LedgerStep
<1> QED
  BY <1>1, LedgerInitial, PTL DEF LedgerSpec

\* No command, sync or merge loses or edits a recorded decision, and none
\* makes a file that holds an identity twice: Append judges the entry on the
\* file its write is fenced by (internal/decisions), whatever the other
\* files have become since they were read.
THEOREM RecordsAreKept == LedgerSpec => RecordsKept
<1>1. LedgerInv /\ [LedgerNext]_ledgerVars =>
        [files' # files =>
           \A t \in Trees, p \in Plans :
             /\ Elems(files[t][p]) \subseteq Elems(files'[t][p])
             /\ NoneTwice(files'[t][p])]_files
  BY LedgerStep DEF Grown
<1> QED
  BY <1>1, LedgerInvariance, PTL DEF LedgerSpec, RecordsKept

\* Entries are typed, in every tree.
THEOREM LedgerIsTyped == LedgerSpec => []LedgerTypeOK
<1>1. LedgerInv => LedgerTypeOK
  BY DEF LedgerInv, LedgerTypeOK, Ledgers, CommandOK, NoCommand
<1> QED
  BY <1>1, LedgerInvariance, PTL

=============================================================================
