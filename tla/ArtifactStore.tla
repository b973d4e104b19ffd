--------------------------- MODULE ArtifactStore ---------------------------
(***************************************************************************)
(* internal/store (store.go, lock.go, replace_*.go) and the read-modify-   *)
(* write loop of internal/graph/store/store.go, at the granularity of the  *)
(* file-system calls: the sidecar flock, the read, the digest re-check,    *)
(* the staged temporary file and the rename.                               *)
(*                                                                         *)
(* A command is a read (Load), an Update (the compare-and-swap loop) or an *)
(* Init (`sdd graph init`).  The content of the artifact is the sequence   *)
(* of the operations it carries: an Update's fn appends its own.  Digests  *)
(* are collision free, so comparing digests is comparing contents.  The    *)
(* kernel releases a crashed process's lock; its staged file stays.        *)
(*                                                                         *)
(* Editors do not ask for the lock: lock.go says it is advisory.           *)
(***************************************************************************)
EXTENDS Naturals, Sequences

CONSTANTS Procs,           \* sdd processes
          Initialisers,    \* those that may run `sdd graph init`
          Editors,         \* programs that write without the lock
          Absent,          \* content of a file that does not exist
          UpdateAttempts,  \* updateAttempts (16 in the code)
          MaxOps,          \* bound: commands one process runs
          MaxEdits,        \* bound: writes one editor makes
          MaxCrashes       \* bound: processes that die mid-command

ASSUME StoreAssumption ==
  /\ Initialisers \subseteq Procs
  /\ Procs \cap Editors = {}
  /\ UpdateAttempts \in Nat \ {0}
  /\ MaxOps \in Nat /\ MaxEdits \in Nat /\ MaxCrashes \in Nat
  /\ Absent \notin Seq((Procs \cup Editors) \X Nat)

VARIABLES file,     \* content of the artifact
          lock,     \* lock[p]: flock p holds on the sidecar
          pc,       \* where p is
          kind,     \* p's command
          base,     \* p's last read: content its write is derived from
          attempt,  \* collisions of p's Update so far
          serial,   \* commands p has begun; names its operation
          staged,   \* temporary files on disk, by the operation they carry
          result,   \* what p's last finished command reported
          edits,    \* writes made by each editor
          crashes   \* processes that died so far

vars == <<file, lock, pc, kind, base, attempt, serial, staged, result, edits,
          crashes>>

Writers == Procs \cup Editors
Op(w)   == <<w, IF w \in Procs THEN serial[w] ELSE edits[w]>>
Content == Seq(Writers \X Nat) \cup {Absent}
Kinds   == {"read", "update", "init"}
Results == {"none", "ok", "error", "crashed"}
PCs     == {"idle", "stat", "rdlock", "read", "wrlock", "check", "stage",
            "rename", "recheck", "unlock"}

Init == /\ file \in {Absent, <<>>}
        /\ lock    = [p \in Procs |-> "none"]
        /\ pc      = [p \in Procs |-> "idle"]
        /\ kind    = [p \in Procs |-> "read"]
        /\ base    = [p \in Procs |-> Absent]
        /\ attempt = [p \in Procs |-> 0]
        /\ serial  = [p \in Procs |-> 0]
        /\ staged  = {}
        /\ result  = [p \in Procs |-> "none"]
        /\ edits   = [e \in Editors |-> 0]
        /\ crashes = 0

Goto(p, l) == pc' = [pc EXCEPT ![p] = l]

\* The command returns; a held lock is released on the way out (defer).
Return(p, r) == /\ Goto(p, "idle")
                /\ lock'   = [lock EXCEPT ![p] = "none"]
                /\ result' = [result EXCEPT ![p] = r]

Begin(p) ==
  /\ pc[p] = "idle"
  /\ serial[p] < MaxOps
  /\ \E k \in Kinds :
       /\ k = "init" => p \in Initialisers
       /\ kind' = [kind EXCEPT ![p] = k]
       /\ Goto(p, IF k = "init" THEN "stat" ELSE "rdlock")
  /\ serial'  = [serial EXCEPT ![p] = @ + 1]
  /\ attempt' = [attempt EXCEPT ![p] = 0]
  /\ result'  = [result EXCEPT ![p] = "none"]
  /\ UNCHANGED <<file, lock, base, staged, edits, crashes>>

\* Init looks at the path without any lock and refuses a live graph.
StatFile(p) ==
  /\ pc[p] = "stat"
  /\ base' = [base EXCEPT ![p] = file]
  /\ IF file = Absent
       THEN Goto(p, "wrlock") /\ UNCHANGED <<lock, result>>
       ELSE Return(p, "error")
  /\ UNCHANGED <<file, kind, attempt, serial, staged, edits, crashes>>

ExclusiveHolder(p) == \E q \in Procs \ {p} : lock[q] = "exclusive"
AnyHolder(p)       == \E q \in Procs \ {p} : lock[q] # "none"

AcquireShared(p) ==
  /\ pc[p] = "rdlock"
  /\ ~ExclusiveHolder(p)
  /\ lock' = [lock EXCEPT ![p] = "shared"]
  /\ Goto(p, "read")
  /\ UNCHANGED <<file, kind, base, attempt, serial, staged, result, edits,
                 crashes>>

\* The retry window closes on a busy lock: the read proceeds unguarded.
ReadUnguarded(p) ==
  /\ pc[p] = "rdlock"
  /\ ExclusiveHolder(p)
  /\ Goto(p, "read")
  /\ UNCHANGED <<file, lock, kind, base, attempt, serial, staged, result,
                 edits, crashes>>

ReadFile(p) ==
  /\ pc[p] = "read"
  /\ base' = [base EXCEPT ![p] = file]
  /\ \/ file = Absent /\ Return(p, "error")
     \/ file # Absent /\ kind[p] = "read" /\ Return(p, "ok")
     \/ /\ file # Absent /\ kind[p] # "read"
        /\ Goto(p, "wrlock")
        /\ lock' = [lock EXCEPT ![p] = "none"]
        /\ UNCHANGED result
  /\ UNCHANGED <<file, kind, attempt, serial, staged, edits, crashes>>

\* fn refuses the mutation, or the content does not encode.
FnRefuses(p) ==
  /\ pc[p] = "wrlock"
  /\ kind[p] = "update"
  /\ Return(p, "error")
  /\ UNCHANGED <<file, kind, base, attempt, serial, staged, edits, crashes>>

\* Mutant: a writer does not wait for the other holders.
AcquireExclusiveAnyway(p) ==
  /\ pc[p] = "wrlock"
  /\ lock' = [lock EXCEPT ![p] = "exclusive"]
  /\ Goto(p, IF kind[p] = "update" THEN "check" ELSE "stage")
  /\ UNCHANGED <<file, kind, base, attempt, serial, staged, result, edits,
                 crashes>>

AcquireExclusive(p) ==
  /\ pc[p] = "wrlock"
  /\ ~AnyHolder(p)
  /\ lock' = [lock EXCEPT ![p] = "exclusive"]
  /\ Goto(p, IF kind[p] = "update" THEN "check" ELSE "stage")
  /\ UNCHANGED <<file, kind, base, attempt, serial, staged, result, edits,
                 crashes>>

LockTimeout(p) ==
  /\ pc[p] = "wrlock"
  /\ AnyHolder(p)
  /\ Return(p, "error")
  /\ UNCHANGED <<file, kind, base, attempt, serial, staged, edits, crashes>>

\* Mutant of Collide: the write is retried as it is.
CollideForever(p) ==
  /\ lock' = [lock EXCEPT ![p] = "none"]
  /\ Goto(p, "wrlock")
  /\ UNCHANGED <<attempt, result>>

\* ErrConcurrentWrite: release, and let the loop re-read or give up.
Collide(p) ==
  /\ attempt' = [attempt EXCEPT ![p] = @ + 1]
  /\ lock'    = [lock EXCEPT ![p] = "none"]
  /\ IF attempt[p] + 1 < UpdateAttempts
       THEN Goto(p, "rdlock") /\ UNCHANGED result
       ELSE Goto(p, "idle") /\ result' = [result EXCEPT ![p] = "error"]

\* Mutant: the lock taken for permission to write, not to check.
CheckDigestBlind(p) ==
  /\ pc[p] = "check"
  /\ Goto(p, "stage")
  /\ UNCHANGED <<file, lock, kind, base, attempt, serial, staged, result,
                 edits, crashes>>

CheckDigest(p) ==
  /\ pc[p] = "check"
  /\ IF file = base[p]
       THEN Goto(p, "stage") /\ UNCHANGED <<attempt, lock, result>>
       ELSE Collide(p)
  /\ UNCHANGED <<file, kind, base, serial, staged, edits, crashes>>

\* Create, write, sync, close and chmod the temporary file.
Stage(p) ==
  /\ pc[p] = "stage"
  /\ staged' = staged \cup {Op(p)}
  /\ Goto(p, "rename")
  /\ UNCHANGED <<file, lock, kind, base, attempt, serial, result, edits,
                 crashes>>

StageFails(p) ==
  /\ pc[p] = "stage"
  /\ Return(p, "error")
  /\ UNCHANGED <<file, kind, base, attempt, serial, staged, edits, crashes>>

\* What the staged file holds.
NewContent(p) == IF kind[p] = "init" THEN <<>> ELSE Append(base[p], Op(p))

Rename(p) ==
  /\ pc[p] = "rename"
  /\ file'   = NewContent(p)
  /\ staged' = staged \ {Op(p)}
  /\ Goto(p, "unlock")
  /\ UNCHANGED <<lock, kind, base, attempt, serial, result, edits, crashes>>

\* Mutant: the error of a failed replace is dropped.
RenameFailsSilently(p) ==
  /\ pc[p] = "rename"
  /\ staged' = staged \ {Op(p)}
  /\ Return(p, "ok")
  /\ UNCHANGED <<file, kind, base, attempt, serial, edits, crashes>>

RenameFails(p) ==
  /\ pc[p] = "rename"
  /\ staged' = staged \ {Op(p)}
  /\ Return(p, "error")
  /\ UNCHANGED <<file, kind, base, attempt, serial, edits, crashes>>

\* Windows only: a sharing violation, retried after another digest check.
RenameTransient(p) ==
  /\ pc[p] = "rename"
  /\ Goto(p, "recheck")
  /\ UNCHANGED <<file, lock, kind, base, attempt, serial, staged, result,
                 edits, crashes>>

Recheck(p) ==
  /\ pc[p] = "recheck"
  /\ IF kind[p] = "init" \/ file = base[p]
       THEN Goto(p, "rename") /\ UNCHANGED <<attempt, lock, result, staged>>
       ELSE Collide(p) /\ staged' = staged \ {Op(p)}
  /\ UNCHANGED <<file, kind, base, serial, edits, crashes>>

Unlock(p) ==
  /\ pc[p] = "unlock"
  /\ Return(p, "ok")
  /\ UNCHANGED <<file, kind, base, attempt, serial, staged, edits, crashes>>

Crash(p) ==
  /\ pc[p] # "idle"
  /\ crashes < MaxCrashes
  /\ crashes' = crashes + 1
  /\ Return(p, "crashed")
  /\ UNCHANGED <<file, kind, base, attempt, serial, staged, edits>>

\* A program outside sdd adds its change to the content it finds.
EditorWrites(e) ==
  /\ file # Absent
  /\ edits[e] < MaxEdits
  /\ file'  = Append(file, Op(e))
  /\ edits' = [edits EXCEPT ![e] = @ + 1]
  /\ UNCHANGED <<lock, pc, kind, base, attempt, serial, staged, result,
                 crashes>>

ReadStep(p)  == \/ AcquireShared(p) \/ ReadUnguarded(p) \/ ReadFile(p)
WriteStep(p) == \/ FnRefuses(p) \/ AcquireExclusive(p) \/ LockTimeout(p)
                \/ CheckDigest(p) \/ Stage(p) \/ StageFails(p) \/ Rename(p)
                \/ RenameFails(p) \/ RenameTransient(p) \/ Recheck(p)
                \/ Unlock(p)
Step(p)      == StatFile(p) \/ ReadStep(p) \/ WriteStep(p)

Next == \/ \E p \in Procs : Begin(p) \/ Step(p) \/ Crash(p)
        \/ \E e \in Editors : EditorWrites(e)

Spec == Init /\ [][Next]_vars

(***************************************************************************)
(* A process that has begun keeps being scheduled, and a sharing violation *)
(* clears before the two-second retry window does, so a rename is tried    *)
(* with success or with failure again and again until one of them happens. *)
(***************************************************************************)
Fairness == \A p \in Procs :
              /\ WF_vars(Step(p))
              /\ SF_vars(Rename(p) \/ RenameFails(p))

FairSpec == Spec /\ Fairness

-----------------------------------------------------------------------------
(***************************************************************************)
(* Properties.                                                             *)
(***************************************************************************)
TypeOK == /\ file \in Content
          /\ lock \in [Procs -> {"none", "shared", "exclusive"}]
          /\ pc \in [Procs -> PCs]
          /\ kind \in [Procs -> Kinds]
          /\ base \in [Procs -> Content]
          /\ attempt \in [Procs -> 0 .. UpdateAttempts]
          /\ serial \in [Procs -> 0 .. MaxOps]
          /\ staged \subseteq Procs \X (0 .. MaxOps)
          /\ result \in [Procs -> Results]
          /\ edits \in [Editors -> 0 .. MaxEdits]
          /\ crashes \in 0 .. MaxCrashes

Carries(s, op) == s # Absent /\ \E i \in DOMAIN s : s[i] = op
Extends(s, t)  == /\ t # Absent
                  /\ Len(s) <= Len(t)
                  /\ \A i \in DOMAIN s : t[i] = s[i]

\* Once the graph exists no step of any session removes or reorders an
\* operation another session wrote (store.go: the lock spans the digest
\* re-check, the temp write and the rename).
NoLostWrite == [][file # Absent => Extends(file, file')]_file

\* A command's report is the truth about the artifact: an update that reported
\* success is in it, one that reported an error (refusal, lock timeout, I/O
\* error, retries exhausted) is not.
ReportsMatchFile ==
  \A p \in Procs : pc[p] = "idle" /\ kind[p] = "update" =>
     /\ result[p] = "ok"    => Carries(file, Op(p))
     /\ result[p] = "error" => ~Carries(file, Op(p))

\* Every command returns, whatever the other processes do, die of, or hold: a
\* busy lock ends in an unguarded read or a timeout, a collision in a bounded
\* number of retries.
CommandsReturn == \A p \in Procs : pc[p] # "idle" ~> pc[p] = "idle"

(***************************************************************************)
(* The strengthening that makes the properties inductive for sessions that *)
(* all ask for the lock, at most one of which may initialise the graph.    *)
(***************************************************************************)
Cooperative == Editors = {} /\ \A p, q \in Initialisers : p = q

Holding == {"check", "stage", "rename", "recheck", "unlock"}

RetriesLeft == \A p \in Procs : pc[p] # "idle" => attempt[p] < UpdateAttempts

LockDiscipline ==
  /\ \A p \in Procs : pc[p] \in Holding => lock[p] = "exclusive"
  /\ \A p, q \in Procs : p # q /\ lock[p] = "exclusive" => lock[q] = "none"

\* Which commands reach which steps, and that an update has read something.
KindAtStep ==
  \A p \in Procs :
     /\ kind[p] = "init" => p \in Initialisers
     /\ pc[p] \in {"rdlock", "read"} => kind[p] # "init"
     /\ pc[p] = "stat" => kind[p] = "init"
     /\ pc[p] = "check" => kind[p] = "update"
     /\ pc[p] \in Holding \cup {"wrlock"} => kind[p] # "read"
     /\ pc[p] \in Holding \cup {"wrlock"} /\ kind[p] = "update" =>
           base[p] # Absent

\* Past the check the content is still the one the write is derived from.
FreshBase ==
  \A p \in Procs :
     /\ kind[p] = "update" /\ pc[p] \in {"stage", "rename", "recheck"} =>
           base[p] = file
     /\ kind[p] = "init" /\ pc[p] \in {"wrlock", "stage", "rename", "recheck"} =>
           file = Absent

\* No operation of p later than its present one, and the present one only from
\* its rename on.
HistoryMatches ==
  \A p \in Procs :
     /\ \A k \in Nat : k > serial[p] => ~Carries(file, <<p, k>>)
     /\ pc[p] \notin {"idle", "unlock"} => ~Carries(file, Op(p))
     /\ pc[p] = "unlock" /\ kind[p] = "update" => Carries(file, Op(p))

IInv == /\ TypeOK /\ RetriesLeft /\ LockDiscipline /\ KindAtStep
        /\ FreshBase /\ HistoryMatches /\ ReportsMatchFile

(***************************************************************************)
(* ArtifactStore implements AtomicStore: the operation takes effect at the *)
(* rename, a read at the moment the bytes are read.                        *)
(***************************************************************************)
PhaseOf(l) == IF l = "idle" THEN "idle"
              ELSE IF l = "unlock" THEN "applied" ELSE "busy"
Phase == [p \in Procs |-> PhaseOf(pc[p])]

Atomic == INSTANCE AtomicStore WITH history <- file, phase <- Phase, view <- base

\* Commands of concurrent sessions behave as if each took effect at one instant.
ImplementsAtomicStore == Atomic!Spec
=============================================================================
