---------------------------- MODULE AtomicStore ----------------------------
(***************************************************************************)
(* What internal/store and internal/graph/store promise their callers: one *)
(* artifact (the plan's graph file) that behaves as a single object whose  *)
(* operations take effect at one instant.  An update is applied to the     *)
(* latest content, once; a read returns a content the artifact really had; *)
(* a command that reports an error changed nothing; only a crash leaves    *)
(* the caller not knowing.                                                 *)
(*                                                                         *)
(* The content is the sequence of the operations applied so far, so what   *)
(* the properties can tell apart is which operations are in it and in what *)
(* order.  ArtifactStore implements this specification.                    *)
(***************************************************************************)
EXTENDS Naturals, Sequences

CONSTANTS Procs,     \* the sdd processes sharing one planning root
          Absent,    \* the content of a file that does not exist
          MaxOps     \* bound: commands one process runs

VARIABLES history,   \* operations applied, in order; or Absent
          kind,      \* the command a process runs
          phase,     \* "idle", "busy" (not yet effective), "applied"
          view,      \* what the process last read
          serial,    \* commands the process has begun
          result     \* what the last finished command reported

vars == <<history, kind, phase, view, serial, result>>

Kinds   == {"read", "update", "init"}
Results == {"none", "ok", "error", "crashed"}

Op(p) == <<p, serial[p]>>

Init == /\ history \in {Absent, <<>>}
        /\ kind   = [p \in Procs |-> "read"]
        /\ phase  = [p \in Procs |-> "idle"]
        /\ view   = [p \in Procs |-> Absent]
        /\ serial = [p \in Procs |-> 0]
        /\ result = [p \in Procs |-> "none"]

Begin(p) == /\ phase[p] = "idle"
            /\ serial[p] < MaxOps
            /\ \E k \in Kinds : kind' = [kind EXCEPT ![p] = k]
            /\ phase'  = [phase EXCEPT ![p] = "busy"]
            /\ serial' = [serial EXCEPT ![p] = @ + 1]
            /\ result' = [result EXCEPT ![p] = "none"]
            /\ UNCHANGED <<history, view>>

\* The process sees the content the artifact has now.
Look(p) == /\ phase[p] = "busy"
           /\ view' = [view EXCEPT ![p] = history]
           /\ UNCHANGED <<history, kind, phase, serial, result>>

\* The update takes effect on whatever the content is at that instant.
Apply(p) == /\ phase[p] = "busy"
            /\ kind[p] = "update"
            /\ history # Absent
            /\ history' = Append(history, Op(p))
            /\ phase' = [phase EXCEPT ![p] = "applied"]
            /\ UNCHANGED <<kind, view, serial, result>>

Create(p) == /\ phase[p] = "busy"
             /\ kind[p] = "init"
             /\ history = Absent
             /\ history' = <<>>
             /\ phase' = [phase EXCEPT ![p] = "applied"]
             /\ UNCHANGED <<kind, view, serial, result>>

Finish(p, r) == /\ phase'  = [phase EXCEPT ![p] = "idle"]
                /\ result' = [result EXCEPT ![p] = r]
                /\ UNCHANGED <<history, kind, serial>>

Succeed(p) == phase[p] = "applied" /\ Finish(p, "ok") /\ UNCHANGED view

\* A read reports what the artifact holds at the instant it returns from disk.
Read(p) == /\ phase[p] = "busy"
           /\ kind[p] = "read"
           /\ view' = [view EXCEPT ![p] = history]
           /\ Finish(p, "ok")

Fail(p) == /\ phase[p] = "busy"
           /\ view' \in {view, [view EXCEPT ![p] = history]}
           /\ Finish(p, "error")

Crash(p) == phase[p] # "idle" /\ Finish(p, "crashed") /\ UNCHANGED view

Next == \E p \in Procs : \/ Begin(p)
                         \/ Look(p)
                         \/ Apply(p)
                         \/ Create(p)
                         \/ Succeed(p)
                         \/ Read(p)
                         \/ Fail(p)
                         \/ Crash(p)

Spec == Init /\ [][Next]_vars
=============================================================================
