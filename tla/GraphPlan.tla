----------------------------- MODULE GraphPlan -----------------------------
(***************************************************************************)
(* How a plan graph gets its nodes: internal/graph/proposal (propose,      *)
(* assemble), internal/graph/compile (Run) and the structural commands of  *)
(* internal/graph/ops (split, retire, gc of staged payloads).              *)
(*                                                                         *)
(* A session runs one command at a time and may be killed between two of   *)
(* its steps.  A step reads or writes one file; gstore.Update is one step. *)
(* The graph file is node, order (its ids as they were appended), retired, *)
(* records and seq; the workspace holds the staged fragments frag, the     *)
(* fragment-order high-water mark and the assembled proposal.  A fragment  *)
(* id is a number: what counts is how ids sort.                            *)
(*                                                                         *)
(* offered, replaced, restructured, outrun and saw are history: the node   *)
(* ids that propose accepted; those of an assembled set that went because  *)
(* another took its place or was taken for it; how many splits and         *)
(* retirements there were; the nodes that compile appended when there had  *)
(* been one since it read the graph it judged them against, with those     *)
(* that already waited for one; and what each gate's latest review was     *)
(* over.                                                                   *)
(***************************************************************************)
EXTENDS GraphRules

CONSTANTS Ids,                 \* node ids
          Proposals,           \* the payloads sessions stage
          Splits,              \* id |-> the children payloads it is split into
          Records,             \* the provenance records retire may attach
          Docs, Plan, Inputs,  \* the documents, the plan's README, what resolves
          Sessions,
          Legacy,              \* observations without a reviewed set
          MaxFragment, MaxSeq, MaxCommands, MaxCrashes, ReserveAttempts   \* bounds

Source == IdentifierSources(Docs, Plan, Inputs)

Fields == {"deps", "gate", "full", "role", "rev", "obs", "lanes", "command", "tests", "hazards",
           "written", "cites", "phase", "artifacts", "inputs", "claim"}

\* What the decoder lets through: a declared node is neither claimed nor
\* observed, and at its first revision.
WellFormed(p) ==
  /\ p \in Seq(Range(p)) /\ p # <<>>
  /\ \A i \in DOMAIN p :
       /\ p[i].id \in Ids /\ p[i].node = [f \in Fields |-> p[i].node[f]]
       /\ p[i].node.deps \subseteq Ids /\ p[i].node.rev = 1
       /\ p[i].node.obs = None /\ p[i].node.claim = None

ASSUME PlanAssumption ==
  /\ IsFiniteSet(Ids) /\ None \notin Ids
  /\ "graph" \notin Ids         \* what a finding about no node is about
  /\ \A p \in Proposals \cup UNION {Splits[n] : n \in DOMAIN Splits} : WellFormed(p)
  /\ DOMAIN Splits \subseteq Ids
  /\ Plan \in DOMAIN Docs
  /\ \A i \in UNION {Docs[d].ids : d \in DOMAIN Docs} :       \* else see Citations
       Cardinality(Definers(Source, i) \cap Source.direct) <= 2
  /\ Legacy \in BOOLEAN
  /\ MaxFragment \in Nat /\ MaxSeq \in Nat /\ MaxCommands \in Nat
  /\ MaxCrashes \in Nat /\ ReserveAttempts \in Nat

VARIABLES node, order, retired, records, seq,   \* the graph file
          frag, mark, assembled,                \* the workspace
          pc, job, crashes, begun,
          offered, replaced, restructured, outrun, saw      \* history

graphFile == <<node, order, retired, records, seq>>
workspace == <<frag, mark, assembled>>
bounds    == <<crashes, begun>>
history   == <<offered, replaced, restructured, outrun, saw>>
vars == <<node, order, retired, records, seq, frag, mark, assembled, pc, job, crashes, begun,
          offered, replaced, restructured, outrun, saw>>

NoJob == [cmd |-> None, payload |-> <<>>, path |-> 0, names |-> {}, mark |-> 0, tries |-> 0,
          candidate |-> 0, base |-> None,
          knew |-> 0,      \* restructured, as compile read the graph
          read |-> {}]     \* the nodes of the payload that gc read

Init ==
  /\ node = [n \in {} |-> None] /\ order = <<>> /\ retired = {} /\ seq = 0
  /\ records = [n \in {} |-> None]
  /\ frag = [f \in {} |-> <<>>] /\ mark = 0 /\ assembled = None
  /\ pc = [s \in Sessions |-> "idle"] /\ job = [s \in Sessions |-> NoJob] /\ crashes = 0 /\ begun = 0
  /\ offered = {} /\ replaced = {} /\ restructured = 0 /\ outrun = {} /\ saw = [n \in Ids |-> {}]

Without(f, x) == [y \in DOMAIN f \ {x} |-> f[y]]
With(f, x, v) == [y \in DOMAIN f \cup {x} |-> IF y = x THEN v ELSE f[y]]

Begin(s) == pc[s] = "idle" /\ begun < MaxCommands /\ begun' = begun + 1

Goto(s, l)  == pc' = [pc EXCEPT ![s] = l]
Finish(s)   == Goto(s, "idle") /\ job' = [job EXCEPT ![s] = NoJob]
Refuse(s)   == Finish(s) /\ UNCHANGED <<graphFile, workspace, bounds, history>>

-----------------------------------------------------------------------------
(***************************************************************************)
(* staging.go, order.go: propose reserves a fragment id and writes it.     *)
(***************************************************************************)
Propose(s, p, candidate) ==
  /\ Begin(s) /\ candidate \in 1 .. MaxFragment
  /\ Declared(p) \cap DOMAIN node = {}
  /\ job' = [job EXCEPT ![s] = [NoJob EXCEPT !.cmd = "propose", !.payload = p,
                                             !.candidate = candidate]]
  /\ Goto(s, "reserve")
  /\ UNCHANGED <<graphFile, workspace, crashes, history>>

\* The id after both the mark and every staged fragment, clocks set back or not.
NextFragment(candidate, m, fs) ==
  LET last == Max({m} \cup fs)
  IN  IF candidate > last THEN candidate ELSE last + 1

ReserveRead(s) ==
  /\ pc[s] = "reserve"
  /\ LET next == NextFragment(job[s].candidate, mark, DOMAIN frag)
     IN  /\ next <= MaxFragment
         /\ job' = [job EXCEPT ![s].path = next, ![s].mark = mark]
  /\ Goto(s, "reserved")
  /\ UNCHANGED <<graphFile, workspace, bounds, history>>

MarkExpected(s) == mark = job[s].mark

ReserveWrite(s) ==
  /\ pc[s] = "reserved"
  /\ IF MarkExpected(s)
     THEN mark' = job[s].path /\ Goto(s, "park") /\ UNCHANGED job
     ELSE /\ UNCHANGED mark
          /\ IF job[s].tries + 1 < ReserveAttempts
             THEN Goto(s, "reserve") /\ job' = [job EXCEPT ![s].tries = @ + 1]
             ELSE Finish(s)
  /\ UNCHANGED <<graphFile, frag, assembled, bounds, history>>

Park(s) ==
  /\ pc[s] = "park"
  /\ frag' = With(frag, job[s].path, job[s].payload)
  /\ offered' = offered \cup Declared(job[s].payload)
  /\ Finish(s)
  /\ UNCHANGED <<graphFile, mark, assembled, bounds, replaced, restructured, outrun, saw>>

-----------------------------------------------------------------------------
(***************************************************************************)
(* staging.go: assemble merges what is staged and consumes it.             *)
(***************************************************************************)
StagedNodes(fs) ==
  LET upTo[k \in 0 .. MaxFragment] ==
        IF k = 0 THEN <<>> ELSE upTo[k - 1] \o (IF k \in fs THEN frag[k] ELSE <<>>)
  IN  upTo[MaxFragment]

\* The fragments' nodes in staging order; None where two declare one node.
MergedFragments(fs) ==
  LET all == StagedNodes(fs)
  IN  IF Cardinality(Declared(all)) = Len(all) THEN all ELSE None

Assemble(s) ==
  /\ Begin(s)
  /\ DOMAIN frag # {}
  /\ job' = [job EXCEPT ![s] = [NoJob EXCEPT !.cmd = "assemble", !.names = DOMAIN frag]]
  /\ Goto(s, "merge")
  /\ UNCHANGED <<graphFile, workspace, crashes, history>>

AssembleMerge(s) ==
  /\ pc[s] = "merge"
  /\ IF job[s].names \subseteq DOMAIN frag /\ MergedFragments(job[s].names) # None
     THEN /\ job' = [job EXCEPT ![s].payload = MergedFragments(job[s].names)]
          /\ Goto(s, "assemble")
          /\ UNCHANGED <<graphFile, workspace, bounds, history>>
     ELSE Refuse(s)

InAssembled == IF assembled = None THEN {} ELSE Declared(assembled)

\* A set assembled before is written over, compiled or not.
AssembleWrite(s) ==
  /\ pc[s] = "assemble"
  /\ assembled' = job[s].payload
  /\ replaced' = replaced \cup (InAssembled \ Declared(job[s].payload))
  /\ Goto(s, "consume")
  /\ UNCHANGED <<graphFile, frag, mark, job, bounds, offered, restructured, outrun, saw>>

\* One removal; a fragment that is gone already ends the command.
AssembleConsume(s) ==
  /\ pc[s] = "consume"
  /\ IF job[s].names = {} \/ Min(job[s].names) \notin DOMAIN frag THEN Refuse(s)
     ELSE /\ frag' = Without(frag, Min(job[s].names))
          /\ job' = [job EXCEPT ![s].names = @ \ {Min(@)}]
          /\ UNCHANGED <<graphFile, mark, assembled, pc, bounds, history>>

-----------------------------------------------------------------------------
(***************************************************************************)
(* compile.go: select, judge against the graph read before, append, remove *)
(* the payload.  Path 0 is the assembled proposal.                         *)
(***************************************************************************)
\* selectProposal: the assembled set, else the one fragment there is.
Selected ==
  IF assembled # None THEN {0} ELSE IF Cardinality(DOMAIN frag) = 1 THEN DOMAIN frag ELSE {}

Payload(path) == IF path = 0 THEN assembled ELSE frag[path]
Present(path) == IF path = 0 THEN assembled # None ELSE path \in DOMAIN frag

\* The file goes, whether or not it is the one whose nodes were read.
RemovePayload(path, read) ==
  IF path = 0 THEN /\ assembled' = None /\ UNCHANGED frag
                   /\ replaced' = replaced \cup (InAssembled \ read)
              ELSE frag' = Without(frag, path) /\ UNCHANGED <<assembled, replaced>>

Acceptable(b, p) == Findings(b.node, b.retired, b.records, p, Source) = {}

ThisGraph == [node |-> node, retired |-> retired, records |-> records]

CompileLoad(s) ==
  /\ Begin(s)
  /\ job' = [job EXCEPT ![s] = [NoJob EXCEPT !.cmd = "compile", !.base = ThisGraph,
                                             !.knew = restructured]]
  /\ Goto(s, "select")
  /\ UNCHANGED <<graphFile, workspace, crashes, history>>

Compile(s) ==
  /\ pc[s] = "select"
  /\ LET chosen == {path \in Selected : Acceptable(job[s].base, Payload(path))}
     IN  IF chosen = {} THEN Refuse(s)
         ELSE /\ job' = [job EXCEPT ![s].path = CHOOSE path \in chosen : TRUE,
                                    ![s].payload = Payload(CHOOSE path \in chosen : TRUE),
                                    ![s].base = None]
              /\ Goto(s, "append")
              /\ UNCHANGED <<graphFile, workspace, bounds, history>>

AllNew(p) == Declared(p) \cap Range(order) = {}

\* The nodes of p in g, and those that depend on one.
Reached(g, p) == {n \in DOMAIN g : ({n} \cup DependencyClosure(g, n)) \cap Declared(p) # {}}

CompileAppend(s) ==
  /\ pc[s] = "append"
  /\ LET p == job[s].payload
     IN  IF AllNew(p)
         THEN /\ order' = order \o [i \in DOMAIN p |-> p[i].id]
              /\ node' = Merged(node, {}, p)
              /\ outrun' = outrun \cup (IF job[s].knew = restructured THEN {} ELSE Reached(node', p))
              /\ Goto(s, "remove")
              /\ UNCHANGED <<retired, records, seq, workspace, job, bounds, offered, replaced, restructured,
                            saw>>
         ELSE Refuse(s)

CompileConsume(s) ==
  /\ pc[s] = "remove"
  /\ IF Present(job[s].path)
     THEN /\ RemovePayload(job[s].path, Declared(job[s].payload)) /\ Finish(s)
          /\ UNCHANGED <<graphFile, mark, bounds, offered, restructured, outrun, saw>>
     ELSE Refuse(s)

-----------------------------------------------------------------------------
(***************************************************************************)
(* ops.go: split, retire and the payloads gc takes away.                   *)
(***************************************************************************)
\* A child keeps of its parent what it does not declare.
Inherits(c, parent) ==
  [c EXCEPT !.deps    = IF @ = {} THEN parent.deps ELSE @,
            !.hazards = IF @ = None THEN parent.hazards ELSE @,
            !.phase   = IF @ = None THEN parent.phase ELSE @]

\* What a review recorded without a reviewed set was of, as it stands.
LegacyReviewedSet(g, r, scope) ==
  [m \in IF scope = {} THEN PresentDeps(g, r) ELSE scope |-> g[m].rev]

\* Mutant: a legacy review is left to assume whatever its scope becomes.
UnpinnedReview(g, r, n) == g[r].obs

\* A legacy review over the node that goes is pinned to the scope it had.
PinnedReview(g, r, n) ==
  IF g[r].gate = "review" /\ g[r].obs # None /\ n \in DependencyClosure(g, r)
  THEN IF g[r].obs.reviewed = None
       THEN [g[r].obs EXCEPT !.reviewed =
               LegacyReviewedSet(g, r, ReviewScopeFromStates(g, r, Derive(g)))]
       ELSE g[r].obs
  ELSE g[r].obs

Rewired(deps, n, children) == IF n \in deps THEN (deps \ {n}) \cup children ELSE deps

SplitAllowed(n, p) ==
  /\ n \in DOMAIN node /\ node[n].claim = None
  /\ Len(p) >= 2 /\ Cardinality(Declared(p)) = Len(p)
  /\ Declared(p) \cap (retired \cup DOMAIN node) = {}

AfterSplit(n, p) ==
  LET children == Merged([m \in {} |-> None], {}, p)
  IN  [m \in (DOMAIN node \ {n}) \cup Declared(p) |->
         IF m \in Declared(p) THEN Inherits(children[m], node[n])
         ELSE [node[m] EXCEPT !.obs  = PinnedReview(node, m, n),
                              !.deps = Rewired(@, n, Declared(p))]]

\* Whoever read the graph before judges what is no longer there.
Restructure ==
  /\ restructured' = restructured + 1 /\ UNCHANGED <<offered, replaced, outrun, saw>>

\* Mutant: the graph is not judged again once the node is gone.
SplitJudgedBefore(n, p) == Acceptable(ThisGraph, <<>>)

SplitClean(n, p) ==
  Introduced(Validate(node, retired, records, Source),
             Validate(AfterSplit(n, p), retired \cup {n}, records, Source)) = {}

Split(s, n, p) ==
  /\ Begin(s) /\ SplitAllowed(n, p) /\ SplitClean(n, p)
  /\ node' = AfterSplit(n, p)
  /\ order' = RemoveAt(order, CHOOSE i \in DOMAIN order : order[i] = n) \o [i \in DOMAIN p |-> p[i].id]
  /\ retired' = retired \cup {n}
  /\ Restructure /\ UNCHANGED <<records, seq, workspace, pc, job, crashes>>

RetireAllowed(id) == id \notin DOMAIN node /\ id \notin retired

Retire(s, id) ==
  /\ Begin(s) /\ RetireAllowed(id)
  /\ retired' = retired \cup {id}
  /\ Restructure /\ UNCHANGED <<node, order, records, seq, workspace, pc, job, crashes>>

\* retirement.go: provenance once attached to an id never changes.
RetireWithSource(s, id, record) ==
  /\ Begin(s) /\ record.verified /\ id \notin DOMAIN node
  /\ id \in DOMAIN records => records[id] = record
  /\ retired' = retired \cup {id}
  /\ records' = With(records, id, record)
  /\ RetirementProblems(node, retired', records') = {}
  /\ Restructure /\ UNCHANGED <<node, order, seq, workspace, pc, job, crashes>>

GC(s) ==
  /\ Begin(s)
  /\ job' = [job EXCEPT ![s] = [NoJob EXCEPT !.cmd = "gc",
       !.payload = order,       \* the ids of the graph as gc read it
       !.names   = DOMAIN frag \cup (IF assembled # None THEN {0} ELSE {})]]
  /\ Goto(s, "gc")
  /\ UNCHANGED <<graphFile, workspace, crashes, history>>

\* Mutant: a payload is stale once any of its nodes landed.
StaleOnceBegun(p, ids) == Declared(p) \cap Range(ids) # {}

Stale(p, ids) == Declared(p) \subseteq Range(ids)

GCRead(s) ==
  /\ pc[s] = "gc"
  /\ IF job[s].names = {} THEN Refuse(s)
     ELSE LET path == IF job[s].names = {0} THEN 0 ELSE Min(job[s].names \ {0})
          IN
            /\ IF Present(path) /\ Stale(Payload(path), job[s].payload)
               THEN /\ job' = [job EXCEPT ![s].names = @ \ {path}, ![s].path = path,
                                          ![s].read = Declared(Payload(path))]
                    /\ Goto(s, "gcremove")
               ELSE /\ job' = [job EXCEPT ![s].names = @ \ {path}, ![s].path = path,
                                          ![s].read = {}]
                    /\ UNCHANGED pc
            /\ UNCHANGED <<graphFile, workspace, bounds, history>>

GCRemove(s) ==
  /\ pc[s] = "gcremove"
  /\ IF Present(job[s].path)
     THEN /\ RemovePayload(job[s].path, job[s].read) /\ Goto(s, "gc")
          /\ UNCHANGED <<graphFile, mark, job, bounds, offered, restructured, outrun, saw>>
     ELSE Refuse(s)

-----------------------------------------------------------------------------
\* A sync or a recorded review, elsewhere: a node of the frontier passes.
Observe(n) ==
  LET scope == ReviewScopeFromStates(node, n, Derive(node))
  IN  /\ n \in Frontier(node) /\ seq < MaxSeq
      /\ seq' = seq + 1
      /\ \E old \in IF node[n].gate = "review" THEN {TRUE, FALSE} ELSE {TRUE} :
           /\ ~old \/ node[n].gate # "review" \/ Legacy
           /\ node' = [node EXCEPT ![n].obs =
                 [result |-> "pass", seq |-> seq + 1, rev |-> node[n].rev, clean |-> TRUE,
                  reviewed |-> IF old THEN None ELSE [m \in scope |-> node[m].rev]]]
           /\ saw' = [saw EXCEPT ![n] = IF old THEN DOMAIN LegacyReviewedSet(node, n, scope) ELSE scope]
      /\ UNCHANGED <<order, retired, records, workspace, pc, job, bounds, offered, replaced,
                     restructured, outrun>>

Killed(s) ==
  /\ pc[s] # "idle" /\ crashes < MaxCrashes
  /\ crashes' = crashes + 1
  /\ Finish(s)
  /\ UNCHANGED <<graphFile, workspace, begun, history>>

(* The commands: each hands its flags and files to one operation. *)

ProposeCommand(s) ==
  \/ \E p \in Proposals, c \in 1 .. MaxFragment : Propose(s, p, c)
  \/ ReserveRead(s) \/ ReserveWrite(s) \/ Park(s)
AssembleCommand(s) == Assemble(s) \/ AssembleMerge(s) \/ AssembleWrite(s) \/ AssembleConsume(s)
\* The decisions that compile copies first are DecisionLedger's, its views GraphViews'.
CompileCommand(s)  == CompileLoad(s) \/ Compile(s) \/ CompileAppend(s) \/ CompileConsume(s)
SplitCommand(s)    == \E n \in DOMAIN Splits : \E p \in Splits[n] : Split(s, n, p)
\* With the flags of a historical source, or without any of them.
RetireCommand(s) ==
  \E id \in DOMAIN Records : Retire(s, id) \/ \E r \in Records[id] : RetireWithSource(s, id, r)

Step(s) ==
  \/ ProposeCommand(s) \/ AssembleCommand(s) \/ CompileCommand(s)
  \/ SplitCommand(s) \/ RetireCommand(s)
  \/ GC(s) \/ GCRead(s) \/ GCRemove(s)

Next == (\E s \in Sessions : Step(s) \/ Killed(s)) \/ \E n \in DOMAIN node : Observe(n)

Spec == Init /\ [][Next]_vars

-----------------------------------------------------------------------------
(***************************************************************************)
(* Properties.                                                             *)
(***************************************************************************)
\* The graph file lists the nodes it has, the fragments are what sessions
\* staged, and an assembled set declares each of its nodes once.
TypeOK ==
  /\ DOMAIN node \subseteq Ids /\ Range(order) = DOMAIN node
  /\ \A n \in DOMAIN node : /\ node[n].deps \subseteq Ids
                            /\ node[n].obs # None => node[n].obs.seq <= seq
  /\ DOMAIN records \subseteq retired /\ seq \in 0 .. MaxSeq
  /\ DOMAIN frag \subseteq 1 .. MaxFragment /\ mark \in 0 .. MaxFragment
  /\ Range(frag) \subseteq Proposals
  /\ assembled # None => Len(assembled) = Cardinality(Declared(assembled))
  /\ pc \in [Sessions -> {"idle", "reserve", "reserved", "park", "merge", "assemble", "consume",
                          "select", "append", "remove", "gc", "gcremove"}]

\* An id names one node, and once retired it names none; except one that
\* compile appended after it was retired, on a register it had read before.
IdentifiersAreStable == IsInjective(order) /\ retired \cap DOMAIN node \subseteq outrun

\* The nodes that a finding is about.
About(f) ==
  IF f[1] # "graph" THEN {f[1]}
  ELSE IF f[2][1] = "cycle" THEN f[2][2]
  ELSE IF f[2][1] = "not retired" THEN {f[2][2]} ELSE {}

\* What compile and split accept, together with what other sessions made of
\* the graph meanwhile, is a well-typed graph in which an id names one node.
\* Compile would accept it again but for nodes that it appended itself to a graph
\* that was split, or had ids retired, since it judged them, and those that
\* waited for one of these.
CompiledGraphIsClean ==
  /\ TypeOK /\ IdentifiersAreStable
  /\ DOMAIN node # {} => \A f \in Validate(node, retired, records, Source) :
                           About(f) # {} /\ About(f) \subseteq outrun

\* What propose accepted is staged until it is in the graph, whoever is killed
\* while assembling, compiling or collecting it; except the nodes of an
\* assembled set that was replaced before it was compiled.
StagedWorkNotLost ==
  offered \subseteq DOMAIN node \cup retired \cup InAssembled \cup replaced \cup
                    UNION {Declared(frag[f]) : f \in DOMAIN frag}

\* No review is GREEN over a node it did not see, whatever split made of its
\* scope and whichever binary recorded it.
ReviewsCoverWhatTheySaw ==
  LET st == Derive(node)
  IN  \A r \in DOMAIN node : node[r].gate = "review" /\ st[r].state = "GREEN"
        => ReviewScopeFromStates(node, r, st) \subseteq saw[r]
=============================================================================
