----------------------------- MODULE GraphViews -----------------------------
(***************************************************************************)
(* The documents a plan graph is shown in, and how a graph plan completes: *)
(* internal/graph/compile (render*.go, evidence.go, Run's two passes),     *)
(* cmd/sdd/graph_complete.go and set-artifacts' refresh in cmd/sdd/graph.  *)
(*                                                                         *)
(* The graph is a sequence of nodes in declaration order; a view is what   *)
(* is on disk under a phase document's name, the README what a renderer    *)
(* may touch of it and the prose it may not.  Dates are left out: every    *)
(* comparison in the code is made with the dates of the file it compares   *)
(* with.  A label is a number that says how labels sort, 0 where there is  *)
(* none; Slug is the file stem made of it, which two labels may share.     *)
(*                                                                         *)
(* A session renders in steps: preflight reads every document, then each   *)
(* document is judged and written, then the README is read and written.    *)
(* Other commands and people change the graph, the reviews and the files   *)
(* in between.  Three variables are history: proved, the observations      *)
(* nodes were closed by; overtaken, those a completing command took in     *)
(* under a closure judged before them; crossed, the sessions in whose      *)
(* command another session has written a file.                             *)
(***************************************************************************)
EXTENDS Integers, SequencesExt

CONSTANTS None, Slug,          \* label |-> file stem
          First, Added,        \* the nodes of the graph, and those compile adds
          Known,               \* the git revisions the target repository has
          Revisions,           \* the revisions nodes are observed at
          Sessions,
          MaxSeq, MaxReviews, MaxMishaps, MaxEvents \* bounds

\* A node of the graph, and what is kept of the files.
NodeIds  == {n.id : n \in Range(First) \cup Range(Added)}
Statuses == {"planned", "in-progress", "complete"}
Node     == [id : NodeIds, label : DOMAIN Slug, obs : Nat, rev : Nat, closed : BOOLEAN,
             claimed : BOOLEAN, contract : Nat]
Lines    == [id : NodeIds, contract : Nat, claimed : BOOLEAN, closed : BOOLEAN]
Evidence == [rev : Nat, repo : BOOLEAN, review : Nat \cup {None},
             recheck : {"no recheck ran", "matched", "not matched"}]
Document == [generated : BOOLEAN, frozen : BOOLEAN,
             core : [ordinal : Nat, label : DOMAIN Slug, status : Statuses, nodes : Seq(Lines)] \cup {None},
             obs : Seq(Nat), seq : Nat, evidence : Evidence \cup {None}]

ASSUME ViewsAssumption ==
  /\ IsFiniteSet(DOMAIN Slug) /\ DOMAIN Slug \subseteq Nat
  /\ \A q \in {First, Added} : /\ q \in Seq(Node) /\ IsInjective([i \in DOMAIN q |-> q[i].id])
                              /\ \A n \in Range(q) : n.obs = 0 /\ ~n.closed
  /\ None \notin Document \cup Evidence
  /\ Known \subseteq Nat \ {0} /\ Revisions \subseteq Nat
  /\ MaxSeq \in Nat /\ MaxReviews \in Nat /\ MaxMishaps \in Nat /\ MaxEvents \in Nat

VARIABLES graph,        \* [nodes, seq, completedAt]
          view,         \* document |-> None or what the file holds
          readme, reviews,
          pc, job, crashes,
          proved, overtaken, crossed   \* history

files   == <<view, readme>>
history == <<proved, overtaken, crossed>>
vars    == <<graph, view, readme, reviews, pc, job, crashes, history>>

NoJob == [cmd |-> None, g |-> None, judged |-> {}, closed |-> {}, repo |-> FALSE, todo |-> <<>>,
          doc |-> None, text |-> None, read |-> None]

-----------------------------------------------------------------------------
(***************************************************************************)
(* render.go: phases are labels, numbered as they sort, unlabeled last.    *)
(***************************************************************************)
LabelBefore(x, y) == x # 0 /\ (y = 0 \/ x < y)

Earlier(j, k)     == j < k

\* S in order: the k-th has k - 1 before it.
Ranked(S, Before(_, _)) ==
  [k \in 1 .. Cardinality(S) |-> CHOOSE x \in S : Cardinality({y \in S : Before(y, x)}) = k - 1]

NodesOf(g, label) ==
  LET at == Ranked({j \in DOMAIN g.nodes : g.nodes[j].label = label}, Earlier)
  IN  [k \in DOMAIN at |-> g.nodes[at[k]]]

GroupPhases(g) ==
  LET labels == Ranked({n.label : n \in Range(g.nodes)}, LabelBefore)
  IN  [i \in DOMAIN labels |->
         [ordinal |-> i, label |-> labels[i], doc |-> <<i, Slug[labels[i]]>>,
          nodes   |-> NodesOf(g, labels[i])]]

AllClosed(ph, closed) == ph.nodes # <<>> /\ \A n \in Range(ph.nodes) : n.id \in closed

PhaseStatus(ph, closed) ==
  IF AllClosed(ph, closed) THEN "complete"
  ELSE IF \E n \in Range(ph.nodes) : n.claimed \/ n.obs # 0 THEN "in-progress"
  ELSE "planned"

Documents == {<<i, Slug[l]>> : i \in 1 .. Cardinality(DOMAIN Slug), l \in DOMAIN Slug}

-----------------------------------------------------------------------------
(***************************************************************************)
(* evidence.go: what a closed phase says of itself.                        *)
(***************************************************************************)
\* The last git revision in declaration order; 0 where no node has one.
PhaseCheckpoint(ph) ==
  LET at == {i \in DOMAIN ph.nodes : ph.nodes[i].rev # 0}
  IN  IF at = {} THEN 0 ELSE ph.nodes[Max(at)].rev

\* The review named for the checkpoint, the first of them, else the last of
\* the document's reviews.  Every name ends in no revision at all.
FindPhaseReview(ph) ==
  LET of    == {i \in DOMAIN reviews : reviews[i].of = ph.doc}
      exact == {i \in of : PhaseCheckpoint(ph) \in {0, reviews[i].rev}}
  IN  IF exact # {} THEN Min(exact) ELSE IF of # {} THEN Max(of) ELSE None

IdentityRecheck(repo, rev) ==
  IF ~repo THEN "no recheck ran" ELSE IF rev \in Known THEN "matched" ELSE "not matched"

PhaseEvidence(ph, repo) ==
  [rev     |-> PhaseCheckpoint(ph), repo |-> repo, review |-> FindPhaseReview(ph),
   recheck |-> IdentityRecheck(repo, PhaseCheckpoint(ph))]

\* The README's evidence: None until every phase is closed and reviewed.
PlanEvidence(groups, closed) ==
  IF groups # <<>> /\ \A i \in DOMAIN groups : AllClosed(groups[i], closed)
                                               /\ FindPhaseReview(groups[i]) # None
  THEN [i \in DOMAIN groups |-> <<PhaseCheckpoint(groups[i]), FindPhaseReview(groups[i])>>]
  ELSE None

-----------------------------------------------------------------------------
(***************************************************************************)
(* render_phase.go: one document, and what a renderer may do to the file.  *)
(***************************************************************************)
\* The lines of one node, but for the observation line.
NodeLines(n, closed) ==
  [id |-> n.id, contract |-> n.contract, claimed |-> n.claimed, closed |-> n.id \in closed]

\* All of it but the evidence, the observation lines and the graph's counter.
Core(ph, closed) ==
  [ordinal |-> ph.ordinal, label |-> ph.label, status |-> PhaseStatus(ph, closed),
   nodes   |-> [i \in DOMAIN ph.nodes |-> NodeLines(ph.nodes[i], closed)]]

\* Equal to the file as it is, whatever the graph's counter has become.
SameIgnoringSeq(old, core, obs) == old.core = core /\ old.obs = obs

\* A frozen file that would not change keeps the recheck line it has.
KeepsRecheck(old, core, obs, fresh) ==
  /\ fresh.repo /\ old # None /\ old.frozen /\ old.evidence # None
  /\ SameIgnoringSeq(old, core, obs)
  /\ [old.evidence EXCEPT !.recheck = None] = [fresh EXCEPT !.recheck = None]

RenderPhaseDoc(g, ph, closed, repo, old) ==
  LET core     == Core(ph, closed)
      obs      == [i \in DOMAIN ph.nodes |-> ph.nodes[i].obs]
      fresh    == PhaseEvidence(ph, repo)
      evidence == IF KeepsRecheck(old, core, obs, fresh) THEN old.evidence ELSE fresh
  IN  [generated |-> TRUE, frozen |-> AllClosed(ph, closed), core |-> core, obs |-> obs,
       seq |-> g.seq, evidence |-> IF AllClosed(ph, closed) THEN evidence ELSE None]

\* Mutant: the contract lines are set aside with the observation lines.
ReclosedOrAmended(old, new) ==
  new.frozen /\ [i \in DOMAIN new.obs |-> new.core.nodes[i].id]
                 = [i \in DOMAIN old.obs |-> old.core.nodes[i].id]

ReclosedNoOtherChange(old, new) == new.frozen /\ new.core = old.core

\* "write", "keep" or "refuse".
PlanWrite(old, new) ==
  LET seqOnly == SameIgnoringSeq(old, new.core, new.obs)
  IN  IF old = None THEN "write"
      ELSE IF ~old.generated THEN "refuse"
      ELSE IF old = new THEN "keep"
      ELSE IF ~old.frozen THEN "write"
      ELSE IF ~(seqOnly \/ ReclosedNoOtherChange(old, new)) THEN "refuse"
      ELSE IF old.evidence # None /\ new.evidence # old.evidence THEN "refuse"
      ELSE IF seqOnly /\ new.evidence = old.evidence THEN "keep" ELSE "write"

-----------------------------------------------------------------------------
(***************************************************************************)
(* render_readme.go: the entries whose documents the graph owns, the graph *)
(* view section and the completion evidence.                               *)
(***************************************************************************)
Entry(ph, closed) ==
  [id |-> ph.ordinal, title |-> ph.label, status |-> PhaseStatus(ph, closed), doc |-> ph.doc]

Owned(e, ph) == e.doc = ph.doc /\ view[ph.doc] # None /\ view[ph.doc].generated

EntryEdit(e, ph, closed) == [e EXCEPT !.status = PhaseStatus(ph, closed), !.title = ph.label]

\* No entries field: nothing to keep up; none listed: all of them.
RefreshEntries(entries, groups, closed) ==
  IF entries = None THEN None
  ELSE IF entries = <<>> THEN [i \in DOMAIN groups |-> Entry(groups[i], closed)]
  ELSE [k \in DOMAIN entries |->
          LET owner == {i \in DOMAIN groups : Owned(entries[k], groups[i])}
          IN  IF owner = {} THEN entries[k]
              ELSE EntryEdit(entries[k], groups[CHOOSE i \in owner : TRUE], closed)]

\* An owned document that the README numbers otherwise refuses the render.
Misnumbered(entries, groups) ==
  entries # None /\ \E k \in DOMAIN entries, i \in DOMAIN groups :
                      Owned(entries[k], groups[i]) /\ entries[k].id # groups[i].ordinal

GraphViewSection(groups) == [i \in DOMAIN groups |-> <<groups[i].label, Len(groups[i].nodes)>>]

PlanReadmeUpdate(r, groups, closed) ==
  LET evidence == PlanEvidence(groups, closed)
  IN  [r EXCEPT !.entries  = RefreshEntries(@, groups, closed),
                !.section  = GraphViewSection(groups),
                !.evidence = IF evidence = None THEN @ ELSE evidence]

\* preflightViews: every refusal a render could meet, as the files are now.
Renderable(g, closed, repo) ==
  LET groups == GroupPhases(g)
  IN  /\ \A i \in DOMAIN groups :
           LET old == view[groups[i].doc]
           IN  PlanWrite(old, RenderPhaseDoc(g, groups[i], closed, repo, old)) # "refuse"
      /\ ~Misnumbered(readme.entries, groups)

-----------------------------------------------------------------------------
(***************************************************************************)
(* The graph: closed is derived, by GraphReview; here a node keeps it.     *)
(***************************************************************************)
Ids(g)        == {n.id : n \in Range(g.nodes)}
ClosedNodes(g) == {n.id : n \in {m \in Range(g.nodes) : m.closed}}

Init ==
  /\ graph = [nodes |-> First, seq |-> 0, completedAt |-> None]
  /\ view \in [Documents -> {None}] /\ reviews = <<>>
  /\ readme \in [status : {"active"}, entries : {<<>>}, section : {None},
                 evidence : {None}, prose : {0}]
  /\ pc = [s \in Sessions |-> "idle"] /\ job = [s \in Sessions |-> NoJob] /\ crashes = 0
  /\ proved = {} /\ overtaken = {} /\ crossed = {}

\* Edits by hand and crashes, bounded together.
Mishaps == readme.prose + crashes

\* Observations, reviews and mishaps together.
Eventful == graph.seq + Len(reviews) + Mishaps < MaxEvents

Goto(s, l) == pc' = [pc EXCEPT ![s] = l]
Finish(s)  == Goto(s, "idle") /\ job' = [job EXCEPT ![s] = NoJob]

\* The steps a command begins and ends with change no file.
Quietly(s) == UNCHANGED <<graph, files, reviews, crashes, history>>

\* Every other command under way now has this session's file to reckon with.
Crosses(s) == crossed' = crossed \cup {t \in Sessions \ {s} : pc[t] # "idle"}

\* The graph is read and its closure judged; both are used to the end.
Begin(s, cmd, label, closed) ==
  /\ pc[s] = "idle"
  /\ \E repo \in BOOLEAN :
       job' = [job EXCEPT ![s] = [NoJob EXCEPT !.cmd = cmd, !.g = graph, !.judged = Ids(graph),
                                               !.closed = closed, !.repo = repo]]
  /\ crossed' = crossed \ {s}
  /\ Goto(s, label) /\ UNCHANGED <<graph, files, reviews, crashes, proved, overtaken>>

-----------------------------------------------------------------------------
(***************************************************************************)
(* The commands.  renderViews' own preflight follows each of them.         *)
(***************************************************************************)
\* The graph with the new nodes in it.
Preview == [graph EXCEPT !.nodes = @ \o SelectSeq(Added, LAMBDA n : n.id \notin Ids(graph))]

\* compile: preflight over the preview.
Compile(s) ==
  /\ \E n \in Range(Added) : n.id \notin Ids(graph)
  /\ \E repo \in BOOLEAN :
       /\ Renderable(Preview, ClosedNodes(Preview), repo)
       /\ job' = [job EXCEPT ![s] = [NoJob EXCEPT !.cmd = "render", !.repo = repo,
                                                  !.closed = ClosedNodes(Preview)]]
  /\ pc[s] = "idle" /\ Goto(s, "append") /\ Quietly(s)

\* Mutant: the closure that preflight saw is rendered.
ClosureAtPreflight(s, g) == job[s].closed

ClosureAsWritten(s, g) == ClosedNodes(g)

CompileAppend(s) ==
  /\ pc[s] = "append"
  /\ IF \A n \in Range(Added) : n.id \notin Ids(graph)
     THEN /\ graph' = [graph EXCEPT !.nodes = @ \o Added]
          /\ job' = [job EXCEPT ![s].g = graph', ![s].judged = Ids(graph'),
                               ![s].closed = ClosureAsWritten(s, graph')]
          /\ Goto(s, "preflight") /\ UNCHANGED <<files, reviews, crashes, history>>
     ELSE Finish(s) /\ Quietly(s)

\* set-artifacts, once its edit is in the graph.
Rerender(s) == Begin(s, "render", "preflight", ClosedNodes(graph))

OpenNodes(nodes, closed) == {n \in nodes : n.id \notin closed \/ n.claimed}

PhaseComplete(s) ==
  /\ \E i \in DOMAIN GroupPhases(graph) :
       OpenNodes(Range(GroupPhases(graph)[i].nodes), ClosedNodes(graph)) = {}
  /\ Begin(s, "render", "preflight", ClosedNodes(graph))

\* Mutant: live claims are looked for, nodes that are not closed are not.
NothingClaimed(g) == \A n \in Range(g.nodes) : ~n.claimed

NothingOpen(g) == OpenNodes(Range(g.nodes), ClosedNodes(g)) = {}

PlanComplete(s) ==
  /\ NothingOpen(graph)
  /\ Begin(s, "plan complete", "record", ClosedNodes(graph))

\* The nodes of the graph that nothing closes and that have been observed
\* since this session judged them closed.
ObservedAnew(s) == {n \in Range(graph.nodes) :
                      ~n.closed /\ \A m \in Range(job[s].g.nodes) : <<m.id, m.obs>> # <<n.id, n.obs>>}

\* The closing identity: the HEAD there is now, the counter that was read.
\* The graph becomes the one there is now; the closure stays as judged.
RecordCompletedAt(s) ==
  /\ pc[s] = "record"
  /\ IF job[s].repo
     THEN /\ graph' = [graph EXCEPT !.completedAt = job[s].g.seq]
          /\ job' = [job EXCEPT ![s].g = graph']
          /\ overtaken' = overtaken \cup {<<n.id, n.obs>> : n \in ObservedAnew(s)}
     ELSE UNCHANGED <<graph, job, overtaken>>
  /\ Goto(s, "preflight") /\ UNCHANGED <<files, reviews, crashes, proved, crossed>>

-----------------------------------------------------------------------------
(***************************************************************************)
(* renderViewsWithRepo.                                                    *)
(***************************************************************************)
Preflight(s) ==
  /\ pc[s] = "preflight"
  /\ IF Renderable(job[s].g, job[s].closed, job[s].repo)
     THEN job' = [job EXCEPT ![s].todo = GroupPhases(job[s].g)] /\ Goto(s, "judge")
     ELSE Finish(s)
  /\ Quietly(s)

Judge(s) ==
  /\ pc[s] = "judge"
  /\ IF job[s].todo = <<>> THEN Goto(s, "readme") /\ job' = [job EXCEPT ![s].repo = FALSE]
     ELSE LET ph     == Head(job[s].todo)
              new    == RenderPhaseDoc(job[s].g, ph, job[s].closed, job[s].repo, view[ph.doc])
              chosen == PlanWrite(view[ph.doc], new)
          IN  /\ IF chosen = "refuse" THEN Finish(s)
                 ELSE IF chosen = "keep" THEN job' = [job EXCEPT ![s].todo = Tail(@)] /\ UNCHANGED pc
                 ELSE /\ job' = [job EXCEPT ![s].todo = Tail(@), ![s].doc = ph.doc, ![s].text = new]
                      /\ Goto(s, "write")
  /\ Quietly(s)

\* The write expects nothing of what it replaces.
WriteView(s) ==
  /\ pc[s] = "write"
  /\ view' = [view EXCEPT ![job[s].doc] = job[s].text]
  /\ job' = [job EXCEPT ![s].doc = None, ![s].text = None]
  /\ Crosses(s) /\ Goto(s, "judge")
  /\ UNCHANGED <<graph, readme, reviews, crashes, proved, overtaken>>

\* The README is read for its digest and again for its text.
UpdateReadme(s) ==
  /\ pc[s] = "readme"
  /\ LET groups == GroupPhases(job[s].g)
     IN  IF Misnumbered(readme.entries, groups) THEN Finish(s)
         ELSE /\ job' = [job EXCEPT ![s].text = PlanReadmeUpdate(readme, groups, job[s].closed),
                                    ![s].read = readme]
              /\ Goto(s, "commit")
  /\ Quietly(s)

\* Mutant: the README is written over whatever it has become.
ReadmeTakenOver(s) == TRUE

ReadmeAsRead(s) == readme = job[s].read

CommitReadme(s) ==
  /\ pc[s] = "commit"
  /\ LET unchanged == job[s].text = job[s].read
     IN  IF unchanged \/ ReadmeAsRead(s)
         THEN /\ readme' = IF unchanged THEN readme ELSE job[s].text
              /\ IF job[s].cmd = "plan complete"
                 THEN Goto(s, "expect") /\ job' = [job EXCEPT ![s].text = None, ![s].read = None]
                 ELSE Finish(s)
              /\ Crosses(s) /\ UNCHANGED <<graph, view, reviews, crashes, proved, overtaken>>
         ELSE Finish(s) /\ Quietly(s)

\* graphPlanComplete: the bytes as rendered, or as somebody has left them.
ExpectReadme(s) ==
  /\ pc[s] = "expect"
  /\ job' = [job EXCEPT ![s].read = readme] /\ Goto(s, "flip") /\ Quietly(s)

FlipStatus(s) ==
  /\ pc[s] = "flip"
  /\ readme' = IF ReadmeAsRead(s) THEN [readme EXCEPT !.status = "complete"] ELSE readme
  /\ Crosses(s) /\ Finish(s) /\ UNCHANGED <<graph, view, reviews, crashes, proved, overtaken>>

Killed(s) ==
  /\ pc[s] # "idle" /\ Mishaps < MaxMishaps /\ Eventful
  /\ crashes' = crashes + 1
  /\ Finish(s) /\ UNCHANGED <<graph, files, reviews, history>>

-----------------------------------------------------------------------------
(***************************************************************************)
(* Everybody else.                                                         *)
(***************************************************************************)
Update(i, n) == graph' = [graph EXCEPT !.nodes[i] = n]
Elsewhere    == UNCHANGED <<files, reviews, pc, job, crashes, overtaken, crossed>>

Claim(i) ==
  /\ ~graph.nodes[i].claimed /\ graph.nodes[i].obs = 0
  /\ Update(i, [graph.nodes[i] EXCEPT !.claimed = TRUE])
  /\ UNCHANGED proved /\ Elsewhere

\* A sync records an observation and clears the claim.
Observe(i, rev) ==
  /\ graph.seq < MaxSeq /\ Eventful
  /\ graph' = [graph EXCEPT !.seq = @ + 1,
                            !.nodes[i] = [@ EXCEPT !.obs = graph.seq + 1, !.rev = rev,
                                                   !.claimed = FALSE, !.closed = FALSE]]
  /\ UNCHANGED proved /\ Elsewhere

\* A full review passes, of everything that has been observed.
Reviewed(nodes) == [i \in DOMAIN nodes |-> [nodes[i] EXCEPT !.closed = @ \/ nodes[i].obs # 0]]

Close ==
  /\ graph' = [graph EXCEPT !.nodes = Reviewed(@)]
  /\ proved' = proved \cup {<<n.id, n.obs>> : n \in {m \in Range(graph'.nodes) : m.closed}}
  /\ Elsewhere

\* An amendment, or a finding where the contract stays.
Reopen(i, contract) ==
  /\ graph.nodes[i].closed
  /\ Update(i, [graph.nodes[i] EXCEPT !.closed = FALSE, !.contract = contract])
  /\ UNCHANGED proved /\ Elsewhere

\* A phase review is frozen over the document that is there.
Review(doc) ==
  /\ Len(reviews) < MaxReviews /\ Eventful /\ view[doc] # None
  /\ \E rev \in Revisions : reviews' = Append(reviews, [of |-> doc, rev |-> rev])
  /\ UNCHANGED <<graph, files, pc, job, crashes, history>>

\* Somebody writes prose, or a document where none is, or takes a frozen view
\* away, as the refusal tells them to, while nothing renders.
EditReadme ==
  /\ Mishaps < MaxMishaps /\ Eventful
  /\ readme' = [readme EXCEPT !.prose = @ + 1]
  /\ UNCHANGED <<graph, view, reviews, pc, job, crashes, history>>

HandWritten == [generated |-> FALSE, frozen |-> FALSE, core |-> None, obs |-> <<>>, seq |-> 0,
                evidence |-> None]

EditDocument(doc) ==
  /\ Mishaps < MaxMishaps /\ Eventful /\ \A s \in Sessions : pc[s] = "idle"
  /\ \/ view[doc] = None /\ view' = [view EXCEPT ![doc] = HandWritten]
     \/ view[doc] # None /\ view[doc].frozen /\ view' = [view EXCEPT ![doc] = None]
  /\ readme' = [readme EXCEPT !.prose = @ + 1]
  /\ UNCHANGED <<graph, reviews, pc, job, crashes, history>>

Step(s) ==
  \/ Compile(s) \/ CompileAppend(s) \/ Rerender(s) \/ PhaseComplete(s)
  \/ PlanComplete(s) \/ RecordCompletedAt(s)
  \/ Preflight(s) \/ Judge(s) \/ WriteView(s) \/ UpdateReadme(s) \/ CommitReadme(s)
  \/ ExpectReadme(s) \/ FlipStatus(s) \/ Killed(s)

Others ==
  \/ \E i \in DOMAIN graph.nodes :
       \/ Claim(i) \/ \E rev \in Revisions : Observe(i, rev)
       \/ Reopen(i, graph.nodes[i].contract) \/ Reopen(i, 1)
  \/ Close \/ EditReadme \/ \E d \in Documents : Review(d) \/ EditDocument(d)

Next == (\E s \in Sessions : Step(s)) \/ Others

Spec == Init /\ [][Next]_vars

-----------------------------------------------------------------------------
(***************************************************************************)
(* Properties.                                                             *)
(***************************************************************************)
\* Only closed work is evidenced, and what the graph holds is numbered by it.
TypeOK ==
  /\ graph.completedAt # None => graph.completedAt <= graph.seq
  /\ graph.nodes \in Seq(Node)
  /\ \A n \in Range(graph.nodes) : n.obs \in 0 .. graph.seq /\ (n.closed => n.obs # 0)
  /\ view \in [Documents -> Document \cup {None}]
  /\ \A d \in DOMAIN view : view[d] # None /\ view[d].generated
       => /\ (view[d].frozen <=> view[d].core.status = "complete")
          /\ (view[d].frozen <=> view[d].evidence # None)
  /\ readme.entries = None \/ \A k \in DOMAIN readme.entries : readme.entries[k].doc \in Documents
  /\ pc \in [Sessions -> {"idle", "append", "record", "preflight", "judge", "write", "readme",
                          "commit", "expect", "flip"}]

\* "Every node in this phase is closed": of each node a frozen view shows an
\* observation that closed it, whatever happened to the graph in between, or
\* one the plan's completion took in after it had judged.
FrozenMeansClosed ==
  /\ TypeOK
  /\ \A d \in DOMAIN view : view[d] # None /\ view[d].frozen =>
       \A i \in DOMAIN view[d].obs :
         <<view[d].core.nodes[i].id, view[d].obs[i]>> \in proved \cup overtaken

\* A frozen view is history: no command thaws it or rewrites its evidence,
\* and of its nodes it only ever renews the observations.
FrozenViewsKept ==
  [][\A d \in DOMAIN view : view[d] # None /\ view'[d] # None /\ view[d].frozen
       => /\ view'[d].frozen /\ view'[d].core = view[d].core
          /\ view'[d].evidence = view[d].evidence]_vars

\* What somebody writes into the README while a command renders stays.
EditsSurvive == [][readme'.prose >= readme.prose]_vars

\* The phases of the graph a session renders that had all their nodes when
\* it judged them.
JudgedPhases(s) ==
  {ph \in Range(GroupPhases(job[s].g)) : \A n \in Range(ph.nodes) : n.id \in job[s].judged}

\* The README says that the plan is complete only over views that say so of
\* every phase that was judged, and its own entries do not contradict it,
\* unless another session wrote a file meanwhile.
CompletedPlanIsRendered ==
  [][readme.status # "complete" /\ readme'.status = "complete"
       => \E s \in Sessions :
            /\ pc[s] = "flip"
            /\ s \notin crossed => \A ph \in JudgedPhases(s) :
                 /\ view[ph.doc] # None /\ view[ph.doc].frozen
                 /\ readme.entries # None => \A k \in DOMAIN readme.entries :
                      readme.entries[k].doc = ph.doc => readme.entries[k].status = "complete"]_vars
=============================================================================
