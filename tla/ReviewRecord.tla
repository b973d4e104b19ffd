---------------------------- MODULE ReviewRecord ----------------------------
(***************************************************************************)
(* A plan's review artifacts over their whole life: scaffolded, edited,    *)
(* resolved (cmd/sdd/review.go), superseded by a sibling                   *)
(* (cmd/sdd/review_supersede.go), and checked by the review rules          *)
(* (internal/rules/reviews.go) while the plan they belong to is completed, *)
(* converted to a graph and amended.                                       *)
(*                                                                         *)
(* A file of reviews/ is its number.  The frontmatter and body the rules   *)
(* read are `content`, one of Contents; the verbs own the rest.  Verbs of  *)
(* two clerks do not overlap unless Overlap, and no clerk dies between the *)
(* two writes of a gate unless KilledInGate: the commands take no lock and *)
(* keep no journal.                                                        *)
(***************************************************************************)
EXTENDS Integers, Sequences, FiniteSets

CONSTANTS ReviewTasks,      \* the tasks a review may track its findings in
          Contents,         \* what authors write into a review
          MaxNumber,        \* files reviews/ may come to hold
          MaxOpen,          \* of them, those worked on at a time
          Overlap, KilledInGate

ASSUME RecordAssumption == MaxNumber \in Nat

VARIABLES reviews,          \* number -> {} or the one artifact there
          anchors,          \* where each task is to be found in the plan
          closing,          \* the reviews a complete phase rests on: none or one
          verb              \* the verb that is running: none or one

recordVars == <<reviews, anchors, closing, verb>>

Numbers == 1..MaxNumber
Written == {n \in Numbers : reviews[n] # {}}

Elems(s) == {s[i] : i \in DOMAIN s}
Repeated(s) == {s[i].id : i \in {i \in DOMAIN s : \E j \in 1..(i - 1) : s[j].id = s[i].id}}

Terminal == {"fixed", "deferred", "rejected", "answered"}

-----------------------------------------------------------------------------
\* The rules.  A finding has an id, a form (whether it is a mapping with its
\* required fields), a status, an action, a body section and, in the
\* resolution log, a disposition ("" without an entry) and the tasks and
\* nodes its entry cites.  A finding of a rule is <<code, what about>>.

FormErrors(c) ==
    {<<"SDD083", f.id>> : f \in {f \in Elems(c.findings) : f.form # "fine"}}
        \cup {<<"SDD092", f.id>> : f \in {f \in Elems(c.followups) : f.form # "fine"}}

StatusErrors(c) ==
    {<<"SDD086", f.id>> : f \in {f \in Elems(c.findings) : f.status \notin Terminal \cup {"open"}}}

BodyErrors(c) == {<<"SDD087", f.id>> : f \in {f \in Elems(c.findings) : ~f.body}}

LogErrors(c) ==
    LET closed == {f \in Elems(c.findings) : f.status # "open"}
    IN {<<"SDD088", f.id>> : f \in {f \in closed : f.log = ""}}
           \cup {<<"SDD089", f.id>> : f \in {f \in closed : f.log \notin {"", f.status}}}

DuplicateErrors(c) ==
    {<<"SDD090", id>> : id \in Repeated(c.findings)} \cup {<<"SDD097", id>> : id \in Repeated(c.followups)}

\* Verdict Amend hands open findings to `sdd graph amend`, each with an action.
Actioned(c, f) == c.verdict = "Amend" /\ f.status = "open" /\ f.action \in {"revise", "extend"}

OpenErrors(r) ==
    {<<"SDD091", "open">> : f \in {f \in Elems(r.content.findings) :
                                     /\ r.status = "resolved"
                                     /\ f.status = "open" /\ ~Actioned(r.content, f)}}

FollowupErrors(c) ==
    {<<"SDD094", f.id>> : f \in {f \in Elems(c.followups) :
                                   f.of \notin {g.id : g \in Elems(c.findings)}}}
        \cup {<<"SDD095", f.id>> : f \in {f \in Elems(c.followups) : f.task = ""}}

\* A review in a plan's reviews/ belongs to that plan, whose phases declare
\* the tasks and whose graph, once there is one, the nodes and the retired
\* ids.  TasksOnly_Anchored forgets the graph.
IsTask(at, id) == id \in ReviewTasks /\ at[id] = "task"
TasksOnly_Anchored(at, id) == IsTask(at, id)
Anchored(at, id) == IsTask(at, id) \/ (id \in ReviewTasks /\ at[id] \in {"node", "retired"})

TrackedErrors(at, c) ==
    {<<"SDD096", f.id>> : f \in {f \in Elems(c.followups) : f.task # "" /\ ~Anchored(at, f.task)}}

\* A log entry cites a task by its number, which only a phase document
\* resolves, or a node by its id, which only the graph does.
Cited(at, x) == IF x.as = "task" THEN IsTask(at, x.id)
                ELSE Anchored(at, x.id) /\ ~IsTask(at, x.id)

DeferralErrors(at, c) ==
    LET tracked == {f.of : f \in {f \in Elems(c.followups) : f.task # "" /\ Anchored(at, f.task)}}
    IN {<<"SDD098", f.id>> : f \in {f \in Elems(c.findings) :
            f.status = "deferred" /\ f.id \notin tracked /\ ~\E x \in f.cites : Cited(at, x)}}

\* rs is the directory as some moment has it.
Says(rs, n, link, m) == \E r \in rs[n] : m \in r[link]

LinkErrors(rs, n, r) ==
    LET missing(link) == {m \in r[link] : rs[m] = {}}
        unmatched(link, back) == {m \in r[link] : rs[m] # {} /\ ~Says(rs, m, back, n)}
        standing == {m \in r.supersedes : Says(rs, m, "by", n)
                                          /\ \E o \in rs[m] : o.status # "superseded"}
    IN (IF (r.status = "superseded") = (r.by # {}) THEN {} ELSE {<<"SDD099", "status">>})
           \cup {<<"SDD100", m>> : m \in missing("supersedes") \cup missing("by")}
           \cup {<<"SDD101", m>> : m \in unmatched("supersedes", "by") \cup unmatched("by", "supersedes")}
           \cup {<<"SDD102", m>> : m \in standing}

\* The frontmatter of a phase review names what was reviewed, lane by lane.
LaneErrors(r) == IF r.scope = "phase" /\ ~r.lanes THEN {<<"SDD167", "lanes">>} ELSE {}

ErrorsOn(rs, at, n) ==
    UNION {FormErrors(r.content) \cup StatusErrors(r.content) \cup BodyErrors(r.content)
             \cup LogErrors(r.content) \cup DuplicateErrors(r.content) \cup OpenErrors(r)
             \cup FollowupErrors(r.content) \cup TrackedErrors(at, r.content)
             \cup DeferralErrors(at, r.content) \cup LinkErrors(rs, n, r) \cup LaneErrors(r)
           : r \in rs[n]}

ClosesPhase(r) == /\ r.scope = "phase" /\ r.status = "resolved" /\ r.frozen
                  /\ r.content.verdict = "Aligned" /\ r.lanes

\* On the phase, which is not among the numbers.  Document_PhaseErrors is a
\* sweep of the review alone.
Document_PhaseErrors(rs) == {}
PhaseErrors(rs) == {<<0, <<"SDD167", n>>>> : n \in {n \in closing : ~\E r \in rs[n] : ClosesPhase(r)}}

\* What a sweep of the plan reports, each finding with the artifact it is on.
Sweep(rs, at) ==
    PhaseErrors(rs) \cup UNION {{<<n, e>> : e \in ErrorsOn(rs, at, n)} : n \in Numbers}

Introduced(before, after) == after \ before
Introduced_ArtifactErrors(before, after, n) == {e \in after \ before : e[1] = n}
ArtifactErrors(before, after, n) == {e \in after : e[1] = n}

-----------------------------------------------------------------------------
Empty == [verdict |-> "Aligned", findings |-> <<>>, followups |-> <<>>]

Fresh(scope) ==
    [status |-> "open", frozen |-> FALSE, scope |-> scope, lanes |-> FALSE,
     content |-> Empty, supersedes |-> {}, by |-> {}]

RecordInit ==
    /\ reviews = [n \in Numbers |-> {}]
    /\ anchors = [t \in ReviewTasks |-> "task"]
    /\ closing = {}
    /\ verb = {}

\* One past the highest number present.
NextNumber == IF Written = {} THEN 1 ELSE 1 + CHOOSE n \in Written : \A m \in Written : m <= n

Idle == verb = {} \/ Overlap

Room == /\ NextNumber \in Numbers
        /\ Cardinality({n \in Written : \E r \in reviews[n] : r.status = "open"}) < MaxOpen

\* Whether a review is meant to gate something: a phase, or as a `frozen:`
\* field says, a node of the graph.
Freezes(r) == r.scope \in {"phase", "node"}

\* `review scaffold` starts a phase review, authors the others.
ScaffoldReview(scope) ==
    /\ Idle /\ Room
    /\ reviews' = [reviews EXCEPT ![NextNumber] = {Fresh(scope)}]
    /\ UNCHANGED <<anchors, closing, verb>>

\* `review scaffold --force` replaces a review, but a frozen one.
Rescaffold(n) ==
    /\ Idle
    /\ \E r \in reviews[n] :
        /\ ~r.frozen /\ r.scope = "phase" /\ r.supersedes = {}
        /\ reviews' = [reviews EXCEPT ![n] = {Fresh("phase")}]
    /\ UNCHANGED <<anchors, closing, verb>>

EditReview(n, c) ==
    /\ Idle
    /\ \E r \in reviews[n] : /\ ~r.frozen /\ r.content # c
                            /\ reviews' = [reviews EXCEPT ![n] = {[r EXCEPT !.content = c]}]
    /\ UNCHANGED <<anchors, closing, verb>>

\* `review evidence set`, lane by lane.
FillLanes(n) ==
    /\ Idle
    /\ \E r \in reviews[n] : /\ ~r.frozen /\ ~r.lanes
                            /\ reviews' = [reviews EXCEPT ![n] = {[r EXCEPT !.lanes = TRUE]}]
    /\ UNCHANGED <<anchors, closing, verb>>

\* What a crashed supersede left behind is cleaned up by hand.
RemoveOrphan(n) ==
    /\ Idle
    /\ \E r \in reviews[n] : /\ ~r.frozen
                            /\ \E m \in r.supersedes : \A o \in reviews[m] : o.by # {n}
    /\ reviews' = [reviews EXCEPT ![n] = {}]
    /\ UNCHANGED <<anchors, closing, verb>>

-----------------------------------------------------------------------------
\* `review supersede`: the sibling takes over the range, the scope and the
\* lanes, and nothing of the content.
Successor(r, n) ==
    [Fresh(r.scope) EXCEPT !.lanes = r.lanes, !.supersedes = {n}]

Retired(r, new) == [r EXCEPT !.status = "superseded", !.by = {new}]

BeginSupersede(n) ==
    /\ Idle /\ verb = {} /\ Room
    /\ \E r \in reviews[n] :
        /\ r.frozen
        /\ verb' = {[name |-> "supersede", pc |-> "scaffold", on |-> n, new |-> NextNumber,
                     read |-> r, as |-> Retired(r, NextNumber), before |-> {}]}
    /\ UNCHANGED <<reviews, anchors, closing>>

WriteSuccessor ==
    \E v \in verb :
        /\ v.pc = "scaffold"
        /\ reviews' = [reviews EXCEPT ![v.new] = {Successor(v.read, v.on)}]
        /\ verb' = {[v EXCEPT !.pc = "gate"]}
        /\ UNCHANGED <<anchors, closing>>

\* `review resolve`: what it asks of the review before any sweep.
Resolvable(r, accepted) ==
    LET c == r.content
    IN /\ r.status \in {"open", "resolved"} /\ ~r.frozen
       /\ r.status = "resolved" => Freezes(r)
       /\ r.scope = "phase" => c.verdict \in {"Aligned", "Amend"} /\ r.lanes
       /\ \A f \in Elems(c.findings) : f.status \in Terminal \/ Actioned(c, f)
       /\ c.verdict = "Amend" => \E f \in Elems(c.findings) : Actioned(c, f)
       /\ accepted \/ \A f \in Elems(c.followups) : f.task # ""

BeginResolve(n, accepted) ==
    /\ Idle /\ verb = {}
    /\ \E r \in reviews[n] :
        /\ Resolvable(r, accepted)
        /\ verb' = {[name |-> "resolve", pc |-> IF r.scope = "phase" THEN "gate" ELSE "write",
                     on |-> n, new |-> n, read |-> r,
                     as |-> [r EXCEPT !.status = "resolved", !.frozen = Freezes(r)], before |-> {}]}
    /\ UNCHANGED <<reviews, anchors, closing>>

\* Both gates sweep with the candidate in the artifact's place.
PlaceCandidate ==
    \E v \in verb :
        /\ v.pc = "gate"
        /\ verb' = {[v EXCEPT !.pc = "sweep", !.before = Sweep(reviews, anchors)]}
        /\ reviews' = [reviews EXCEPT ![v.on] = {v.as}]
        /\ UNCHANGED <<anchors, closing>>

\* supersede minds what its transition introduces, resolve whatever is wrong
\* with the review it is about to freeze.
Refuses(v, after) ==
    IF v.name = "supersede" THEN Introduced(v.before, after)
                            ELSE ArtifactErrors(v.before, after, v.on)

JudgeCandidate ==
    \E v \in verb :
        LET refused == Refuses(v, Sweep(reviews, anchors)) # {}
        IN /\ v.pc = "sweep"
           /\ reviews' = [reviews EXCEPT ![v.on] = {v.read}]
           /\ verb' = IF ~refused THEN {[v EXCEPT !.pc = "write"]}
                      ELSE IF v.name = "supersede" THEN {[v EXCEPT !.pc = "undo"]} ELSE {}
           /\ UNCHANGED <<anchors, closing>>

WriteVerdict ==
    \E v \in verb :
        /\ v.pc = "write"
        /\ reviews' = [reviews EXCEPT ![v.on] = {v.as}]
        /\ verb' = {}
        /\ UNCHANGED <<anchors, closing>>

\* A refused supersede takes its scaffold back.
UndoScaffold ==
    \E v \in verb :
        /\ v.pc = "undo"
        /\ reviews' = [reviews EXCEPT ![v.new] = {}]
        /\ verb' = {}
        /\ UNCHANGED <<anchors, closing>>

KillClerk ==
    /\ \E v \in verb : KilledInGate \/ v.pc # "sweep"
    /\ verb' = {}
    /\ UNCHANGED <<reviews, anchors, closing>>

-----------------------------------------------------------------------------
\* The plan around the reviews.

\* `phase complete` on a final aligned review the rules accept.
CompletePhase(n) ==
    /\ Idle /\ closing = {}
    /\ \A t \in ReviewTasks : anchors[t] = "task"
    /\ \E r \in reviews[n] : ClosesPhase(r)
    /\ closing' = {n}
    /\ UNCHANGED <<reviews, anchors, verb>>

\* `graph convert` and the compile that follows: the tasks become nodes, the
\* phase documents views without tasks or reviews of their own.
ConvertPlan ==
    /\ Idle
    /\ \A t \in ReviewTasks : anchors[t] = "task"
    /\ anchors' = [t \in ReviewTasks |-> "node"]
    /\ closing' = {}
    /\ UNCHANGED <<reviews, verb>>

\* An amendment or a rebuild takes a node away; its id stays registered.
RetireTask(t) ==
    /\ Idle /\ anchors[t] = "node"
    /\ anchors' = [anchors EXCEPT ![t] = "retired"]
    /\ UNCHANGED <<reviews, closing, verb>>

RecordNext ==
    \/ \E scope \in {"phase", "node", "advisory"} : ScaffoldReview(scope)
    \/ \E n \in Numbers : \/ Rescaffold(n) \/ FillLanes(n) \/ RemoveOrphan(n)
                         \/ BeginSupersede(n) \/ CompletePhase(n)
                         \/ \E c \in Contents : EditReview(n, c)
                         \/ \E accepted \in BOOLEAN : BeginResolve(n, accepted)
    \/ WriteSuccessor \/ PlaceCandidate \/ JudgeCandidate \/ WriteVerdict \/ UndoScaffold
    \/ KillClerk \/ ConvertPlan
    \/ \E t \in ReviewTasks : RetireTask(t)

RecordSpec == RecordInit /\ [][RecordNext]_recordVars

-----------------------------------------------------------------------------
\* A frozen phase review has no defect that only an edit could mend, however
\* the plan changes around it: not in its findings, its lanes, its follow-ups
\* or its links.  (A deferred finding that cites its task by number in the
\* log loses it to a conversion: SDD098 reads such a citation in the phase
\* documents alone.)
FrozenIsSettled ==
    verb = {} => \A n \in Written : \A r \in reviews[n] :
        r.scope = "phase" /\ r.frozen =>
            \A e \in ErrorsOn(reviews, anchors, n) : e[1] = "SDD098"

\* Between verbs, what a complete phase rests on still closes it, and of two
\* reviews of which one names the other as its predecessor, either both know
\* it or the successor is a leftover that was never frozen as a phase review.
SuccessionHolds ==
    verb = {} =>
        /\ \A n \in closing : \E r \in reviews[n] : ClosesPhase(r)
        /\ \A n \in Written : \A r \in reviews[n] :
            /\ \A m \in r.by : Says(reviews, m, "supersedes", n) /\ r.status = "superseded"
            /\ \A m \in r.supersedes : \/ Says(reviews, m, "by", n)
                                       \/ ~(r.frozen /\ r.scope = "phase")
=============================================================================
