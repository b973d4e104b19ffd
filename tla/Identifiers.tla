---------------------------- MODULE Identifiers ----------------------------
(***************************************************************************)
(* How a v1 artifact and the identifiers of its items (FR-01, AC-02) are   *)
(* written: `sdd apply`, `section set`, `migrate` and the lifecycle verbs  *)
(* of cmd/sdd on top of the compiler of internal/compile, and the append-  *)
(* only rule of internal/rules/appendonly.go that compares HEAD with the   *)
(* working tree and the index.                                             *)
(*                                                                         *)
(* The artifact has one section of items in one namespace and prose that   *)
(* cites them; an item is its number and the form of its line.  A number   *)
(* is 0 where the author wrote none.  A command reads the artifact,        *)
(* computes what to write, and writes later; each write is one step        *)
(* (ArtifactStore shows why it may be).                                    *)
(***************************************************************************)
EXTENDS Naturals, Sequences, FiniteSets

CONSTANTS Sessions,     \* processes that run sdd on this artifact
          NoDoc,        \* the artifact does not exist
          Payloads,     \* what authors send: contents whose status may be unstated
          Retirements,  \* values of --retire: sets of numbers
          Verbs,        \* <<from, to>>: the status changes the verbs make
          MaxNum,       \* bound: highest number an item gets
          MaxCommands   \* bound: commands begun

\* The forms of a line: a definition; one struck as the rules read it; one of
\* which only the identifier is struck; one inside a fenced block.
Forms  == {"live", "struck", "idStruck", "fenced"}
Item   == {x \in [num : 0 .. MaxNum, form : Forms] :
             x.num = 0 => x.form \in {"live", "fenced"}}
Status == {"draft", "complete"} \cup UNION {{v[1], v[2]} : v \in Verbs}
\* What the schema requires and an artifact lacks: a section, a field that has
\* a default, a field that has none.
Gaps   == {"section", "defaulted", "field"}
\* cites: the numbers its prose cites.
Doc    == [status : Status, lacks : SUBSET Gaps, cites : SUBSET Nat, items : Seq(Item)]

Unstated == "unstated"

ASSUME IdentifierAssumption ==
  /\ MaxNum \in Nat /\ MaxCommands \in Nat
  /\ Payloads \subseteq [status : Status \cup {Unstated}, lacks : SUBSET Gaps,
                         cites : SUBSET Nat, items : Seq(Item)]
  /\ Retirements \subseteq SUBSET Nat
  /\ NoDoc \notin Doc

VARIABLES doc,       \* the artifact in the working tree
          index,     \* the artifact as staged
          head,      \* the artifact at HEAD
          seen,      \* seen[s]: the version whose digest the caller of s holds
          cmd,       \* cmd[s]: the command s is in
          begun,     \* commands begun so far
          givenUp,   \* history: numbers an author gave up since HEAD
          compiled   \* history: what has changed the items since HEAD was a
                     \* compile of the version it replaced

idVars == <<doc, index, head, seen, cmd, begun, givenUp, compiled>>

-----------------------------------------------------------------------------
\* What each reader finds in a section: the compiler in an existing artifact
\* (fenced lines are not visible), in a payload (every line), and the rule.
Numbers(items, forms) ==
  {items[i].num : i \in {j \in DOMAIN items : items[j].form \in forms}} \ {0}
Live(items)     == Numbers(items, {"live"})
Retired(items)  == Numbers(items, {"struck", "idStruck"})
Declared(items) == Numbers(items, Forms)
Retained(items) == Numbers(items, {"live", "struck"})

\* An artifact that does not exist has nothing.
Items(d) == IF d = NoDoc THEN <<>> ELSE d.items

\* SDD154: the numbers a baseline defines and d neither has nor retires.
Removed(base, d) == Live(Items(base)) \ Retained(Items(d))

\* What it reports: HEAD against the working tree and against the index.
AppendOnlyFindings == UNION {Removed(head, d) : d \in {doc, index}}

Highest(S) == CHOOSE n \in S \cup {0} : \A m \in S : m <= n

Frozen(d) == d # NoDoc /\ d.status = "complete"

-----------------------------------------------------------------------------
(* The identifiers of a payload. *)

Unnumbered(items) == {i \in DOMAIN items : items[i].num = 0}

\* What a rewrite may hand on: live, not restated, not given up.
Free(old, items, k, retire) ==
  IF k = "supersede" THEN (Live(Items(old)) \ Declared(items)) \ retire ELSE {}

\* The k-th line without a number takes the k-th free one.
Takes(free, items, i, n) ==
  /\ n \in free
  /\ Cardinality({m \in free : m < n})
       = Cardinality({j \in Unnumbered(items) : j < i})

Carried(free, items, i) == \E n \in free : Takes(free, items, i, n)

\* Numbers are counted on from the highest that is live, retired or declared.
NextFree(old, items) ==
  Highest(Live(Items(old)) \cup Retired(Items(old)) \cup Declared(items))

Assigned(old, items, free, i) ==
  IF Carried(free, items, i)
    THEN CHOOSE n \in free : Takes(free, items, i, n)
    ELSE NextFree(old, items)
           + Cardinality({j \in Unnumbered(items) : j <= i /\ ~Carried(free, items, j)})

Numbered(old, items, free) ==
  [i \in DOMAIN items |->
     IF items[i].num = 0
       THEN [items[i] EXCEPT !.num = Assigned(old, items, free, i)]
       ELSE items[i]]

\* A number new to the artifact continues the live ones without a gap.
NewIdAcceptable(old, items, n) ==
  LET top == Highest(Live(Items(old)))
  IN n > top /\ \A m \in top + 1 .. n - 1 : m \in Declared(items)

\* SPK030: a plain line may carry a live number or the next new one.
KnownOrNext(old, items) ==
  old # NoDoc =>
    \A n \in Numbers(items, {"live", "fenced"}) \ Live(Items(old)) :
       n \notin Retired(Items(old)) /\ NewIdAcceptable(old, items, n)

Missing(old, out) == Live(Items(old)) \ Declared(out)

\* The numbers a compile reports as retired: those --retire names, and what a
\* rewrite has no line for.
Reported(old, out, k, retire) ==
  IF k = "supersede" THEN Missing(old, out) ELSE Missing(old, out) \cap retire

\* Mutant: restated numbers are counted, not looked up.
AccountedByCount(old, out, k, retire) ==
  \/ Missing(old, out) = Reported(old, out, k, retire)
  \/ Cardinality(Declared(out)) >= Cardinality(Live(Items(old)))

\* SPK031: a live number that is not written again is given up on purpose.
Accounted(old, out, k, retire) ==
  Missing(old, out) = Reported(old, out, k, retire)

\* SPK021: a status in a payload is an assertion about the artifact.
ToolFieldConsistent(old, p) ==
  p.status = Unstated \/ (old # NoDoc /\ p.status = old.status)

Stamped(old) == IF old = NoDoc THEN "draft" ELSE old.status

\* Migration fills what can be filled; any other compile takes no gap.
GapsTaken(p, upgrade, stubs) ==
  IF upgrade THEN "section" \in p.lacks => stubs ELSE p.lacks = {}

\* SPK040: what the prose cites is an item of the section as it is written.
CitationsResolve(p, out) == p.cites \subseteq Live(out) \cup Retired(out)

\* The artifact that is written: a field without a default stays missing.
Emitted(old, p, out) ==
  [status |-> Stamped(old), lacks |-> p.lacks \cap {"field"}, cites |-> p.cites,
   items |-> out]

-----------------------------------------------------------------------------
Idle == [kind |-> "none"]

Expecting   == {"apply", "supersede", "create", "section", "migrate"}
Compiling   == {"apply", "supersede", "create", "migrate", "sweep"}

\* What a command of kind k takes for the existing artifact.
Existing(k, d) == IF k = "create" THEN NoDoc ELSE d

IdentifierInit ==
  /\ doc \in {NoDoc} \cup {[p EXCEPT !.status = "draft"] : p \in Payloads}
  /\ index = doc /\ head = doc
  /\ seen = [s \in Sessions |-> NoDoc]
  /\ cmd = [s \in Sessions |-> Idle]
  /\ begun = 0 /\ givenUp = {} /\ compiled = TRUE

\* sdd show: the caller learns the digest it may pass as --expect.
Show(s) ==
  /\ cmd[s] = Idle /\ seen[s] # doc
  /\ seen' = [seen EXCEPT ![s] = doc]
  /\ UNCHANGED <<doc, index, head, cmd, begun, givenUp, compiled>>

Ready(s) == cmd[s] = Idle /\ begun < MaxCommands

Begins(s, c) ==
  /\ begun' = begun + 1
  /\ cmd' = [cmd EXCEPT ![s] = c]
  /\ UNCHANGED <<doc, index, head, seen, givenUp, compiled>>

\* The digest passed as --expect is that of the artifact.
ExpectMatches(s) == doc # NoDoc /\ seen[s] = doc

\* Compile: p against the artifact of kind k's command, as a pending write.
Compiles(s, k, p, stubs, retire, expect) ==
  LET old  == Existing(k, doc)
      free == Free(old, p.items, k, retire)
      out  == Numbered(old, p.items, free)
  IN /\ GapsTaken(p, k \in {"migrate", "sweep"}, stubs)
     /\ ToolFieldConsistent(old, p)
     /\ KnownOrNext(old, p.items)
     /\ Accounted(old, out, k, retire)
     /\ CitationsResolve(p, out)
     /\ Declared(out) \subseteq 1 .. MaxNum
     /\ Begins(s, [kind |-> k, saw |-> doc, from |-> p.items, expect |-> expect,
                   out |-> Emitted(old, p, out),
                   retired |-> Reported(old, out, k, retire)])

\* sdd apply, with and without --supersede, --create, --retire and --expect.
Apply(s) ==
  /\ Ready(s)
  /\ \E k \in {"apply", "supersede", "create"}, p \in Payloads,
       retire \in Retirements, expect \in BOOLEAN :
       /\ expect => ExpectMatches(s)
       /\ k = "supersede" => doc # NoDoc
       /\ ~Frozen(Existing(k, doc))
       /\ Compiles(s, k, p, FALSE, retire, expect)

\* sdd migrate: the artifact compiled against itself, its gaps filled.  The
\* sweep of --all does it to every artifact it finds.
Migrate(s) ==
  /\ Ready(s) /\ doc # NoDoc
  /\ \E k \in {"migrate", "sweep"}, allowFrozen, stubs \in BOOLEAN :
       /\ Frozen(doc) => allowFrozen
       /\ Compiles(s, k, doc, stubs, {}, FALSE)

\* One section, of items or of prose, as the author typed it.
SectionReplaced(d, p) ==
  {[d EXCEPT !.items = p.items], [d EXCEPT !.cites = p.cites]}

\* sdd section set.
SectionSet(s) ==
  /\ Ready(s) /\ doc # NoDoc /\ ~Frozen(doc)
  /\ \E p \in Payloads, expect \in BOOLEAN : \E out \in SectionReplaced(doc, p) :
       /\ expect => ExpectMatches(s)
       /\ Begins(s, [kind |-> "section", saw |-> doc, from |-> out.items,
                     expect |-> expect, out |-> out, retired |-> {}])

-----------------------------------------------------------------------------
\* c replaces the artifact, written by a command of s.
Replaces(s, c) ==
  LET own == cmd[s].kind \in Compiling /\ doc = Existing(cmd[s].kind, cmd[s].saw)
  IN /\ doc' = c
     /\ compiled' = (compiled /\ (own \/ Items(c) = Items(doc)))
     /\ givenUp' = givenUp \cup (Declared(Items(c)) \ Live(Items(c)))
                     \cup (IF own THEN cmd[s].retired ELSE {})

\* Mutant: a compare-and-swap that only looks at who is there.
WriteExpectingBlind(s) ==
  /\ cmd[s].kind \in Expecting
  /\ Replaces(s, cmd[s].out)
  /\ cmd' = [cmd EXCEPT ![s] = Idle]
  /\ UNCHANGED <<index, head, seen, begun>>

\* WriteAtomicExpecting: an artifact that has changed since is left alone.
WriteExpecting(s) ==
  /\ cmd[s].kind \in Expecting
  /\ IF doc = cmd[s].saw THEN Replaces(s, cmd[s].out)
                         ELSE UNCHANGED <<doc, givenUp, compiled>>
  /\ cmd' = [cmd EXCEPT ![s] = Idle]
  /\ UNCHANGED <<index, head, seen, begun>>

\* WriteAtomic, by the sweep.
WriteSwept(s) ==
  /\ cmd[s].kind = "sweep"
  /\ Replaces(s, cmd[s].out)
  /\ cmd' = [cmd EXCEPT ![s] = Idle]
  /\ UNCHANGED <<index, head, seen, begun>>

(* A lifecycle verb judges the artifact with its new status in place. *)

Transition(s) ==
  /\ Ready(s) /\ doc # NoDoc
  /\ \E v \in Verbs :
       /\ doc.status = v[1]
       /\ Begins(s, [kind |-> "before", saw |-> doc, from |-> doc.items,
                     expect |-> FALSE, out |-> [doc EXCEPT !.status = v[2]],
                     retired |-> {}])

\* What is there is kept,
ReadOriginal(s) ==
  /\ cmd[s].kind = "before"
  /\ cmd' = [cmd EXCEPT ![s].kind = "gate", ![s].saw = doc]
  /\ UNCHANGED <<doc, index, head, seen, begun, givenUp, compiled>>

\* and the candidate put where the rules look.
PlaceCandidate(s) ==
  /\ cmd[s].kind = "gate"
  /\ Replaces(s, cmd[s].out)
  /\ cmd' = [cmd EXCEPT ![s].kind = "judge"]
  /\ UNCHANGED <<index, head, seen, begun>>

\* Judged: the original goes back, and the verb goes on or is refused.
JudgeCandidate(s) ==
  /\ cmd[s].kind = "judge"
  /\ Replaces(s, cmd[s].saw)
  /\ \/ cmd' = [cmd EXCEPT ![s].kind = "final"]
     \/ cmd' = [cmd EXCEPT ![s] = Idle]
  /\ UNCHANGED <<index, head, seen, begun>>

WriteStatus(s) ==
  /\ cmd[s].kind = "final"
  /\ Replaces(s, cmd[s].out)
  /\ cmd' = [cmd EXCEPT ![s] = Idle]
  /\ UNCHANGED <<index, head, seen, begun>>

Die(s) ==
  /\ cmd[s] # Idle
  /\ cmd' = [cmd EXCEPT ![s] = Idle]
  /\ UNCHANGED <<doc, index, head, seen, begun, givenUp, compiled>>

(* git add and git commit. *)

StageDoc ==
  /\ index # doc
  /\ index' = doc
  /\ UNCHANGED <<doc, head, seen, cmd, begun, givenUp, compiled>>

Commit ==
  /\ head # index
  /\ head' = index
  /\ IF index = doc THEN givenUp' = {} /\ compiled' = TRUE
                    ELSE UNCHANGED <<givenUp, compiled>>
  /\ UNCHANGED <<doc, index, seen, cmd, begun>>

IdentifierNext ==
  \/ \E s \in Sessions :
       \/ Show(s) \/ Apply(s) \/ Migrate(s) \/ SectionSet(s)
       \/ WriteExpecting(s) \/ WriteSwept(s)
       \/ Transition(s) \/ ReadOriginal(s) \/ PlaceCandidate(s)
       \/ JudgeCandidate(s) \/ WriteStatus(s)
       \/ Die(s)
  \/ StageDoc \/ Commit

IdentifierSpec == IdentifierInit /\ [][IdentifierNext]_idVars

-----------------------------------------------------------------------------
(***************************************************************************)
(* Properties.                                                             *)
(***************************************************************************)
Pending(s) == cmd[s].kind \in Compiling

IdsAreNew(c) ==
  LET old == Existing(c.kind, c.saw)
      out == c.out.items
  IN \A i \in Unnumbered(c.from) :
       /\ \A j \in DOMAIN out : j # i => out[j].num # out[i].num
       /\ out[i].num \notin Retired(Items(old)) \ Live(Items(old))
       /\ c.kind # "supersede" => out[i].num \notin Live(Items(old))

\* A number the tool writes on a line is on no other line, is no number the
\* artifact retired, and without --supersede none it has: the numbers of a
\* payload are all claimed before one is handed out (compile.go:727).
AssignedIdsAreNew == \A s \in Sessions : Pending(s) => IdsAreNew(cmd[s])

\* As long as the items change by compiles of what they replace, each number
\* the append-only rule finds missing was given up: a command reported it as
\* retired, or an author wrote its line in another form than the plain one.
FindingsAreExplained ==
  compiled => AppendOnlyFindings \subseteq givenUp

\* An edit that lands, however many commands run at once, continues the
\* artifact it replaces: the status stays with the lifecycle verbs, nothing
\* complete is rewritten, a retired number is not brought back by a compile
\* (SPK030), and with --expect nothing is lost that its caller has not seen.
EditsContinueTheDocument ==
  [][\A s \in Sessions :
       /\ cmd[s].kind \in {"apply", "supersede", "section"} /\ cmd'[s] = Idle
       /\ doc' # doc
       => /\ doc # NoDoc => doc'.status = doc.status /\ ~Frozen(doc)
          /\ cmd[s].kind # "section" =>
               (Retired(Items(doc)) \ Live(Items(doc))) \cap Live(Items(doc')) = {}
          /\ cmd[s].expect => doc = seen[s]]_idVars
=============================================================================
