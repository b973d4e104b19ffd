--------------------------- MODULE DecisionLedger ---------------------------
(***************************************************************************)
(* internal/decisions, cmd/sdd/decide_plan.go and                          *)
(* internal/graph/compile/decisions.go: every plan has a file of decisions *)
(* that only grows.  An identity is the digest of the statement, so the    *)
(* same decision may stand in the files of several plans and two           *)
(* statements may, rarely, share one.  A decision is replaced by recording *)
(* another that supersedes it, in any plan's file.                         *)
(*                                                                         *)
(* A command reads all the files, one after the other, then the file of    *)
(* its own plan, judges the append and writes under a compare-and-swap of  *)
(* that one file.  What the other files say by then is not fenced.  The    *)
(* planning root is kept in several git trees that merge.                  *)
(***************************************************************************)
EXTENDS Naturals, Sequences, FiniteSets

CONSTANTS
    Authors,
    Trees,
    NPlans,        \* the plans are numbered in the order of their names
    Statements,
    Ids,
    Digest,        \* Digest[s]: the identity of the statement s
    Histories,     \* what the plans' files may hold when a behaviour starts
    Unused,         \* a statement nobody records within the bounds
    Design,        \* the design's decisions: [text, sup], sup an earlier one or 0
    MaxCommands, MaxMerges,
    Revivals       \* whether a statement that is not new is recorded as a successor

Plans == 1 .. NPlans

ASSUME LedgerAssumption ==
  /\ NPlans \in Nat \ {0} /\ Unused \in Statements /\ IsFiniteSet(Statements)
  /\ Digest \in [Statements -> Ids]
  /\ Design \in Seq([text : Statements, sup : Nat])
  /\ \A k \in DOMAIN Design : Design[k].sup < k
  /\ MaxCommands \in Nat /\ MaxMerges \in Nat /\ Revivals \in BOOLEAN

VARIABLES
    files,      \* files[t][p]: the entries of plan p in tree t, in append order
    se,         \* what each session is doing
    commands, merges

ledgerVars == <<files, se, commands, merges>>

-----------------------------------------------------------------------------
(* The derived index.  An index is the files as read: [Plans -> entries].  *)

\* An entry: its statement, the identities it supersedes, the design
\* decision it was copied from (0 for none).
Entry(text, sup, src) == [text |-> text, sup |-> sup, src |-> src]
IdOf(e) == Digest[e.text]
Elems(q) == {q[k] : k \in DOMAIN q}

EntryType == [text : Statements, sup : SUBSET Ids, src : 0 .. Len(Design)]

\* What the decoder accepts of a file.
NoneTwice(q) == \A m, n \in DOMAIN q : IdOf(q[m]) = IdOf(q[n]) => m = n

ASSUME HistoriesAssumption ==
  /\ Histories \subseteq [Plans -> Seq(EntryType)]
  /\ \A h \in Histories : \A p \in Plans : NoneTwice(h[p])

Entries(x)          == UNION {Elems(x[p]) : p \in Plans}
EntriesWithID(x, i) == {e \in Entries(x) : IdOf(e) = i}
Carriers(x, i)      == {p \in Plans : \E e \in Elems(x[p]) : IdOf(e) = i}
RecordedIds(x)         == {IdOf(e) : e \in Entries(x)}

\* The identities that supersede i, in any plan.
SuccessorsOf(x, i) == {IdOf(e) : e \in {d \in Entries(x) : i \in d.sup}}

\* The complete view, refused when one identity names two statements.
ValidatedIndex(x) == \A d, e \in Entries(x) : IdOf(d) = IdOf(e) => d.text = e.text

\* A reference is an identity, qualified by a plan or (0) bare; a bare one
\* resolves in the citing plan or in the only plan that carries it.
Resolves(x, r, from) ==
  IF r.plan # 0 THEN r.plan \in Carriers(x, r.id)
  ELSE from \in Carriers(x, r.id) \/ Cardinality(Carriers(x, r.id)) = 1

\* Current: the decisions nobody superseded.
Standing(x) == {i \in RecordedIds(x) : SuccessorsOf(x, i) = {}}

\* i and everything that superseded it, directly or not; and what of it
\* nobody superseded.
DescendantsOf(x, i) ==
  LET from[S \in SUBSET Ids] ==
        LET wider == S \cup UNION {SuccessorsOf(x, j) : j \in S}
        IN  IF wider = S THEN S ELSE from[wider]
  IN  from[{i}]

LiveDescendants(x, i) ==
  {j \in DescendantsOf(x, i) : SuccessorsOf(x, j) = {}}

\* Mutant: a fork is over as soon as a branch of it was superseded.
BranchMoved(x, i) == \E a \in SuccessorsOf(x, i) : SuccessorsOf(x, a) # {}

\* All branches of a fork arrived at the same decisions.
Converged(x, i) ==
  \A a, b \in SuccessorsOf(x, i) : LiveDescendants(x, a) = LiveDescendants(x, b)

\* Mutant: a fork is reported for ever.
EveryFork(x) == {i \in RecordedIds(x) : Cardinality(SuccessorsOf(x, i)) > 1}

\* The forks still open, and the decisions competing in each.
Conflicts(x) ==
  {i \in RecordedIds(x) : /\ Cardinality(SuccessorsOf(x, i)) > 1
                       /\ ~Converged(x, i)
                       /\ Cardinality(LiveDescendants(x, i) \ {i}) > 1}

-----------------------------------------------------------------------------
(* One append, judged on an index and on the plan's own file.              *)

Collides(x, own, text) ==
  \E e \in Entries(x) \cup Elems(own) : IdOf(e) = Digest[text] /\ e.text # text
AlreadyIn(own, text) == \E e \in Elems(own) : e.text = text

ResolvesFor(x, own, r, from) ==
  \/ r.plan \in {0, from} /\ \E e \in Elems(own) : IdOf(e) = r.id
  \/ Resolves(x, r, from)

\* Successors i has already, copies of the new decision aside.
Competitors(x, own, i, text) ==
  (SuccessorsOf(x, i) \cup {IdOf(e) : e \in {d \in Elems(own) : i \in d.sup}}) \ {Digest[text]}

MayAppend(x, own, text, refs, from) ==
  /\ ~Collides(x, own, text)
  /\ \A r \in refs : /\ ResolvesFor(x, own, r, from)
                     /\ r.id # Digest[text]
                     /\ Competitors(x, own, r.id, text) = {}

-----------------------------------------------------------------------------
NoCommand == [pc |-> "idle"]
Blank == [p \in Plans |-> <<>>]

\* A command at work: the tree and plan it writes; its statement and
\* references; of a sync the decision it has come to and the index it takes
\* references from (root); the index its attempt is judged on, and what the
\* tree held when the attempt began; the content to be replaced.
Command(kind, t, p, text, refs) ==
  [pc |-> "attempt", kind |-> kind, tree |-> t, plan |-> p, text |-> text, refs |-> refs,
   dd |-> 1, rooted |-> kind = "add", root |-> Blank, index |-> Blank, since |-> Blank,
   own |-> <<>>]

LedgerInit ==
  /\ \E h \in Histories : files = [t \in Trees |-> h]
  /\ se = [s \in Authors |-> NoCommand]
  /\ commands = 0 /\ merges = 0

Become(s, rec) == se' = [se EXCEPT ![s] = rec]

\* Append makes a fresh index for every attempt from one that has a root, and
\* takes one without as it is.
IndexFor(rec) == IF rec.rooted THEN files[rec.tree] ELSE rec.root

\* References a user may give: identities of the tree, one of them bare or
\* qualified, or several as a conflict is reported.
Spellings(x, i) == {[plan |-> q, id |-> i] : q \in Carriers(x, i) \cup {0}}
Qualified(x, i) == [plan |-> CHOOSE p \in Carriers(x, i) : \A q \in Carriers(x, i) : p <= q, id |-> i]
RefChoices(x) ==
  {{}} \cup {{r} : r \in UNION {Spellings(x, i) : i \in RecordedIds(x)}}
       \cup {{Qualified(x, i), Qualified(x, j)} : i, j \in Standing(x)}

\* A statement that neither a file nor the design has.
IsNew(text) ==
  /\ \A k \in DOMAIN Design : Design[k].text # text
  /\ \A t \in Trees : Digest[text] \notin RecordedIds(files[t])

\* decide add.  Its first load of the index is the one of its first attempt.
StartAdd(s) ==
  /\ se[s] = NoCommand /\ commands < MaxCommands
  /\ \E t \in Trees, p \in Plans, text \in Statements \ {Unused} : \E R \in RefChoices(files[t]) :
       /\ Revivals \/ R = {} \/ IsNew(text)
       /\ Become(s, Command("add", t, p, text, R))
  /\ commands' = commands + 1 /\ UNCHANGED <<files, merges>>

\* The entry copied from the k-th decision of the design: the plan's own copy
\* first, otherwise the first by plan and position.
CopiesIn(x, k, p) == {n \in DOMAIN x[p] : x[p][n].src = k}
CarryCopy(x, k) == {p \in Plans : CopiesIn(x, k, p) # {}}
Least(S)        == CHOOSE n \in S : \A m \in S : n <= m
BySource(x, k, p) ==
  LET q == IF p \in CarryCopy(x, k) THEN p ELSE Least(CarryCopy(x, k))
  IN  [plan |-> IF q = p THEN 0 ELSE q, id |-> IdOf(x[q][Least(CopiesIn(x, k, q))])]

\* The design's next decision is taken up; without one, or when it replaces
\* one that no plan has recorded, the sync is over.
TakeUp(rec) ==
  IF rec.dd \notin DOMAIN Design THEN NoCommand
  ELSE LET d == Design[rec.dd]
       IN  IF d.sup = 0 THEN [rec EXCEPT !.pc = "attempt", !.text = d.text, !.refs = {}]
           ELSE IF CarryCopy(rec.root, d.sup) = {} THEN NoCommand
           ELSE [rec EXCEPT !.pc = "attempt", !.text = d.text,
                            !.refs = {BySource(rec.root, d.sup, rec.plan)}]

\* decide sync, and the first part of compile: the root is loaded and the
\* first decision of the design taken up.
StartSync(s) ==
  /\ se[s] = NoCommand /\ commands < MaxCommands
  /\ \E t \in Trees, p \in Plans :
       /\ ValidatedIndex(files[t])
       /\ Become(s, TakeUp([Command("sync", t, p, Unused, {}) EXCEPT !.root = files[t]]))
  /\ commands' = commands + 1 /\ UNCHANGED <<files, merges>>

\* An attempt begins with its index.  (The plans' files are read one by one.
\* The part of the command's own plan is read again by Judge, which only
\* finds more; of the other plans one moment stands for all.)
BeginAttempt(s) ==
  /\ se[s].pc = "attempt"
  /\ LET x == IndexFor(se[s])
     IN  Become(s, IF ValidatedIndex(x)
                 THEN [se[s] EXCEPT !.pc = "judge", !.index = x, !.since = files[se[s].tree]]
                 ELSE NoCommand)
  /\ UNCHANGED <<files, commands, merges>>

\* The plan's own file is read and the append is judged on both.
Judge(s) ==
  /\ se[s].pc = "judge"
  /\ LET rec == se[s]
         own == files[rec.tree][rec.plan]
     IN  Become(s, IF Collides(rec.index, own, rec.text) THEN NoCommand
                 ELSE IF AlreadyIn(own, rec.text)
                 THEN IF rec.kind = "add" THEN NoCommand
                      ELSE TakeUp([rec EXCEPT !.dd = @ + 1, !.index = Blank, !.since = Blank])
                 ELSE IF MayAppend(rec.index, own, rec.text, rec.refs, rec.plan)
                 THEN [rec EXCEPT !.pc = "write", !.own = own, !.index = Blank]
                 ELSE NoCommand)
  /\ UNCHANGED <<files, commands, merges>>

\* Mutant: the write is not fenced.
Anyway(rec) == TRUE

\* The file still is what the append was judged on.
Unchanged(rec) == files[rec.tree][rec.plan] = rec.own

NewEntry(rec) ==
  Entry(rec.text, {r.id : r \in rec.refs}, IF rec.kind = "sync" THEN rec.dd ELSE 0)

\* WriteAtomicExpecting: a command that lost the race makes another attempt,
\* a sync goes on with an index it reads from the root.
Write(s) ==
  /\ se[s].pc = "write"
  /\ LET rec == [se[s] EXCEPT !.own = <<>>, !.since = Blank]
         written == [files EXCEPT ![rec.tree][rec.plan] = Append(se[s].own, NewEntry(rec))]
     IN  IF ~Unchanged(se[s])
         THEN Become(s, [rec EXCEPT !.pc = "attempt"]) /\ UNCHANGED files
         ELSE /\ files' = written
              /\ Become(s, IF rec.kind = "add" THEN NoCommand
                         ELSE [rec EXCEPT !.pc = "reload", !.dd = @ + 1, !.rooted = TRUE])
  /\ UNCHANGED <<commands, merges>>

\* The index a sync reads after every entry it has added.
Reload(s) ==
  /\ se[s].pc = "reload"
  /\ LET x == files[se[s].tree]
     IN  Become(s, IF ValidatedIndex(x) THEN TakeUp([se[s] EXCEPT !.root = x]) ELSE NoCommand)
  /\ UNCHANGED <<files, commands, merges>>

\* A merge of tree u into tree t: both sides' entries of every file, in
\* order, a decision that both recorded once.
Merged(mine, theirs) ==
  LET new == {n \in DOMAIN theirs : \A d \in Elems(mine) : IdOf(d) # IdOf(theirs[n])}
      rank(n) == Cardinality({m \in new : m <= n})
  IN  mine \o [k \in 1 .. Cardinality(new) |-> theirs[CHOOSE n \in new : rank(n) = k]]

MergeTree(t, u) ==
  /\ t # u /\ merges < MaxMerges
  /\ files' = [files EXCEPT ![t] = [p \in Plans |-> Merged(files[t][p], files[u][p])]]
  /\ merges' = merges + 1 /\ UNCHANGED <<se, commands>>

LedgerNext ==
  \/ \E s \in Authors : \/ StartAdd(s) \/ StartSync(s) \/ BeginAttempt(s)
                         \/ Judge(s) \/ Write(s) \/ Reload(s)
  \/ \E t, u \in Trees : MergeTree(t, u)

LedgerSpec == LedgerInit /\ [][LedgerNext]_ledgerVars

-----------------------------------------------------------------------------
LedgerTypeOK ==
  /\ files \in [Trees -> [Plans -> Seq(EntryType)]]
  /\ \A s \in Authors : se[s].pc \in {"idle", "attempt", "judge", "write", "reload"}
  /\ commands \in 0 .. MaxCommands /\ merges \in 0 .. MaxMerges

\* Nothing that was recorded is lost or edited, whoever appends at the same
\* time and whatever is merged, and no file ever holds one identity twice
\* (the decoder would refuse the whole root).
RecordsKept ==
  [][files' # files =>
       \A t \in Trees, p \in Plans :
         /\ Elems(files[t][p]) \subseteq Elems(files'[t][p])
         /\ NoneTwice(files'[t][p])]_files

\* Every recorded decision is either standing or replaced, in the end, by one
\* that stands: no chain of supersessions runs in a circle.
HistoriesEnd ==
  \A t \in Trees : \A i \in RecordedIds(files[t]) : LiveDescendants(files[t], i) # {}

NewTrees == {files'[t] : t \in Trees} \ {files[t] : t \in Trees}

ForkReported(x) ==
  (\E i \in RecordedIds(x) : Cardinality(LiveDescendants(x, i)) > 1) => Conflicts(x) # {}

ConflictsSettle(x) ==
  LET open == Conflicts(x)
  IN  \A i \in open, p \in Plans :
        LET live == LiveDescendants(x, i)
            then == Conflicts([x EXCEPT ![p] = Append(@, Entry(Unused, live, 0))])
        IN  /\ MayAppend(x, x[p], Unused, {Qualified(x, j) : j \in live}, p)
            /\ i \notin then /\ then \subseteq open

\* A decision with two standing descendants, however the fork arose (two
\* commands that overlapped, a merge), is under a reported conflict.
ForksAreReported ==
  [][files' # files => \A x \in NewTrees : ForkReported(x)]_files

\* Every reported conflict can be settled as the report says: one new
\* decision superseding all that compete is accepted, in any plan, and then
\* the conflict is gone and no other has appeared.
ConflictsCanBeSettled ==
  [][files' # files => \A x \in NewTrees : ConflictsSettle(x)]_files

\* What was superseded before an attempt began is not superseded again by
\* another decision: only attempts that overlap, or trees, can fork.
Superseded(e, i) == i \in e.sup
EarlierSuccessorsAreSeen ==
  \A s \in Authors : se[s].pc = "write" =>
    \A r \in se[s].refs : \A e \in Entries(se[s].since) :
      Superseded(e, r.id) => IdOf(e) = Digest[se[s].text]
=============================================================================
