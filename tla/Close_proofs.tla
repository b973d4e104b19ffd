---------------------------- MODULE Close_proofs ----------------------------
(***************************************************************************)
(* Closing a v1 plan (PhaseClose), for any tasks, reviews, histories and   *)
(* bounds: a root that validates with a complete phase was reviewed, and a *)
(* phase only completes on reviewed work.  And the life of its reviews     *)
(* (ReviewRecord), for any directory of them: what a frozen one said still *)
(* stands, and successions hang together, however the plan changes.  The   *)
(* two share no state.                                                     *)
(***************************************************************************)
EXTENDS PhaseClose, ReviewRecord, FiniteSetTheorems, WellFoundedInduction, TLAPS

-----------------------------------------------------------------------------
(***************************************************************************)
(* Histories.                                                              *)
(***************************************************************************)
\* Commits are numbered after their parents, their ancestors are theirs and
\* their parents' ancestors, and touches tells of a change against a parent.
History(C) ==
  \A c \in DOMAIN C :
    /\ C[c].anc \subseteq 1 .. c /\ c \in C[c].anc
    /\ C[c].parents \subseteq 1 .. c - 1
    /\ C[c].anc = {c} \cup UNION {C[p].anc : p \in C[c].parents}
    /\ C[c].touches = (\E p \in C[c].parents : C[p].src # C[c].src)

\* Where no commit since e touches the sources, they are those of e.
SourcesFollow(C) ==
  \A c, e \in DOMAIN C :
    e \in C[c].anc /\ (\A x \in C[c].anc \ C[e].anc : ~C[x].touches) => C[c].src = C[e].src

\* A commit on top of some of a history continues it.
Continues(C, k) ==
  /\ k.parents \subseteq DOMAIN C
  /\ k.anc = {Len(C) + 1} \cup UNION {C[p].anc : p \in k.parents}
  /\ k.touches = (\E p \in k.parents : C[p].src # k.src)

LEMMA AppendFacts ==
  ASSUME NEW S, NEW C \in Seq(S), NEW k \in S
  PROVE  /\ Append(C, k) \in Seq(S)
         /\ Len(C) \in Nat /\ DOMAIN C = 1 .. Len(C)
         /\ DOMAIN Append(C, k) = DOMAIN C \cup {Len(C) + 1}
         /\ Append(C, k)[Len(C) + 1] = k
         /\ \A c \in DOMAIN C : Append(C, k)[c] = C[c]
OBVIOUS

LEMMA HistoryGrows ==
  ASSUME NEW S, NEW C \in Seq(S), NEW k \in S, History(C), SourcesFollow(C), Continues(C, k)
  PROVE  History(Append(C, k)) /\ SourcesFollow(Append(C, k))
<1> DEFINE D == Append(C, k)
           n == Len(C) + 1
<1>0. /\ Len(C) \in Nat /\ DOMAIN C = 1 .. Len(C)
      /\ DOMAIN D = DOMAIN C \cup {n} /\ D[n] = k /\ \A c \in DOMAIN C : D[c] = C[c]
  BY AppendFacts
<1> HIDE DEF D
<1>1. \A c \in DOMAIN C : C[c].anc \subseteq DOMAIN C /\ C[c].parents \subseteq DOMAIN C
  <2> SUFFICES ASSUME NEW c \in DOMAIN C
               PROVE  C[c].anc \subseteq DOMAIN C /\ C[c].parents \subseteq DOMAIN C
    OBVIOUS
  <2>1. 1 .. c \subseteq DOMAIN C /\ 1 .. c - 1 \subseteq DOMAIN C
    BY <1>0
  <2> QED
    BY <2>1 DEF History
<1>2. k.parents \subseteq 1 .. n - 1 /\ k.anc \subseteq 1 .. n /\ n \in k.anc
  <2>1. \A p \in k.parents : p \in DOMAIN C /\ C[p].anc \subseteq DOMAIN C
    BY <1>1 DEF Continues
  <2>2. DOMAIN C \subseteq 1 .. n - 1 /\ 1 .. n - 1 \subseteq 1 .. n /\ n \in 1 .. n
    BY <1>0
  <2> QED
    BY <2>1, <2>2 DEF Continues
<1>3. History(D)
  <2> SUFFICES ASSUME NEW c \in DOMAIN D
               PROVE  /\ D[c].anc \subseteq 1 .. c /\ c \in D[c].anc
                      /\ D[c].parents \subseteq 1 .. c - 1
                      /\ D[c].anc = {c} \cup UNION {D[p].anc : p \in D[c].parents}
                      /\ D[c].touches = (\E p \in D[c].parents : D[p].src # D[c].src)
    BY DEF History
  <2>1. CASE c \in DOMAIN C
    <3>1. D[c] = C[c] /\ \A p \in C[c].parents : D[p] = C[p]
      BY <1>0, <1>1, <2>1
    <3>2. {D[p].anc : p \in C[c].parents} = {C[p].anc : p \in C[c].parents}
      BY <3>1
    <3>3. /\ D[c].anc \subseteq 1 .. c /\ c \in D[c].anc
          /\ D[c].parents \subseteq 1 .. c - 1
      BY <2>1, <3>1 DEF History
    <3>4. D[c].anc = {c} \cup UNION {D[p].anc : p \in D[c].parents}
      BY <2>1, <3>1, <3>2 DEF History
    <3>5. D[c].touches = (\E p \in D[c].parents : D[p].src # D[c].src)
      <4>1. C[c].touches = (\E p \in C[c].parents : C[p].src # C[c].src)
        BY <2>1 DEF History
      <4>2. (\E p \in C[c].parents : C[p].src # C[c].src)
              <=> (\E p \in D[c].parents : D[p].src # D[c].src)
        BY <3>1
      <4> QED
        BY <3>1, <4>1, <4>2, Zenon
    <3> QED
      BY <3>3, <3>4, <3>5
  <2>2. CASE c = n
    <3>1. D[c] = k /\ \A p \in k.parents : D[p] = C[p]
      BY <1>0, <2>2 DEF Continues
    <3>2. {D[p].anc : p \in k.parents} = {C[p].anc : p \in k.parents}
      BY <3>1
    <3> QED
      BY <1>2, <2>2, <3>1, <3>2 DEF Continues
  <2> QED
    <3>1. c \in DOMAIN C \/ c = n
      BY <1>0
    <3> QED
      BY <2>1, <2>2, <3>1
<1>4. SourcesFollow(D)
  <2> SUFFICES ASSUME NEW c \in DOMAIN D, NEW e \in DOMAIN D, e \in D[c].anc,
                      \A x \in D[c].anc \ D[e].anc : ~D[x].touches
               PROVE  D[c].src = D[e].src
    BY DEF SourcesFollow
  <2>1. CASE c \in DOMAIN C
    <3>1. e \in DOMAIN C /\ D[c] = C[c] /\ D[e] = C[e] /\ \A x \in C[c].anc : D[x] = C[x]
      BY <1>0, <1>1, <2>1
    <3> QED
      BY <2>1, <3>1 DEF SourcesFollow
  <2>2. CASE c = n /\ e # n
    <3>1. e \in DOMAIN C /\ D[c] = k /\ D[e] = C[e]
      BY <1>0, <2>2
    <3>2. PICK p \in k.parents : e \in C[p].anc
      BY <2>2, <3>1 DEF Continues
    <3>3. p \in DOMAIN C /\ C[p].anc \subseteq k.anc
      BY <3>2 DEF Continues
    <3>4. n \notin C[e].anc
      BY <1>0, <1>1, <3>1
    <3>5. ~k.touches
      BY <1>0, <1>2, <3>1, <3>4
    <3>6. C[p].src = k.src
      BY <3>2, <3>5 DEF Continues
    <3>7. \A x \in C[p].anc \ C[e].anc : ~C[x].touches
      <4>1. \A x \in C[p].anc : D[x] = C[x]
        BY <1>0, <1>1, <3>3
      <4> QED
        BY <3>1, <3>3, <4>1
    <3>8. C[p].src = C[e].src
      BY <3>1, <3>2, <3>3, <3>7 DEF SourcesFollow
    <3> QED
      BY <3>1, <3>6, <3>8
  <2>3. CASE c = n /\ e = n
    BY <2>3
  <2> QED
    BY <1>0, <2>1, <2>2, <2>3
<1> QED
  BY <1>3, <1>4 DEF D

-----------------------------------------------------------------------------
(***************************************************************************)
(* The inductive invariant.                                                *)
(***************************************************************************)
GitOK ==
  /\ git \in [Repos -> [commits : Seq(Commits), head : Nat]]
  /\ \A r \in Repos : /\ git[r].head \in DOMAIN git[r].commits
                      /\ History(git[r].commits) /\ SourcesFollow(git[r].commits)

\* A gate keeps what its transition read and what it would write.
GateTyped ==
  \A g \in gate :
    /\ gate = {g} /\ g.kind \in Kinds
    /\ g.kind \in {"task", "phase"} => g.original \in Phases /\ g.updated \in Phases
    /\ g.kind \in {"plan", "approve"} => g.original \in Plans /\ g.updated \in Plans
    /\ g.kind = "resolve" => /\ g.target \in ReviewIds
                             /\ g.original \in SUBSET Reviews /\ g.updated \in SUBSET Reviews

\* What only the final review of a complete phase can be found to lack.
FinalTags ==
  {"incomplete task", "task identities", "no final review", "review does not resolve",
   "frozen identity differs", "not an aligned review", "degenerate range",
   "endpoint is not the checkpoint", "no such endpoint", "range is not forward",
   "task outside the range", "target moved", "endpoint left the history", "material changes",
   "phase intent moved", "plan intent moved", "no such planning revision",
   "planning revision left the history", "phase was reviewed otherwise",
   "plan was reviewed otherwise"}

\* While the gate of a phase sweeps, everybody sees the phase complete, and what
\* it held against the phase before was nothing about its final review.
GateStands ==
  \A g \in gate : g.kind = "phase" =>
    /\ docs.phase.status = "complete" /\ report = "none"
    /\ g.original.status # "complete" => \A f \in g.before : f[1] \notin FinalTags

IInv ==
  /\ colocated \in BOOLEAN /\ src \in 0 .. MaxSrc /\ docs \in Documents
  /\ report \in {"none", "passed", "refused"}
  /\ GitOK /\ GateTyped /\ GateStands

LEMMA Lookup ==
  ASSUME NEW r, NEW c
  PROVE  /\ At(World, r, c) = git[r].commits[c] /\ HeadAt(r) = git[r].head
         /\ World.git = git /\ World.src = src /\ World.docs = docs /\ World.colocated = colocated
BY DEF At, World, HeadAt, HeadOf

LEMMA HistoryTypes ==
  ASSUME GitOK, NEW r \in Repos
  PROVE  /\ git[r].commits \in Seq(Commits) /\ git[r].head \in DOMAIN git[r].commits
         /\ Len(git[r].commits) \in Nat /\ DOMAIN git[r].commits = 1 .. Len(git[r].commits)
         /\ \A c \in DOMAIN git[r].commits :
              /\ git[r].commits[c] \in Commits /\ c \in Nat
              /\ c \in git[r].commits[c].anc
              /\ git[r].commits[c].anc \subseteq DOMAIN git[r].commits
              /\ git[r].commits[c].parents \subseteq DOMAIN git[r].commits
<1>1. /\ git[r].commits \in Seq(Commits) /\ git[r].head \in DOMAIN git[r].commits
      /\ History(git[r].commits)
  BY DEF GitOK
<1> DEFINE C == git[r].commits
<1> HIDE DEF C
<1>2. /\ Len(C) \in Nat /\ DOMAIN C = 1 .. Len(C)
      /\ \A c \in DOMAIN C : C[c] \in Commits /\ c \in Nat
  BY <1>1 DEF C
<1>3. ASSUME NEW c \in DOMAIN C
      PROVE  c \in C[c].anc /\ C[c].anc \subseteq DOMAIN C /\ C[c].parents \subseteq DOMAIN C
  <2>1. 1 .. c \subseteq DOMAIN C /\ 1 .. c - 1 \subseteq DOMAIN C
    BY <1>2
  <2> QED
    BY <1>1, <2>1 DEF History, C
<1> QED
  BY <1>1, <1>2, <1>3 DEF C

\* The type invariant follows.
LEMMA TypesFollow == IInv => TypeOK
<1> SUFFICES ASSUME IInv PROVE TypeOK
  OBVIOUS
<1>1. gate = {} \/ \E g \in gate : gate = {g} /\ g.kind \in Kinds
  BY DEF IInv, GateTyped
<1>2. ASSUME NEW r \in Repos
      PROVE  /\ git[r].head \in DOMAIN git[r].commits
             /\ \A c \in DOMAIN git[r].commits :
                  /\ At(World, r, c) \in Commits
                  /\ c \in At(World, r, c).anc
                  /\ At(World, r, c).anc \subseteq DOMAIN git[r].commits
  BY HistoryTypes, Lookup DEF IInv
<1> QED
  BY <1>1, <1>2 DEF IInv, TypeOK

LEMMA FreshIsTyped == FreshDocs \in Documents
<1>1. [t \in Tasks |-> [status |-> "planned", boxes |-> FALSE, ev |-> {}]] \in [Tasks -> TaskRecords]
  BY DEF TaskRecords, Statuses
<1>2. FreshDocs.phase \in Phases
  BY <1>1 DEF FreshDocs, Phases, Statuses, Intents
<1>3. FreshDocs.plan \in Plans
  BY DEF FreshDocs, Plans, Statuses, Intents
<1>4. FreshDocs.reviews \in [ReviewIds -> SUBSET Reviews]
  BY DEF FreshDocs
<1>5. FreshDocs = [phase |-> FreshDocs.phase, plan |-> FreshDocs.plan, reviews |-> FreshDocs.reviews]
  BY DEF FreshDocs
<1> QED
  BY <1>2, <1>3, <1>4, <1>5 DEF Documents

LEMMA InitIInv == Init => IInv
<1> SUFFICES ASSUME Init PROVE IInv
  OBVIOUS
<1> DEFINE C == <<FirstCommit>>
<1>1. FirstCommit \in Commits
  BY FreshIsTyped, CloseAssumption DEF FirstCommit, Commits
<1>2. C \in Seq(Commits) /\ DOMAIN C = {1} /\ C[1] = FirstCommit
  BY <1>1
<1>3. FirstCommit.anc = {1} /\ FirstCommit.parents = {} /\ FirstCommit.touches = FALSE
  BY DEF FirstCommit
<1>4. History(C) /\ SourcesFollow(C)
  <2> HIDE DEF C
  <2>1. History(C)
    <3> SUFFICES ASSUME NEW c \in DOMAIN C
                 PROVE  /\ C[c].anc \subseteq 1 .. c /\ c \in C[c].anc
                        /\ C[c].parents \subseteq 1 .. c - 1
                        /\ C[c].anc = {c} \cup UNION {C[p].anc : p \in C[c].parents}
                        /\ C[c].touches = (\E p \in C[c].parents : C[p].src # C[c].src)
      BY DEF History
    <3>1. c = 1 /\ C[c].anc = {1} /\ C[c].parents = {} /\ C[c].touches = FALSE
      BY <1>2, <1>3
    <3>2. C[c].anc \subseteq 1 .. c /\ c \in C[c].anc /\ C[c].parents \subseteq 1 .. c - 1
      BY <3>1
    <3>3. C[c].anc = {c} \cup UNION {C[p].anc : p \in C[c].parents}
      BY <3>1
    <3>4. C[c].touches = (\E p \in C[c].parents : C[p].src # C[c].src)
      <4>1. ~ \E p \in C[c].parents : C[p].src # C[c].src
        BY <3>1
      <4> QED
        BY <3>1, <4>1, Zenon
    <3> QED
      BY <3>2, <3>3, <3>4
  <2>2. SourcesFollow(C)
    BY <1>2 DEF SourcesFollow
  <2> QED
    BY <2>1, <2>2
<1>5. GitOK
  <2>1. git = [r \in Repos |-> [commits |-> C, head |-> 1]]
    BY DEF Init
  <2> HIDE DEF C
  <2> QED
    BY <1>2, <1>4, <2>1 DEF GitOK
<1>6. gate = {} /\ colocated \in BOOLEAN /\ src \in 0 .. MaxSrc /\ docs \in Documents /\ report = "none"
  BY FreshIsTyped, CloseAssumption DEF Init
<1> QED
  BY <1>5, <1>6 DEF IInv, GateTyped, GateStands

-----------------------------------------------------------------------------
(***************************************************************************)
(* Histories stay histories.                                               *)
(***************************************************************************)
LEMMA NewCommitOK ==
  ASSUME GitOK, NEW r \in Repos, NEW parents, NEW anc, NEW s \in 0 .. MaxSrc, NEW d \in Documents,
         NewCommit(r, parents, anc, s, d),
         parents \subseteq DOMAIN git[r].commits,
         anc \cup {Len(git[r].commits) + 1}
           = {Len(git[r].commits) + 1} \cup UNION {git[r].commits[p].anc : p \in parents}
  PROVE  GitOK'
<1> DEFINE C == git[r].commits
           n == Len(C) + 1
           k == [anc |-> anc \cup {n}, parents |-> parents, src |-> s, docs |-> d,
                 touches |-> \E p \in parents : C[p].src # s]
<1>1. git' = [git EXCEPT ![r] = [commits |-> Append(C, k), head |-> n]]
  <2>1. \A p : At(World, r, p) = C[p]
    BY Lookup
  <2>2. (\E p \in parents : At(World, r, p).src # s) <=> (\E p \in parents : C[p].src # s)
    BY <2>1
  <2>3. (\E p \in parents : At(World, r, p).src # s) = (\E p \in parents : C[p].src # s)
    BY <2>2, Zenon
  <2> QED
    BY <2>3 DEF NewCommit, GitOK
<1>2. /\ C \in Seq(Commits) /\ Len(C) \in Nat /\ DOMAIN C = 1 .. Len(C)
      /\ History(C) /\ SourcesFollow(C)
      /\ \A c \in DOMAIN C : C[c] \in Commits /\ c \in Nat
  BY HistoryTypes DEF GitOK
<1>3. k \in Commits
  <2>1. \A p \in parents : C[p].anc \subseteq Nat
    BY <1>2 DEF Commits
  <2>2. k.anc \subseteq Nat /\ parents \subseteq Nat
    BY <1>2, <2>1
  <2>3. (\E p \in parents : C[p].src # s) \in BOOLEAN
    OBVIOUS
  <2> QED
    BY <2>2, <2>3 DEF Commits
<1>4. Continues(C, k)
  <2>1. k.touches <=> (\E p \in k.parents : C[p].src # k.src)
    OBVIOUS
  <2>2. k.touches = (\E p \in k.parents : C[p].src # k.src)
    BY Zenon
  <2> QED
    BY <2>2 DEF Continues
<1> HIDE DEF k, C
<1>5. History(Append(C, k)) /\ SourcesFollow(Append(C, k))
  BY <1>2, <1>3, <1>4, HistoryGrows
<1>6. Append(C, k) \in Seq(Commits) /\ n \in DOMAIN Append(C, k) /\ n \in Nat
  BY <1>2, <1>3, AppendFacts
<1> HIDE DEF n
<1>7. git' \in [Repos -> [commits : Seq(Commits), head : Nat]]
  BY <1>1, <1>6 DEF GitOK
<1>8. ASSUME NEW q \in Repos
      PROVE  /\ git'[q].head \in DOMAIN git'[q].commits
             /\ History(git'[q].commits) /\ SourcesFollow(git'[q].commits)
  <2>1. CASE q = r
    <3>1. git'[q].head = n /\ git'[q].commits = Append(C, k)
      BY <1>1, <2>1 DEF GitOK
    <3> QED
      BY <1>5, <1>6, <3>1
  <2>2. CASE q # r
    <3>1. git'[q] = git[q]
      BY <1>1, <2>2 DEF GitOK
    <3> QED
      BY <3>1 DEF GitOK
  <2> QED
    BY <2>1, <2>2
<1> QED
  BY <1>7, <1>8 DEF GitOK

\* Each git step keeps the histories, and what it takes from them is typed.
LEMMA CommitOK ==
  ASSUME IInv, NEW r \in Repos, NEW parts, Commit(r, parts) PROVE GitOK'
<1> DEFINE C == git[r].commits
           h == git[r].head
<1>1. C \in Seq(Commits) /\ h \in DOMAIN C /\ C[h] \in Commits /\ Len(C) \in Nat
  BY HistoryTypes DEF IInv
<1>2. At(World, r, HeadAt(r)) = C[h] /\ HeadAt(r) = h
  BY Lookup
<1> HIDE DEF C, h
<1>3. C[h].src \in 0 .. MaxSrc /\ C[h].docs \in Documents
  BY <1>1 DEF Commits
<1> DEFINE s == IF "src" \in parts THEN src ELSE C[h].src
           d == IF "docs" \in parts THEN docs ELSE C[h].docs
<1>4. s \in 0 .. MaxSrc /\ d \in Documents /\ GitOK
  BY <1>3 DEF IInv
<1>5. NewCommit(r, {h}, C[h].anc, s, d)
  BY <1>2 DEF Commit
<1>6. C[h].anc \cup {Len(C) + 1} = {Len(C) + 1} \cup UNION {C[p].anc : p \in {h}}
  OBVIOUS
<1> HIDE DEF s, d
<1> QED
  BY <1>1, <1>4, <1>5, <1>6, NewCommitOK DEF C

LEMMA AmendOK ==
  ASSUME IInv, NEW r \in Repos, AmendHead(r) PROVE GitOK'
<1> DEFINE C == git[r].commits
           h == git[r].head
<1>1. C \in Seq(Commits) /\ h \in DOMAIN C /\ C[h] \in Commits /\ Len(C) \in Nat
      /\ DOMAIN C = 1 .. Len(C) /\ C[h].parents \subseteq DOMAIN C /\ History(C)
  BY HistoryTypes DEF IInv, GitOK
<1>2. At(World, r, HeadAt(r)) = C[h] /\ HeadAt(r) = h
  BY Lookup
<1> HIDE DEF C, h
<1>3. C[h].src \in 0 .. MaxSrc /\ C[h].docs \in Documents
  BY <1>1 DEF Commits
<1> DEFINE s == IF Holds(r, "src") THEN src ELSE C[h].src
           d == IF Holds(r, "docs") THEN docs ELSE C[h].docs
<1>4. s \in 0 .. MaxSrc /\ d \in Documents /\ GitOK
  BY <1>3 DEF IInv
<1>5. NewCommit(r, C[h].parents, C[h].anc \ {h}, s, d)
  BY <1>2 DEF AmendHead
<1>6. (C[h].anc \ {h}) \cup {Len(C) + 1}
        = {Len(C) + 1} \cup UNION {C[p].anc : p \in C[h].parents}
  <2>1. C[h].anc = {h} \cup UNION {C[p].anc : p \in C[h].parents}
    BY <1>1 DEF History
  <2>2. \A p \in C[h].parents : h \notin C[p].anc
    <3> SUFFICES ASSUME NEW p \in C[h].parents, h \in C[p].anc PROVE FALSE
      OBVIOUS
    <3>1. p \in 1 .. h - 1 /\ p \in DOMAIN C
      BY <1>1 DEF History
    <3>2. h \in 1 .. p
      BY <1>1, <3>1 DEF History
    <3> QED
      BY <1>1, <3>1, <3>2
  <2> QED
    BY <2>1, <2>2
<1> HIDE DEF s, d
<1> QED
  BY <1>1, <1>4, <1>5, <1>6, NewCommitOK DEF C

LEMMA MergeOK ==
  ASSUME IInv, NEW r \in Repos, NEW c \in DOMAIN git[r].commits, Merge(r, c)
  PROVE  GitOK' /\ src' \in 0 .. MaxSrc
<1> DEFINE C == git[r].commits
           h == git[r].head
<1>1. C \in Seq(Commits) /\ h \in DOMAIN C /\ C[h] \in Commits /\ Len(C) \in Nat /\ C[c] \in Commits
      /\ c \in DOMAIN C
  BY HistoryTypes DEF IInv
<1>2. At(World, r, HeadAt(r)) = C[h] /\ HeadAt(r) = h /\ At(World, r, c) = C[c]
  BY Lookup
<1> HIDE DEF C, h
<1>3. C[c].src \in 0 .. MaxSrc /\ C[h].docs \in Documents /\ GitOK
  BY <1>1 DEF Commits, IInv
<1>4. NewCommit(r, {h, c}, C[h].anc \cup C[c].anc, C[c].src, C[h].docs)
  BY <1>2 DEF Merge
<1>5. (C[h].anc \cup C[c].anc) \cup {Len(C) + 1}
        = {Len(C) + 1} \cup UNION {C[p].anc : p \in {h, c}}
  OBVIOUS
<1>6. {h, c} \subseteq DOMAIN C
  BY <1>1
<1>7. GitOK'
  <2> DEFINE anc == C[h].anc \cup C[c].anc
             s == C[c].src
             d == C[h].docs
  <2> HIDE DEF anc, s, d
  <2>1. NewCommit(r, {h, c}, anc, s, d) /\ s \in 0 .. MaxSrc /\ d \in Documents
    BY <1>3, <1>4 DEF anc, s, d
  <2>2. anc \cup {Len(C) + 1} = {Len(C) + 1} \cup UNION {C[p].anc : p \in {h, c}}
    BY <1>5 DEF anc
  <2> QED
    BY <1>3, <1>6, <2>1, <2>2, NewCommitOK DEF C
<1>8. src' \in 0 .. MaxSrc
  BY <1>2, <1>3 DEF Merge, IInv
<1> QED
  BY <1>7, <1>8

LEMMA CheckoutOK ==
  ASSUME IInv, NEW r \in Repos, NEW c \in DOMAIN git[r].commits, Checkout(r, c)
  PROVE  GitOK' /\ src' \in 0 .. MaxSrc /\ docs' \in Documents
<1>1. /\ git[r].commits[c] \in Commits /\ At(World, r, c) = git[r].commits[c] /\ c \in Nat
  BY HistoryTypes, Lookup DEF IInv
<1>2. git[r].commits[c].src \in 0 .. MaxSrc /\ git[r].commits[c].docs \in Documents
  BY <1>1 DEF Commits
<1>3. src' \in 0 .. MaxSrc /\ docs' \in Documents
  BY <1>1, <1>2 DEF Checkout, IInv
<1>4. /\ git \in [Repos -> [commits : Seq(Commits), head : Nat]]
      /\ git' = [git EXCEPT ![r].head = c]
  BY DEF Checkout, IInv, GitOK
<1>5. git' \in [Repos -> [commits : Seq(Commits), head : Nat]]
  BY <1>1, <1>4
<1>6. ASSUME NEW q \in Repos
      PROVE  /\ git'[q].commits = git[q].commits
             /\ git'[q].head = IF q = r THEN c ELSE git[q].head
  BY <1>4
<1> QED
  BY <1>3, <1>5, <1>6 DEF GitOK, IInv

-----------------------------------------------------------------------------
(***************************************************************************)
(* Documents keep their shape, and only gates touch the phase's status.    *)
(***************************************************************************)
LEMMA DocumentFields ==
  ASSUME NEW d \in Documents
  PROVE  /\ d.phase \in Phases /\ d.plan \in Plans /\ d.reviews \in [ReviewIds -> SUBSET Reviews]
         /\ \A t \in Tasks : d.phase.task[t] \in TaskRecords
         /\ \A p \in Phases : /\ [d EXCEPT !.phase = p] \in Documents
                              /\ [d EXCEPT !.phase = p].phase = p
         /\ \A q \in Plans : /\ [d EXCEPT !.plan = q] \in Documents
                             /\ [d EXCEPT !.plan = q].phase = d.phase
         /\ \A id \in ReviewIds, R \in SUBSET Reviews :
              /\ [d EXCEPT !.reviews[id] = R] \in Documents
              /\ [d EXCEPT !.reviews[id] = R].phase = d.phase
<1>1. d.phase \in Phases /\ d.plan \in Plans /\ d.reviews \in [ReviewIds -> SUBSET Reviews]
  BY DEF Documents
<1>2. \A p \in Phases : [d EXCEPT !.phase = p] \in Documents /\ [d EXCEPT !.phase = p].phase = p
  BY DEF Documents
<1>3. \A q \in Plans : [d EXCEPT !.plan = q] \in Documents /\ [d EXCEPT !.plan = q].phase = d.phase
  BY DEF Documents
<1>4. ASSUME NEW id \in ReviewIds, NEW R \in SUBSET Reviews
      PROVE  /\ [d EXCEPT !.reviews[id] = R] \in Documents
             /\ [d EXCEPT !.reviews[id] = R].phase = d.phase
  <2>1. [d.reviews EXCEPT ![id] = R] \in [ReviewIds -> SUBSET Reviews]
    BY <1>1
  <2> QED
    BY <2>1 DEF Documents
<1>5. \A t \in Tasks : d.phase.task[t] \in TaskRecords
  BY <1>1 DEF Phases
<1> QED
  BY <1>1, <1>2, <1>3, <1>4, <1>5

\* What a write leaves is what it found, with one file changed.
LEMMA WriteOK ==
  ASSUME IInv, NEW d, Write(d), d \in Documents, d.phase.status = docs.phase.status
  PROVE  IInv'
<1>1. docs' = d /\ UNCHANGED <<colocated, git, src, gate, report>>
  BY DEF Write
<1>2. GitOK' /\ GateTyped'
  BY <1>1 DEF IInv, GitOK, GateTyped
<1>3. GateStands'
  BY <1>1 DEF IInv, GateStands
<1> QED
  BY <1>1, <1>2, <1>3 DEF IInv

LEMMA TaskEvidenceTyped ==
  ASSUME NEW p \in Phases, NEW t \in Tasks, NEW e \in SUBSET EvidenceRecords
  PROVE  /\ [p EXCEPT !.task[t].ev = e] \in Phases
         /\ [p EXCEPT !.task[t].ev = e].status = p.status
<1>1. [p.task EXCEPT ![t].ev = e] \in [Tasks -> TaskRecords]
  BY DEF TaskRecords, Phases
<1> QED
  BY <1>1 DEF Phases

LEMMA PhaseFields ==
  ASSUME NEW p \in Phases
  PROVE  /\ p.status \in Statuses /\ p.ev \in SUBSET PhaseEvidence /\ p.task \in [Tasks -> TaskRecords]
         /\ \A v \in BOOLEAN : /\ [p EXCEPT !.criteria = v] \in Phases
                               /\ [p EXCEPT !.criteria = v].status = p.status
         /\ \A v \in Intents : /\ [p EXCEPT !.intent = v] \in Phases
                               /\ [p EXCEPT !.intent = v].status = p.status
         /\ \A v \in SUBSET PhaseEvidence : /\ [p EXCEPT !.ev = v] \in Phases
                                            /\ [p EXCEPT !.ev = v].status = p.status
         /\ [p EXCEPT !.status = "complete"] \in Phases
         /\ \A t \in Tasks :
              /\ [p EXCEPT !.task[t].boxes = TRUE] \in Phases
              /\ [p EXCEPT !.task[t].boxes = TRUE].status = p.status
              /\ [p EXCEPT !.task[t].status = "complete"] \in Phases
              /\ [p EXCEPT !.task[t].status = "complete"].status = p.status
<1>1. p.status \in Statuses /\ p.ev \in SUBSET PhaseEvidence /\ p.task \in [Tasks -> TaskRecords]
  BY DEF Phases
<1>2. /\ \A v \in BOOLEAN : /\ [p EXCEPT !.criteria = v] \in Phases
                            /\ [p EXCEPT !.criteria = v].status = p.status
      /\ \A v \in Intents : /\ [p EXCEPT !.intent = v] \in Phases
                            /\ [p EXCEPT !.intent = v].status = p.status
      /\ \A v \in SUBSET PhaseEvidence : /\ [p EXCEPT !.ev = v] \in Phases
                                         /\ [p EXCEPT !.ev = v].status = p.status
      /\ [p EXCEPT !.status = "complete"] \in Phases
  BY DEF Phases, Statuses
<1>3. ASSUME NEW f \in [Tasks -> TaskRecords]
      PROVE  [p EXCEPT !.task = f] \in Phases /\ [p EXCEPT !.task = f].status = p.status
  BY DEF Phases
<1>4. ASSUME NEW t \in Tasks
      PROVE  /\ [p EXCEPT !.task[t].boxes = TRUE] \in Phases
             /\ [p EXCEPT !.task[t].boxes = TRUE].status = p.status
             /\ [p EXCEPT !.task[t].status = "complete"] \in Phases
             /\ [p EXCEPT !.task[t].status = "complete"].status = p.status
  <2>1. [p.task EXCEPT ![t].boxes = TRUE] \in [Tasks -> TaskRecords]
    BY <1>1 DEF TaskRecords
  <2>2. [p.task EXCEPT ![t].status = "complete"] \in [Tasks -> TaskRecords]
    BY <1>1 DEF TaskRecords, Statuses
  <2> QED
    BY <1>3, <2>1, <2>2
<1> QED
  BY <1>1, <1>2, <1>4

\* The identities of completed tasks and phases name revisions.
LEMMA IdentitiesTyped ==
  ASSUME NEW d \in Documents
  PROVE  /\ TaskIdentities(d.phase) \subseteq Tasks \X Nat
         /\ UNION {{<<e.rev, f.review>> : f \in e.final} : e \in d.phase.ev} \subseteq Nat \X ReviewIds
<1>1. \A t \in Tasks : \A e \in d.phase.task[t].ev : e.rev \in Nat
  BY DocumentFields DEF TaskRecords, EvidenceRecords
<1>2. TaskIdentities(d.phase) \subseteq Tasks \X Nat
  BY <1>1 DEF TaskIdentities, CompletedTasks
<1>3. ASSUME NEW e \in d.phase.ev
      PROVE  e.rev \in Nat /\ \A f \in e.final : f.review \in ReviewIds
  <2>1. d.phase \in Phases
    BY DocumentFields
  <2>2. d.phase.ev \in SUBSET PhaseEvidence
    BY <2>1, PhaseFields
  <2>3. e \in PhaseEvidence
    BY <2>2
  <2> QED
    BY <2>3 DEF PhaseEvidence
<1>4. UNION {{<<e.rev, f.review>> : f \in e.final} : e \in d.phase.ev} \subseteq Nat \X ReviewIds
  BY <1>3
<1> QED
  BY <1>2, <1>4

LEMMA AuthorStepOK == ASSUME IInv, AuthorStep PROVE IInv'
<1>0. docs \in Documents /\ docs.phase \in Phases /\ docs.plan \in Plans
      /\ docs.reviews \in [ReviewIds -> SUBSET Reviews]
  BY DocumentFields DEF IInv
<1>1. ASSUME NEW t \in Tasks, TickSubtasks(t) PROVE IInv'
  <2> DEFINE p == [docs.phase EXCEPT !.task[t].boxes = TRUE]
             d == [docs EXCEPT !.phase = p]
  <2>1. p \in Phases /\ p.status = docs.phase.status
    BY <1>0, PhaseFields
  <2>2. Write(d)
    BY <1>1 DEF TickSubtasks
  <2> HIDE DEF p
  <2>3. d \in Documents /\ d.phase = p
    BY <1>0, <2>1, DocumentFields
  <2> HIDE DEF d
  <2> QED
    BY <2>1, <2>2, <2>3, WriteOK
<1>2. ASSUME TickCriteria PROVE IInv'
  <2> DEFINE p == [docs.phase EXCEPT !.criteria = TRUE]
             d == [docs EXCEPT !.phase = p]
  <2>1. p \in Phases /\ p.status = docs.phase.status
    BY <1>0, PhaseFields
  <2>2. Write(d)
    BY <1>2 DEF TickCriteria
  <2> HIDE DEF p
  <2>3. d \in Documents /\ d.phase = p
    BY <1>0, <2>1, DocumentFields
  <2> HIDE DEF d
  <2> QED
    BY <2>1, <2>2, <2>3, WriteOK
<1>3. ASSUME NEW s \in Statuses, SetEntry(s) PROVE IInv'
  <2> DEFINE q == [docs.plan EXCEPT !.entry = s]
             d == [docs EXCEPT !.plan = q]
  <2>1. q \in Plans
    BY <1>0 DEF Plans
  <2>2. Write(d)
    BY <1>3 DEF SetEntry
  <2> HIDE DEF q
  <2>3. d \in Documents /\ d.phase = docs.phase
    BY <1>0, <2>1, DocumentFields
  <2> HIDE DEF d
  <2> QED
    BY <2>2, <2>3, WriteOK
<1>4. ASSUME NEW i \in Intents, EditPhase(i) PROVE IInv'
  <2> DEFINE p == [docs.phase EXCEPT !.intent = i]
             d == [docs EXCEPT !.phase = p]
  <2>1. p \in Phases /\ p.status = docs.phase.status
    BY <1>0, PhaseFields
  <2>2. Write(d)
    BY <1>4 DEF EditPhase
  <2> HIDE DEF p
  <2>3. d \in Documents /\ d.phase = p
    BY <1>0, <2>1, DocumentFields
  <2> HIDE DEF d
  <2> QED
    BY <2>1, <2>2, <2>3, WriteOK
<1>5. ASSUME NEW i \in Intents, EditPlan(i) PROVE IInv'
  <2> DEFINE q == [docs.plan EXCEPT !.intent = i]
             d == [docs EXCEPT !.plan = q]
  <2>1. q \in Plans
    BY <1>0 DEF Plans
  <2>2. Write(d)
    BY <1>5 DEF EditPlan
  <2> HIDE DEF q
  <2>3. d \in Documents /\ d.phase = docs.phase
    BY <1>0, <2>1, DocumentFields
  <2> HIDE DEF d
  <2> QED
    BY <2>2, <2>3, WriteOK
<1>6. ASSUME NEW id \in ReviewIds, NEW verdict \in {"Aligned", "Amend"}, NEW open \in BOOLEAN,
             Judge(id, verdict, open)
      PROVE  IInv'
  <2>1. PICK r \in docs.reviews[id] :
               Write([docs EXCEPT !.reviews[id] = {[r EXCEPT !.verdict = verdict, !.open = open]}])
    BY <1>6 DEF Judge
  <2> DEFINE R == {[r EXCEPT !.verdict = verdict, !.open = open]}
             d == [docs EXCEPT !.reviews[id] = R]
  <2>2. r \in Reviews
    BY <1>0
  <2>3. R \in SUBSET Reviews
    BY <2>2 DEF Reviews
  <2>4. Write(d)
    BY <2>1
  <2> HIDE DEF R
  <2>5. d \in Documents /\ d.phase = docs.phase
    BY <1>0, <2>3, DocumentFields
  <2> HIDE DEF d
  <2> QED
    BY <2>4, <2>5, WriteOK
<1> QED
  BY <1>1, <1>2, <1>3, <1>4, <1>5, <1>6 DEF AuthorStep

LEMMA ReviewWritten ==
  ASSUME IInv, NEW id \in ReviewIds, NEW R \in SUBSET Reviews,
         Write([docs EXCEPT !.reviews[id] = R])
  PROVE  IInv'
<1> DEFINE d == [docs EXCEPT !.reviews[id] = R]
<1>1. d \in Documents /\ d.phase = docs.phase /\ Write(d)
  BY DocumentFields DEF IInv
<1> HIDE DEF d
<1> QED
  BY <1>1, WriteOK

LEMMA PhaseWritten ==
  ASSUME IInv, NEW p \in Phases, p.status = docs.phase.status, Write([docs EXCEPT !.phase = p])
  PROVE  IInv'
<1> DEFINE d == [docs EXCEPT !.phase = p]
<1>1. d \in Documents /\ d.phase = p /\ Write(d)
  BY DocumentFields DEF IInv
<1> HIDE DEF d
<1> QED
  BY <1>1, WriteOK

LEMMA PlanWritten ==
  ASSUME IInv, NEW q \in Plans, Write([docs EXCEPT !.plan = q])
  PROVE  IInv'
<1> DEFINE d == [docs EXCEPT !.plan = q]
<1>1. d \in Documents /\ d.phase = docs.phase /\ Write(d)
  BY DocumentFields DEF IInv
<1> HIDE DEF d
<1> QED
  BY <1>1, WriteOK

\* The revisions that verbs are given are commits, hence numbers.
LEMMA RevisionsTyped == ASSUME IInv PROVE Revisions \subseteq Nat
BY HistoryTypes DEF IInv, Revisions, Repos

LEMMA EvidenceOK ==
  ASSUME IInv, NEW rev \in Revisions
  PROVE  /\ \A t \in Tasks : EvidenceTask(t, rev) => IInv'
         /\ \A final \in FinalLines(Ranges) : EvidencePhase(rev, final) => IInv'
         /\ EvidencePlan(rev) => IInv'
<1>0. /\ docs \in Documents /\ docs.phase \in Phases /\ docs.plan \in Plans
      /\ docs.reviews \in [ReviewIds -> SUBSET Reviews] /\ rev \in Nat
  BY DocumentFields, RevisionsTyped DEF IInv
<1>1. ASSUME NEW t \in Tasks, EvidenceTask(t, rev) PROVE IInv'
  <2> DEFINE e == {[rev |-> rev]}
             p == [docs.phase EXCEPT !.task[t].ev = e]
  <2>1. e \in SUBSET EvidenceRecords
    BY <1>0 DEF EvidenceRecords
  <2>2. Write([docs EXCEPT !.phase = p])
    BY <1>1 DEF EvidenceTask
  <2> HIDE DEF e
  <2>3. p \in Phases /\ p.status = docs.phase.status
    BY <1>0, <2>1, TaskEvidenceTyped
  <2> HIDE DEF p
  <2> QED
    BY <2>2, <2>3, PhaseWritten
<1>2. ASSUME NEW final \in FinalLines(Ranges), EvidencePhase(rev, final) PROVE IInv'
  <2> DEFINE e == {[rev |-> rev, final |-> final, tasks |-> TaskIdentities(docs.phase)]}
             p == [docs.phase EXCEPT !.ev = e]
  <2>1. Ranges \subseteq Nat \X Nat
    <3>1. \A r \in UNION {docs.reviews[id] : id \in ReviewIds} : r.base \in Nat /\ r.end \in Nat
      BY <1>0 DEF Reviews
    <3> QED
      BY <3>1 DEF Ranges
  <2>2. final \in SUBSET [review : ReviewIds, frozen : Nat \X Nat]
    BY <2>1 DEF FinalLines
  <2>3. TaskIdentities(docs.phase) \in SUBSET (Tasks \X Nat)
    BY <1>0, IdentitiesTyped
  <2>4. e \in SUBSET PhaseEvidence
    BY <1>0, <2>2, <2>3 DEF PhaseEvidence
  <2>5. Write([docs EXCEPT !.phase = p])
    BY <1>2 DEF EvidencePhase
  <2> HIDE DEF e
  <2>6. p \in Phases /\ p.status = docs.phase.status
    BY <1>0, <2>4, PhaseFields
  <2> HIDE DEF p
  <2> QED
    BY <2>5, <2>6, PhaseWritten
<1>3. ASSUME EvidencePlan(rev) PROVE IInv'
  <2> DEFINE e == {[rev |-> rev, phases |-> PhaseIdentities(World)]}
             q == [docs.plan EXCEPT !.ev = e]
  <2>1. PhaseIdentities(World) \in SUBSET (Nat \X ReviewIds)
    <3>1. PhaseIdentities(World) \subseteq
            UNION {{<<x.rev, f.review>> : f \in x.final} : x \in docs.phase.ev}
      BY DEF PhaseIdentities, World
    <3> QED
      BY <1>0, <3>1, IdentitiesTyped
  <2>2. e \in SUBSET PlanEvidence
    BY <1>0, <2>1 DEF PlanEvidence
  <2>3. Write([docs EXCEPT !.plan = q])
    BY <1>3 DEF EvidencePlan
  <2> HIDE DEF e
  <2>4. q \in Plans
    BY <1>0, <2>2 DEF Plans
  <2> HIDE DEF q
  <2> QED
    BY <2>3, <2>4, PlanWritten
<1> QED
  BY <1>1, <1>2, <1>3

LEMMA ReviewVerbsOK ==
  ASSUME IInv, NEW id \in ReviewIds
  PROVE  /\ \A base, end \in Revisions : Scaffold(id, base, end) => IInv'
         /\ \A result \in {"pass", "changes"} : LaneEvidence(id, result) => IInv'
<1>0. docs.reviews \in [ReviewIds -> SUBSET Reviews] /\ docs \in Documents
  BY DocumentFields DEF IInv
<1>1. ASSUME NEW base \in Revisions, NEW end \in Revisions, Scaffold(id, base, end) PROVE IInv'
  <2> DEFINE R == {[base |-> base, end |-> end, planning |-> HeadAt(DocsRepo),
                    lanes |-> "placeholder", verdict |-> "Aligned", open |-> FALSE,
                    status |-> "open", frozen |-> FALSE]}
  <2>1. base \in Nat /\ end \in Nat
    BY RevisionsTyped
  <2>2. HeadAt(DocsRepo) \in Nat
    <3>1. DocsRepo \in Repos
      BY DEF DocsRepo, PlanRepo, Repos
    <3> QED
      BY <3>1, HistoryTypes, Lookup DEF IInv
  <2>3. R \in SUBSET Reviews
    BY <2>1, <2>2 DEF Reviews
  <2>4. Write([docs EXCEPT !.reviews[id] = R])
    BY <1>1 DEF Scaffold
  <2> HIDE DEF R
  <2> QED
    BY <2>3, <2>4, ReviewWritten
<1>2. ASSUME NEW result \in {"pass", "changes"}, LaneEvidence(id, result) PROVE IInv'
  <2>1. PICK r \in docs.reviews[id] :
               Write([docs EXCEPT !.reviews[id] = {[r EXCEPT !.lanes = result]}])
    BY <1>2 DEF LaneEvidence
  <2>2. {[r EXCEPT !.lanes = result]} \in SUBSET Reviews
    BY <1>0 DEF Reviews
  <2> QED
    BY <2>1, <2>2, ReviewWritten
<1> QED
  BY <1>1, <1>2

-----------------------------------------------------------------------------
(***************************************************************************)
(* What a sweep finds.                                                     *)
(***************************************************************************)
LEMMA Tag ==
  ASSUME NEW f, NEW tag
  PROVE  /\ f = <<tag>> => f[1] = tag
         /\ \A x : f = <<tag, x>> => f[1] = tag
         /\ \A x, y : f = <<tag, x, y>> => f[1] = tag
OBVIOUS

LEMMA EvidenceTags ==
  ASSUME NEW w, NEW who, NEW complete, NEW ev, NEW f \in EvidenceFindings(w, who, complete, ev)
  PROVE  f[1] \in {"pending", "no such revision", "not an ancestor"}
<1>1. \/ f = <<"pending", who>>
      \/ \E x : f = <<"no such revision", who, x>>
      \/ \E x : f = <<"not an ancestor", who, x>>
  BY DEF EvidenceFindings
<1>2. f[1] = "pending" \/ f[1] = "no such revision" \/ f[1] = "not an ancestor"
  BY <1>1, Tag, Zenon
<1> QED
  BY <1>2

LEMMA DurableTags ==
  ASSUME NEW who, NEW done, NEW ev, NEW cev, NEW f \in DurableFindings(who, done, ev, cev)
  PROVE  f[1] \in {"not committed", "differs from its commit"}
<1>1. f = <<"not committed", who>> \/ f = <<"differs from its commit", who>>
  BY Zenon DEF DurableFindings
<1>2. f[1] = "not committed" \/ f[1] = "differs from its commit"
  BY <1>1, Tag, Zenon
<1> QED
  BY <1>2

LEMMA TaskTags ==
  ASSUME NEW w, NEW t, NEW f \in TaskFindings(w, t)
  PROVE  f[1] \in {"pending", "no such revision", "not an ancestor", "unchecked", "merge commit",
                   "not committed", "differs from its commit"}
<1>1. \/ f \in EvidenceFindings(w, t, w.docs.phase.task[t].status = "complete", w.docs.phase.task[t].ev)
      \/ f = <<"unchecked", t>>
      \/ \E x : f = <<"merge commit", t, x>>
      \/ f \in TaskDurable(w, t)
  BY DEF TaskFindings, Unchecked
<1>2. CASE f \in TaskDurable(w, t)
  <2>1. PICK done, ev, cev : f \in DurableFindings(t, done, ev, cev)
    BY <1>2 DEF TaskDurable
  <2> QED
    BY <2>1, DurableTags
<1>3. CASE f = <<"unchecked", t>> \/ \E x : f = <<"merge commit", t, x>>
  <2>1. f[1] = "unchecked" \/ f[1] = "merge commit"
    BY <1>3, Tag, Zenon
  <2> QED
    BY <2>1
<1>4. CASE f \in EvidenceFindings(w, t, w.docs.phase.task[t].status = "complete",
                                  w.docs.phase.task[t].ev)
  <2>1. PICK complete, ev : f \in EvidenceFindings(w, t, complete, ev)
    BY <1>4, Zenon
  <2> QED
    BY <2>1, EvidenceTags
<1> QED
  BY <1>1, <1>2, <1>3, <1>4

LEMMA PlanTags ==
  ASSUME NEW w, NEW f \in PlanFindings(w)
  PROVE  f[1] \in {"pending", "no such revision", "not an ancestor", "entry disagrees",
                   "incomplete phase", "not committed", "differs from its commit",
                   "phase identities", "phase outside the checkpoint"}
<1>1. \/ f \in EvidenceFindings(w, "plan", w.docs.plan.status = "complete", w.docs.plan.ev)
      \/ \E x : f = <<"entry disagrees", x>>
      \/ f = <<"incomplete phase">> \/ f = <<"phase identities">>
      \/ f \in PlanDurable(w)
      \/ \E x, y : f = <<"phase outside the checkpoint", x, y>>
  <2>1. \A e : \A g \in CheckpointFindings(w, e) :
          g = <<"phase identities">> \/ \E x, y : g = <<"phase outside the checkpoint", x, y>>
    BY DEF CheckpointFindings
  <2> DEFINE E == EvidenceFindings(w, "plan", w.docs.plan.status = "complete", w.docs.plan.ev)
             P == IF w.docs.plan.entry # w.docs.phase.status
                  THEN {<<"entry disagrees", w.docs.plan.entry>>} ELSE {}
             Q == (IF w.docs.phase.status # "complete" THEN {<<"incomplete phase">>} ELSE {})
                  \cup PlanDurable(w)
                  \cup (IF w.docs.plan.ev = {} THEN {<<"phase identities">>} ELSE {})
                  \cup UNION {CheckpointFindings(w, e) : e \in w.docs.plan.ev}
  <2>2. f \in E \/ f \in P \/ f \in Q
    BY DEF PlanFindings, EntryDisagrees, IncompletePhase
  <2>3. f \in P => f = <<"entry disagrees", w.docs.plan.entry>>
    OBVIOUS
  <2>4. f \in Q => \/ f = <<"incomplete phase">> \/ f = <<"phase identities">>
                   \/ f \in PlanDurable(w)
                   \/ \E e \in w.docs.plan.ev : f \in CheckpointFindings(w, e)
    OBVIOUS
  <2> HIDE DEF P, Q
  <2> QED
    BY <2>1, <2>2, <2>3, <2>4, Zenon
<1>2. CASE f \in PlanDurable(w)
  <2>1. PICK done, ev, cev : f \in DurableFindings("plan", done, ev, cev)
    BY <1>2 DEF PlanDurable
  <2> QED
    BY <2>1, DurableTags
<1>3. CASE f \in EvidenceFindings(w, "plan", w.docs.plan.status = "complete", w.docs.plan.ev)
  <2>1. PICK complete, ev : f \in EvidenceFindings(w, "plan", complete, ev)
    BY <1>3, Zenon
  <2> QED
    BY <2>1, EvidenceTags
<1>4. CASE \/ \E x : f = <<"entry disagrees", x>>
           \/ f = <<"incomplete phase">> \/ f = <<"phase identities">>
           \/ \E x, y : f = <<"phase outside the checkpoint", x, y>>
  <2>1. \/ f[1] = "entry disagrees" \/ f[1] = "incomplete phase" \/ f[1] = "phase identities"
        \/ f[1] = "phase outside the checkpoint"
    BY <1>4, Tag, Zenon
  <2> QED
    BY <2>1
<1> QED
  BY <1>1, <1>2, <1>3, <1>4

\* Of a phase that is not complete, no sweep finds anything about its final
\* review.
LEMMA NothingFinalBefore ==
  ASSUME NEW w, w.docs.phase.status # "complete", NEW f \in Findings(w)
  PROVE  f[1] \notin FinalTags
<1>1. \/ \E t \in Tasks : f \in TaskFindings(w, t)
      \/ f \in PhaseFindings(w) \/ f \in PlanFindings(w)
      \/ \E id \in ReviewIds : f \in ReviewFindings(w, id)
  BY DEF Findings
<1>2. CASE \E t \in Tasks : f \in TaskFindings(w, t)
  BY <1>2, TaskTags DEF FinalTags
<1>3. CASE f \in PhaseFindings(w)
  <2>1. f \in EvidenceFindings(w, "phase", w.docs.phase.status = "complete", w.docs.phase.ev)
    BY <1>3 DEF PhaseFindings, Unchecked, IncompleteTasks
  <2>2. PICK complete, ev : f \in EvidenceFindings(w, "phase", complete, ev)
    BY <2>1, Zenon
  <2> QED
    BY <2>2, EvidenceTags DEF FinalTags
<1>4. CASE f \in PlanFindings(w)
  BY <1>4, PlanTags DEF FinalTags
<1>5. CASE \E id \in ReviewIds : f \in ReviewFindings(w, id)
  <2>1. PICK id \in ReviewIds : f \in ReviewFindings(w, id)
    BY <1>5
  <2>2. f = <<"review schema", id>>
    BY <2>1 DEF ReviewFindings
  <2>3. f[1] = "review schema"
    BY <2>2, Tag, Zenon
  <2> QED
    BY <2>3 DEF FinalTags
<1> QED
  BY <1>1, <1>2, <1>3, <1>4, <1>5

\* Everything about the final review of a complete phase is found.
LEMMA CompleteIsSwept ==
  ASSUME NEW w, w.docs.phase.status = "complete"
  PROVE  /\ {<<"incomplete task", t>> : t \in Tasks \ CompletedTasks(w.docs.phase)} \subseteq Findings(w)
         /\ w.docs.phase.ev = {} => <<"no final review">> \in Findings(w)
         /\ \A e \in w.docs.phase.ev : FinalReviewFindings(w, e) \subseteq Findings(w)
         /\ PhaseDurable(w) \subseteq Findings(w)
<1>1. PhaseFindings(w) \subseteq Findings(w)
  BY DEF Findings
<1>2. /\ {<<"incomplete task", t>> : t \in Tasks \ CompletedTasks(w.docs.phase)} \subseteq PhaseFindings(w)
      /\ w.docs.phase.ev = {} => <<"no final review">> \in PhaseFindings(w)
      /\ PhaseDurable(w) \subseteq PhaseFindings(w)
  BY DEF PhaseFindings, Unchecked, IncompleteTasks
<1>3. \A e \in w.docs.phase.ev : FinalReviewFindings(w, e) \subseteq PhaseFindings(w)
  <2> DEFINE H(e) == (IF e.tasks = {} \/ e.tasks # TaskIdentities(w.docs.phase)
                      THEN {<<"task identities">>} ELSE {}) \cup FinalReviewFindings(w, e)
  <2>1. \A e : FinalReviewFindings(w, e) \subseteq H(e)
    OBVIOUS
  <2>2. (UNION {H(e) : e \in w.docs.phase.ev}) \subseteq PhaseFindings(w)
    BY DEF PhaseFindings, Unchecked, IncompleteTasks
  <2> HIDE DEF H
  <2> QED
    BY <2>1, <2>2
<1> QED
  BY <1>1, <1>2, <1>3

LEMMA FinalIsSwept ==
  ASSUME NEW w, NEW e, Cardinality(e.final) = 1, NEW f \in e.final, NEW r \in w.docs.reviews[f.review]
  PROVE  /\ <<r.base, r.end>> # f.frozen
              => <<"frozen identity differs", f.frozen>> \in FinalReviewFindings(w, e)
         /\ ~IsValidPhaseReview(r)
              => <<"not an aligned review", f.review>> \in FinalReviewFindings(w, e)
         /\ ReviewCommittedFindings(w, f.review) \subseteq FinalReviewFindings(w, e)
         /\ IdentityFindings(w, e.rev, f.frozen) \subseteq FinalReviewFindings(w, e)
         /\ (\A c \in {f.frozen[1], f.frozen[2]} : Exists(w, "target", c))
              => PostReviewFindings(w, f.frozen[2]) \subseteq FinalReviewFindings(w, e)
         /\ PlanningRevisionFindings(w, r) \subseteq FinalReviewFindings(w, e)
<1> DEFINE F(x, y) ==
         (IF <<y.base, y.end>> # x.frozen THEN {<<"frozen identity differs", x.frozen>>} ELSE {})
         \cup (IF ~IsValidPhaseReview(y) THEN {<<"not an aligned review", x.review>>} ELSE {})
         \cup ReviewCommittedFindings(w, x.review)
         \cup IdentityFindings(w, e.rev, x.frozen)
         \cup (IF \A c \in {x.frozen[1], x.frozen[2]} : Exists(w, "target", c)
               THEN PostReviewFindings(w, x.frozen[2]) ELSE {})
         \cup PlanningRevisionFindings(w, y)
       G(x) == IF w.docs.reviews[x.review] = {} THEN {<<"review does not resolve", x.review>>}
               ELSE UNION {F(x, y) : y \in w.docs.reviews[x.review]}
<1>1. FinalReviewFindings(w, e) = UNION {G(x) : x \in e.final}
  BY DEF FinalReviewFindings
<1>2. /\ <<r.base, r.end>> # f.frozen => <<"frozen identity differs", f.frozen>> \in F(f, r)
      /\ ~IsValidPhaseReview(r) => <<"not an aligned review", f.review>> \in F(f, r)
      /\ ReviewCommittedFindings(w, f.review) \subseteq F(f, r)
      /\ IdentityFindings(w, e.rev, f.frozen) \subseteq F(f, r)
      /\ (\A c \in {f.frozen[1], f.frozen[2]} : Exists(w, "target", c))
           => PostReviewFindings(w, f.frozen[2]) \subseteq F(f, r)
      /\ PlanningRevisionFindings(w, r) \subseteq F(f, r)
  OBVIOUS
<1> HIDE DEF F
<1>3. F(f, r) \subseteq G(f)
  OBVIOUS
<1> HIDE DEF G
<1>4. G(f) \subseteq FinalReviewFindings(w, e)
  BY <1>1
<1> QED
  BY <1>2, <1>3, <1>4

LEMMA MissingIsSwept ==
  ASSUME NEW w, NEW e
  PROVE  /\ Cardinality(e.final) # 1 => <<"no final review">> \in FinalReviewFindings(w, e)
         /\ Cardinality(e.final) = 1 =>
              \A f \in e.final : w.docs.reviews[f.review] = {}
                 => <<"review does not resolve", f.review>> \in FinalReviewFindings(w, e)
<1>1. Cardinality(e.final) # 1 => <<"no final review">> \in FinalReviewFindings(w, e)
  BY DEF FinalReviewFindings
<1>2. ASSUME Cardinality(e.final) = 1, NEW f \in e.final, w.docs.reviews[f.review] = {}
      PROVE  <<"review does not resolve", f.review>> \in FinalReviewFindings(w, e)
  BY <1>2 DEF FinalReviewFindings
<1> QED
  BY <1>1, <1>2

\* A complete phase about whose final review nothing is found has one: it covers
\* the work, and, unless the worktree has changes, the sources at HEAD are its.
LEMMA ReviewIsThere ==
  ASSUME IInv, docs.phase.status = "complete", \A f \in Findings(World) : f[1] \notin FinalTags
  PROVE  \E e \in docs.phase.ev : \E f \in e.final : \E r \in docs.reviews[f.review] :
           /\ Cardinality(e.final) = 1 /\ f.review \in ReviewIds
           /\ r.end \in DOMAIN git["target"].commits
           /\ PostReviewFindings(World, r.end) \subseteq FinalReviewFindings(World, e)
           /\ ReviewedWork(docs, r)
           /\ Clean(World) => \/ HeadAt("target") = r.end
                              \/ /\ colocated
                                 /\ InHead(World, "target", r.end)
                                 /\ ~MaterialSince(World, r.end)
<1> DEFINE w == World
<1>0. w.docs = docs /\ w.colocated = colocated
  BY DEF World
<1>1. \A tag : /\ tag \in FinalTags => <<tag>> \notin Findings(w)
               /\ tag \in FinalTags => \A x : <<tag, x>> \notin Findings(w)
               /\ tag \in FinalTags => \A x, y : <<tag, x, y>> \notin Findings(w)
  BY Tag, Zenon
<1>2. w.docs.phase.status = "complete"
  BY <1>0
<1>3. CompletedTasks(docs.phase) = Tasks
  <2> SUFFICES ASSUME NEW t \in Tasks, t \notin CompletedTasks(docs.phase) PROVE FALSE
    BY DEF CompletedTasks
  <2>1. <<"incomplete task", t>> \in Findings(w)
    BY <1>0, <1>2, CompleteIsSwept
  <2>2. "incomplete task" \in FinalTags
    BY DEF FinalTags
  <2> QED
    BY <1>1, <2>1, <2>2, Zenon
<1>4. PICK e \in docs.phase.ev : FinalReviewFindings(w, e) \subseteq Findings(w)
  <2>1. docs.phase.ev # {}
    <3>1. "no final review" \in FinalTags
      BY DEF FinalTags
    <3>2. <<"no final review">> \notin Findings(w)
      BY <1>1, <3>1, Zenon
    <3> QED
      BY <1>0, <1>2, <3>2, CompleteIsSwept
  <2> QED
    BY <1>0, <1>2, <2>1, CompleteIsSwept
<1>5. Cardinality(e.final) = 1
  <2>1. "no final review" \in FinalTags
    BY DEF FinalTags
  <2>2. <<"no final review">> \notin FinalReviewFindings(w, e)
    BY <1>1, <1>4, <2>1, Zenon
  <2> QED
    BY <2>2, MissingIsSwept
<1>6. PICK f \in e.final : TRUE
  BY <1>5, FS_EmptySet
<1>7. docs \in Documents /\ f.review \in ReviewIds
  <2>1. docs.phase \in Phases
    BY DocumentFields DEF IInv
  <2>2. docs.phase.ev \in SUBSET PhaseEvidence
    BY <2>1, PhaseFields
  <2>3. e \in PhaseEvidence
    BY <2>2
  <2> QED
    BY <1>6, <2>3 DEF PhaseEvidence, IInv
<1>8. PICK r \in docs.reviews[f.review] : TRUE
  <2>1. "review does not resolve" \in FinalTags
    BY DEF FinalTags
  <2>2. <<"review does not resolve", f.review>> \notin FinalReviewFindings(w, e)
    BY <1>1, <1>4, <2>1, Zenon
  <2>3. w.docs.reviews[f.review] # {}
    BY <1>5, <1>6, <2>2, MissingIsSwept
  <2> QED
    BY <1>0, <2>3
<1> HIDE DEF w
<1>9. /\ <<r.base, r.end>> # f.frozen
           => <<"frozen identity differs", f.frozen>> \in FinalReviewFindings(w, e)
      /\ ~IsValidPhaseReview(r)
           => <<"not an aligned review", f.review>> \in FinalReviewFindings(w, e)
      /\ IdentityFindings(w, e.rev, f.frozen) \subseteq FinalReviewFindings(w, e)
      /\ (\A c \in {f.frozen[1], f.frozen[2]} : Exists(w, "target", c))
           => PostReviewFindings(w, f.frozen[2]) \subseteq FinalReviewFindings(w, e)
      /\ PlanningRevisionFindings(w, r) \subseteq FinalReviewFindings(w, e)
  <2>1. r \in w.docs.reviews[f.review]
    BY <1>0, <1>8
  <2> QED
    BY <1>5, <1>6, <2>1, FinalIsSwept
<1>10. /\ "frozen identity differs" \in FinalTags /\ "not an aligned review" \in FinalTags
       /\ "degenerate range" \in FinalTags /\ "endpoint is not the checkpoint" \in FinalTags
       /\ "no such endpoint" \in FinalTags /\ "range is not forward" \in FinalTags
       /\ "task outside the range" \in FinalTags /\ "target moved" \in FinalTags
       /\ "endpoint left the history" \in FinalTags /\ "material changes" \in FinalTags
       /\ "phase was reviewed otherwise" \in FinalTags /\ "plan was reviewed otherwise" \in FinalTags
       /\ "no such planning revision" \in FinalTags
       /\ "planning revision left the history" \in FinalTags
  BY DEF FinalTags
<1>11. f.frozen = <<r.base, r.end>> /\ IsValidPhaseReview(r)
  BY <1>1, <1>4, <1>9, <1>10
<1>12. f.frozen[1] = r.base /\ f.frozen[2] = r.end
  BY <1>11
<1>13. /\ Exists(w, "target", r.base) /\ Exists(w, "target", r.end)
       /\ OutOfRange(w, TaskIdentities(docs.phase), r.base, r.end) = {}
  <2>1. \A x : <<"no such endpoint", x>> \notin IdentityFindings(w, e.rev, f.frozen)
    BY <1>1, <1>4, <1>9, <1>10
  <2>2. <<"degenerate range">> \notin IdentityFindings(w, e.rev, f.frozen)
    BY <1>1, <1>4, <1>9, <1>10
  <2>3. r.base # r.end
    BY <1>12, <2>2 DEF IdentityFindings
  <2> DEFINE missing == {c \in {r.base, r.end} : ~Exists(w, "target", c)}
  <2>4. missing = {}
    <3>1. {<<"no such endpoint", c>> : c \in missing} \subseteq IdentityFindings(w, e.rev, f.frozen)
      BY <1>12, <2>3 DEF IdentityFindings
    <3> HIDE DEF missing
    <3> QED
      BY <2>1, <3>1
  <2>5. \A x, y : <<"range is not forward", x, y>> \notin IdentityFindings(w, e.rev, f.frozen)
    BY <1>1, <1>4, <1>9, <1>10
  <2>6. \A x : <<"task outside the range", x>> \notin IdentityFindings(w, e.rev, f.frozen)
    BY <1>1, <1>4, <1>9, <1>10
  <2>7. Ancestor(w, "target", r.base, r.end)
    <3> SUFFICES ASSUME ~Ancestor(w, "target", r.base, r.end) PROVE FALSE
      OBVIOUS
    <3>1. <<"range is not forward", r.base, r.end>> \in IdentityFindings(w, e.rev, f.frozen)
      BY <1>12, <2>3, <2>4 DEF IdentityFindings
    <3> QED
      BY <2>5, <3>1
  <2>8. OutOfRange(w, TaskIdentities(docs.phase), r.base, r.end)
          \subseteq IdentityFindings(w, e.rev, f.frozen)
    BY <1>0, <1>12, <2>3, <2>4, <2>7 DEF IdentityFindings
  <2>9. OutOfRange(w, TaskIdentities(docs.phase), r.base, r.end) = {}
    <3>1. \A g \in OutOfRange(w, TaskIdentities(docs.phase), r.base, r.end) :
            \E x : g = <<"task outside the range", x>>
      BY DEF OutOfRange
    <3> QED
      BY <2>6, <2>8, <3>1
  <2>10. Exists(w, "target", r.base) /\ Exists(w, "target", r.end)
    BY <2>4
  <2> QED
    BY <2>9, <2>10
<1>14. \A i \in TaskIdentities(docs.phase) :
         i[2] \in At(World, "target", r.end).anc \ At(World, "target", r.base).anc
  <2> SUFFICES ASSUME NEW i \in TaskIdentities(docs.phase),
                      \/ ~Ancestor(w, "target", i[2], r.end)
                      \/ Ancestor(w, "target", i[2], r.base)
               PROVE  FALSE
    BY DEF Ancestor, w
  <2>1. <<"task outside the range", i>> \in OutOfRange(w, TaskIdentities(docs.phase), r.base, r.end)
    BY DEF OutOfRange
  <2> QED
    BY <1>13, <2>1
<1>15. PostReviewFindings(w, r.end) \subseteq FinalReviewFindings(w, e)
  BY <1>9, <1>12, <1>13
<1>16. Clean(w) => \/ HeadAt("target") = r.end
                   \/ /\ colocated
                      /\ InHead(w, "target", r.end)
                      /\ ~MaterialSince(w, r.end)
  <2> SUFFICES ASSUME Clean(w), HeadOf(w, "target") # r.end
               PROVE  colocated /\ InHead(w, "target", r.end) /\ ~MaterialSince(w, r.end)
    BY DEF HeadAt, w
  <2>1. /\ <<"target moved", r.end>> \notin PostReviewFindings(w, r.end)
        /\ <<"endpoint left the history", r.end>> \notin PostReviewFindings(w, r.end)
        /\ <<"material changes", r.end>> \notin PostReviewFindings(w, r.end)
    BY <1>1, <1>4, <1>10, <1>15
  <2>2. w.colocated
    BY <2>1 DEF PostReviewFindings
  <2>3. InHead(w, "target", r.end)
    BY <2>1, <2>2 DEF PostReviewFindings
  <2>4. ~MaterialSince(w, r.end)
    BY <2>1, <2>2, <2>3 DEF PostReviewFindings
  <2> QED
    BY <1>0, <2>2, <2>3, <2>4
<1>17. /\ At(World, DocsRepo, r.planning).docs.phase.intent = docs.phase.intent
       /\ At(World, DocsRepo, r.planning).docs.plan.intent = docs.plan.intent
  <2>1. /\ <<"no such planning revision", r.planning>> \notin PlanningRevisionFindings(w, r)
        /\ <<"planning revision left the history", r.planning>> \notin PlanningRevisionFindings(w, r)
        /\ <<"phase was reviewed otherwise">> \notin PlanningRevisionFindings(w, r)
        /\ <<"plan was reviewed otherwise">> \notin PlanningRevisionFindings(w, r)
    BY <1>1, <1>4, <1>9, <1>10
  <2>2. Exists(w, PlanRepo(w), r.planning)
    BY <2>1 DEF PlanningRevisionFindings
  <2>3. InHead(w, PlanRepo(w), r.planning)
    BY <2>1, <2>2 DEF PlanningRevisionFindings
  <2>4. /\ At(w, PlanRepo(w), r.planning).docs.phase.intent = w.docs.phase.intent
        /\ At(w, PlanRepo(w), r.planning).docs.plan.intent = w.docs.plan.intent
    BY <2>1, <2>2, <2>3 DEF PlanningRevisionFindings
  <2> QED
    BY <1>0, <2>4 DEF DocsRepo, w
<1>18. ReviewedWork(docs, r)
  BY <1>3, <1>11, <1>14, <1>17 DEF ReviewedWork
<1>19. r.end \in DOMAIN git["target"].commits
  BY <1>13 DEF Exists, w, World
<1> QED
  BY <1>5, <1>6, <1>7, <1>8, <1>15, <1>16, <1>18, <1>19 DEF w

-----------------------------------------------------------------------------
(***************************************************************************)
(* The gate.                                                               *)
(***************************************************************************)
LEMMA PlanStatusTyped ==
  ASSUME NEW q \in Plans
  PROVE  [q EXCEPT !.status = "complete"] \in Plans /\ [q EXCEPT !.status = "approved"] \in Plans
BY DEF Plans

LEMMA GateBeginOK ==
  ASSUME IInv, NEW kind \in Kinds, NEW target, GateBegin(kind, target),
         kind = "task" => target \in Tasks, kind = "resolve" => target \in ReviewIds
  PROVE  IInv'
<1> DEFINE file == FileOf(kind, target, docs)
           candidate == Updated(kind, target, file)
           g == [kind |-> kind, target |-> target, original |-> file,
                 updated |-> candidate, before |-> Findings(World)]
<1>0. docs \in Documents /\ docs.phase \in Phases /\ docs.plan \in Plans
      /\ docs.reviews \in [ReviewIds -> SUBSET Reviews]
  BY DocumentFields DEF IInv
<1>1. /\ gate' = {g} /\ docs' = PutFile(kind, target, docs, candidate) /\ report' = "none"
      /\ UNCHANGED <<colocated, git, src>>
  BY DEF GateBegin
<1>2. GitOK'
  BY <1>1 DEF IInv, GitOK
<1>3. CASE kind = "task"
  <2>1. file = docs.phase /\ candidate = [docs.phase EXCEPT !.task[target].status = "complete"]
    BY <1>3 DEF FileOf, Updated
  <2>2. candidate \in Phases
    <3>1. \A t \in Tasks : [docs.phase EXCEPT !.task[t].status = "complete"] \in Phases
      BY <1>0, PhaseFields
    <3> QED
      BY <1>3, <2>1, <3>1
  <2>3. docs' = [docs EXCEPT !.phase = candidate]
    BY <1>1, <1>3 DEF PutFile
  <2> HIDE DEF candidate, file
  <2>4. docs' \in Documents
    BY <1>0, <2>2, <2>3, DocumentFields
  <2>5. GateTyped'
    BY <1>0, <1>1, <1>3, <2>1, <2>2 DEF GateTyped
  <2>6. GateStands'
    BY <1>1, <1>3 DEF GateStands
  <2> QED
    BY <1>1, <1>2, <2>4, <2>5, <2>6 DEF IInv
<1>4. CASE kind = "phase"
  <2>1. file = docs.phase /\ candidate = [docs.phase EXCEPT !.status = "complete"]
    BY <1>4 DEF FileOf, Updated
  <2>2. candidate \in Phases /\ candidate.status = "complete"
    <3>1. [docs.phase EXCEPT !.status = "complete"] \in Phases
      BY <1>0, PhaseFields
    <3>2. [docs.phase EXCEPT !.status = "complete"].status = "complete"
      BY <1>0 DEF Phases
    <3> QED
      BY <2>1, <3>1, <3>2
  <2>3. docs' = [docs EXCEPT !.phase = candidate]
    BY <1>1, <1>4 DEF PutFile
  <2> HIDE DEF candidate, file
  <2>4. docs' \in Documents /\ docs'.phase = candidate
    BY <1>0, <2>2, <2>3, DocumentFields
  <2>5. GateTyped'
    BY <1>0, <1>1, <1>4, <2>1, <2>2 DEF GateTyped
  <2>6. file.status # "complete" => \A f \in Findings(World) : f[1] \notin FinalTags
    <3>1. World.docs = docs
      BY Lookup
    <3> QED
      BY <2>1, <3>1, NothingFinalBefore
  <2>7. GateStands'
    BY <1>1, <2>2, <2>4, <2>6 DEF GateStands
  <2> QED
    BY <1>1, <1>2, <2>4, <2>5, <2>7 DEF IInv
<1>5. CASE kind \in {"plan", "approve"}
  <2>1. file = docs.plan /\ candidate \in Plans
    <3>1. file = docs.plan
      BY <1>5 DEF FileOf
    <3>2. candidate \in {[docs.plan EXCEPT !.status = "complete"], [docs.plan EXCEPT !.status = "approved"]}
      BY <1>5, <3>1 DEF Updated
    <3> QED
      BY <1>0, <3>1, <3>2, PlanStatusTyped
  <2>2. docs' = [docs EXCEPT !.plan = candidate]
    BY <1>1, <1>5 DEF PutFile
  <2> HIDE DEF candidate, file
  <2>3. docs' \in Documents
    BY <1>0, <2>1, <2>2, DocumentFields
  <2>4. GateTyped'
    BY <1>0, <1>1, <1>5, <2>1 DEF GateTyped
  <2>5. GateStands'
    BY <1>1, <1>5 DEF GateStands
  <2> QED
    BY <1>1, <1>2, <2>3, <2>4, <2>5 DEF IInv
<1>6. CASE kind = "resolve"
  <2>1. file = docs.reviews[target]
        /\ candidate = {[r EXCEPT !.status = "resolved", !.frozen = TRUE] : r \in file}
    BY <1>6 DEF FileOf, Updated
  <2>2. file \in SUBSET Reviews
    BY <1>0, <1>6, <2>1
  <2> HIDE DEF file
  <2>3. candidate \in SUBSET Reviews
    <3>1. \A r \in file : [r EXCEPT !.status = "resolved", !.frozen = TRUE] \in Reviews
      BY <2>2 DEF Reviews
    <3> QED
      BY <2>1, <3>1
  <2>4. docs' = [docs EXCEPT !.reviews[target] = candidate]
    BY <1>1, <1>6 DEF PutFile
  <2> HIDE DEF candidate
  <2>5. docs' \in Documents
    BY <1>0, <1>6, <2>3, <2>4, DocumentFields
  <2>6. GateTyped'
    BY <1>0, <1>1, <1>6, <2>2, <2>3 DEF GateTyped
  <2>7. GateStands'
    BY <1>1, <1>6 DEF GateStands
  <2> QED
    BY <1>1, <1>2, <2>5, <2>6, <2>7 DEF IInv
<1> QED
  BY <1>3, <1>4, <1>5, <1>6 DEF Kinds

LEMMA NoGateLeft ==
  ASSUME IInv, gate' = {}, UNCHANGED <<colocated, git, src>>, docs' \in Documents,
         report' \in {"none", "passed", "refused"}
  PROVE  IInv'
<1>1. GitOK'
  BY DEF IInv, GitOK
<1> QED
  BY <1>1 DEF IInv, GateTyped, GateStands

LEMMA GateEndOK == ASSUME IInv, GateEnd PROVE IInv'
<1>1. PICK g \in gate :
        /\ docs' = PutFile(g.kind, g.target, docs, IF Refusal(g) = {} THEN g.updated ELSE g.original)
        /\ report' = IF Refusal(g) = {} THEN "passed" ELSE "refused"
        /\ gate' = {}
        /\ UNCHANGED <<colocated, git, src>>
  BY DEF GateEnd
<1> DEFINE file == IF Refusal(g) = {} THEN g.updated ELSE g.original
<1>2. docs' = PutFile(g.kind, g.target, docs, file)
  BY <1>1
<1>3. /\ docs \in Documents /\ g.kind \in Kinds
      /\ g.kind \in {"task", "phase"} => file \in Phases
      /\ g.kind \in {"plan", "approve"} => file \in Plans
      /\ g.kind = "resolve" => g.target \in ReviewIds /\ file \in SUBSET Reviews
  BY DEF IInv, GateTyped
<1> HIDE DEF file
<1>4. CASE g.kind \in {"task", "phase"}
  <2>1. docs' = [docs EXCEPT !.phase = file]
    BY <1>2, <1>4 DEF PutFile
  <2>2. docs' \in Documents
    BY <1>3, <1>4, <2>1, DocumentFields
  <2> QED
    BY <1>1, <2>2, NoGateLeft
<1>5. CASE g.kind \in {"plan", "approve"}
  <2>1. docs' = [docs EXCEPT !.plan = file]
    BY <1>2, <1>5 DEF PutFile
  <2>2. docs' \in Documents
    BY <1>3, <1>5, <2>1, DocumentFields
  <2> QED
    BY <1>1, <2>2, NoGateLeft
<1>6. CASE g.kind = "resolve"
  <2>1. docs' = [docs EXCEPT !.reviews[g.target] = file]
    BY <1>2, <1>6 DEF PutFile
  <2>2. docs' \in Documents
    BY <1>3, <1>6, <2>1, DocumentFields
  <2> QED
    BY <1>1, <2>2, NoGateLeft
<1> QED
  BY <1>3, <1>4, <1>5, <1>6 DEF Kinds

LEMMA GitStepOK == ASSUME IInv, GitStep PROVE IInv'
<1>1. ASSUME gate = {}, gate' = {}, UNCHANGED <<colocated, report>>,
             GitOK', src' \in 0 .. MaxSrc, docs' \in Documents
      PROVE  IInv'
  BY <1>1 DEF IInv, GateTyped, GateStands
<1>2. ASSUME NEW r \in Repos, NEW parts, Commit(r, parts) PROVE IInv'
  <2>1. gate = {} /\ UNCHANGED <<colocated, src, docs, gate, report>>
    BY <1>2 DEF Commit
  <2> QED
    BY <1>1, <1>2, <2>1, CommitOK DEF IInv
<1>3. ASSUME NEW r \in Repos, AmendHead(r) PROVE IInv'
  <2>1. gate = {} /\ UNCHANGED <<colocated, src, docs, gate, report>>
    BY <1>3 DEF AmendHead
  <2> QED
    BY <1>1, <1>3, <2>1, AmendOK DEF IInv
<1>4. ASSUME NEW r \in Repos, NEW c \in DOMAIN git[r].commits, Checkout(r, c) PROVE IInv'
  <2>1. gate = {} /\ UNCHANGED <<colocated, gate, report>>
    BY <1>4 DEF Checkout
  <2> QED
    BY <1>1, <1>4, <2>1, CheckoutOK
<1>5. ASSUME NEW r \in Repos, NEW c \in DOMAIN git[r].commits, Merge(r, c) PROVE IInv'
  <2>1. gate = {} /\ UNCHANGED <<colocated, docs, gate, report>>
    BY <1>5 DEF Merge
  <2> QED
    BY <1>1, <1>5, <2>1, MergeOK DEF IInv
<1>6. ASSUME NEW v \in 0 .. MaxSrc, EditSource(v) PROVE IInv'
  <2>1. src' = v /\ UNCHANGED <<colocated, git, docs, gate, report>>
    BY <1>6 DEF EditSource
  <2>2. GitOK' /\ GateTyped' /\ GateStands'
    BY <2>1 DEF IInv, GitOK, GateTyped, GateStands
  <2> QED
    BY <2>1, <2>2 DEF IInv
<1> QED
  BY <1>2, <1>3, <1>4, <1>5, <1>6 DEF GitStep

LEMMA VerbStepOK == ASSUME IInv, VerbStep PROVE IInv'
<1>1. ASSUME Activate PROVE IInv'
  <2> DEFINE q == [docs.plan EXCEPT !.status = "active"]
  <2>1. docs.plan \in Plans
    BY DocumentFields DEF IInv
  <2>2. q \in Plans
    BY <2>1 DEF Plans
  <2>3. Write([docs EXCEPT !.plan = q])
    BY <1>1 DEF Activate
  <2> HIDE DEF q
  <2> QED
    BY <2>2, <2>3, PlanWritten
<1>2. ASSUME NEW t \in Tasks, GateBegin("task", t) PROVE IInv'
  BY <1>2, GateBeginOK DEF Kinds
<1>3. ASSUME NEW kind \in {"phase", "plan", "approve"}, GateBegin(kind, kind) PROVE IInv'
  BY <1>3, GateBeginOK DEF Kinds
<1>4. ASSUME NEW id \in ReviewIds, GateBegin("resolve", id) PROVE IInv'
  BY <1>4, GateBeginOK DEF Kinds
<1> QED
  BY <1>1, <1>2, <1>3, <1>4, EvidenceOK, ReviewVerbsOK DEF VerbStep, CompleteVerb

LEMMA NextIInv == IInv /\ [Next]_vars => IInv'
<1> SUFFICES ASSUME IInv, [Next]_vars PROVE IInv'
  OBVIOUS
<1>1. CASE Crash
  BY <1>1, NoGateLeft DEF Crash, IInv
<1>2. CASE UNCHANGED vars
  <2>1. GitOK' /\ GateTyped' /\ GateStands'
    BY <1>2 DEF IInv, GitOK, GateTyped, GateStands, vars
  <2> QED
    BY <1>2, <2>1 DEF IInv, vars
<1> QED
  BY <1>1, <1>2, GitStepOK, AuthorStepOK, VerbStepOK, GateEndOK DEF Next

LEMMA Invariance == Spec => []IInv
BY InitIInv, NextIInv, PTL DEF Spec

-----------------------------------------------------------------------------
\* Everything that PhaseClose keeps has its shape, in every history: heads are
\* commits, and a commit's ancestors are commits of its repository.
THEOREM ClosingIsTyped == Spec => []TypeOK
BY Invariance, TypesFollow, PTL

\* A root that validates with a complete phase was reviewed, whatever was
\* committed, amended, abandoned or merged, and whoever died in a gate: the
\* rules on evidence and on the final review (evidence.go, phasereview.go)
\* leave no way around each other.
THEOREM ValidRootWasReviewed == Spec => []ValidMeansReviewed
<1>1. ASSUME IInv PROVE ValidMeansReviewed
  <2> USE <1>1
  <2> SUFFICES ASSUME Findings(World) = {}, docs.phase.status = "complete"
               PROVE  \E r \in CitedReviews(docs) :
                        /\ ReviewedWork(docs, r)
                        /\ At(World, "target", HeadAt("target")).src = At(World, "target", r.end).src
                        /\ src = At(World, "target", r.end).src
                        /\ Committed(World).phase.status = "complete"
                        /\ Committed(World).phase.ev = docs.phase.ev
                        /\ r \in UNION {Committed(World).reviews[id] : id \in ReviewIds}
    BY DEF ValidMeansReviewed
  <2>0. World.docs = docs /\ World.src = src
    BY Lookup
  <2>1. PICK e, f, r :
           /\ e \in docs.phase.ev /\ f \in e.final /\ r \in docs.reviews[f.review]
           /\ Cardinality(e.final) = 1 /\ f.review \in ReviewIds
           /\ r.end \in DOMAIN git["target"].commits
           /\ PostReviewFindings(World, r.end) \subseteq FinalReviewFindings(World, e)
           /\ ReviewedWork(docs, r)
           /\ Clean(World) => \/ HeadAt("target") = r.end
                              \/ /\ colocated
                                 /\ InHead(World, "target", r.end)
                                 /\ ~MaterialSince(World, r.end)
    BY ReviewIsThere
  <2>2. FinalReviewFindings(World, e) = {} /\ PhaseDurable(World) = {}
    <3>1. World.docs.phase.status = "complete" /\ e \in World.docs.phase.ev
      BY <2>0, <2>1
    <3>2. FinalReviewFindings(World, e) \subseteq Findings(World) /\ PhaseDurable(World) \subseteq Findings(World)
      BY <3>1, CompleteIsSwept
    <3> QED
      BY <3>2
  <2>3. Clean(World)
    BY <2>1, <2>2 DEF PostReviewFindings
  <2>4. At(World, "target", HeadAt("target")).src = src
    BY <2>0, <2>3 DEF Clean, HeadAt
  <2> DEFINE C == git["target"].commits
             h == git["target"].head
  <2>5. C[h].src = C[r.end].src
    <3>1. CASE h = r.end
      BY <3>1
    <3>2. CASE InHead(World, "target", r.end) /\ ~MaterialSince(World, r.end)
      <4>1. /\ r.end \in C[h].anc
            /\ \A c \in C[h].anc \ C[r.end].anc : ~C[c].touches
        BY <3>2 DEF InHead, Ancestor, MaterialSince, At, HeadOf, World
      <4>2. SourcesFollow(C) /\ h \in DOMAIN C
        BY DEF IInv, GitOK, Repos
      <4> HIDE DEF C, h
      <4>3. r.end \in DOMAIN C
        BY <2>1 DEF C
      <4> QED
        BY <4>1, <4>2, <4>3 DEF SourcesFollow
    <3> QED
      BY <2>1, <2>3, <3>1, <3>2, Lookup
  <2>6. At(World, "target", HeadAt("target")).src = At(World, "target", r.end).src
    BY <2>5, Lookup
  <2>7. /\ Committed(World).phase.status = "complete"
        /\ Committed(World).phase.ev = docs.phase.ev
    <3>1. docs.phase.ev # {}
      BY <2>1
    <3> QED
      BY <2>0, <2>2, <3>1 DEF PhaseDurable, DurableFindings
  <2>8. r \in UNION {Committed(World).reviews[id] : id \in ReviewIds}
    <3>1. ReviewCommittedFindings(World, f.review) = {}
      BY <2>0, <2>1, <2>2, FinalIsSwept
    <3>2. Committed(World).reviews[f.review] = docs.reviews[f.review]
      BY <2>0, <3>1 DEF ReviewCommittedFindings
    <3> QED
      BY <2>1, <3>2
  <2>9. r \in CitedReviews(docs)
    BY <2>1 DEF CitedReviews
  <2> QED
    BY <2>1, <2>4, <2>6, <2>7, <2>8, <2>9
<1> QED
  BY <1>1, Invariance, PTL

\* A phase completes on reviewed work only: what the gate held against the
\* phase before cannot have been about its final review, so whatever is wrong
\* with that refuses the transition (gateDiagnostics in transition.go).
THEOREM CompletesOnReviewedWork == Spec => GateMeansReviewed
<1>1. ASSUME IInv, [Next]_vars, NEW g \in gate, Completes(g)
      PROVE  \E r \in CitedReviews(docs) :
               /\ ReviewedWork(docs, r)
               /\ ~colocated => HeadAt("target") = r.end \/ ~Clean(World)
  <2>1. /\ g.kind = "phase" /\ gate' = {} /\ report' = "passed" /\ g.original.status # "complete"
        /\ docs.phase.status = "complete" /\ report = "none" /\ gate = {g}
        /\ \A f \in g.before : f[1] \notin FinalTags
    BY <1>1 DEF Completes, IInv, GateStands, GateTyped
  <2>2. GateEnd
    <3>1. ~UNCHANGED report /\ gate # {}
      BY <2>1
    <3>2. ~GitStep
      BY <3>1 DEF GitStep, Commit, AmendHead, Checkout, Merge, EditSource
    <3>3. ~AuthorStep
      BY <3>1 DEF AuthorStep, TickSubtasks, TickCriteria, SetEntry, EditPhase, EditPlan, Judge, Write
    <3>4. ~VerbStep
      <4>1. \A kind, target : ~GateBegin(kind, target)
        BY <3>1 DEF GateBegin
      <4> QED
        BY <3>1, <4>1 DEF VerbStep, CompleteVerb, EvidenceTask, EvidencePhase, EvidencePlan, Scaffold,
             LaneEvidence, Activate, Write
    <3>5. ~Crash /\ ~UNCHANGED vars
      BY <3>1 DEF Crash, vars
    <3> QED
      BY <1>1, <3>2, <3>3, <3>4, <3>5 DEF Next
  <2>3. Blocking(Findings(World) \ g.before) = {}
    BY <2>1, <2>2 DEF GateEnd, Refusal
  <2>4. \A f \in Findings(World) : f[1] \notin FinalTags
    <3> SUFFICES ASSUME NEW f \in Findings(World), f[1] \in FinalTags PROVE FALSE
      OBVIOUS
    <3>1. f \notin g.before
      BY <2>1
    <3>2. ~Pending(f)
      BY DEF Pending, FinalTags
    <3> QED
      BY <2>3, <3>1, <3>2 DEF Blocking
  <2>5. PICK e, f, r :
           /\ e \in docs.phase.ev /\ f \in e.final /\ r \in docs.reviews[f.review]
           /\ f.review \in ReviewIds
           /\ ReviewedWork(docs, r)
           /\ Clean(World) => HeadAt("target") = r.end \/ colocated
    BY <1>1, <2>1, <2>4, ReviewIsThere
  <2>6. r \in CitedReviews(docs)
    BY <2>5 DEF CitedReviews
  <2> QED
    BY <2>5, <2>6
<1>2. IInv /\ [Next]_vars =>
        [\A g \in gate : Completes(g) =>
           \E r \in CitedReviews(docs) :
             /\ ReviewedWork(docs, r)
             /\ ~colocated => HeadAt("target") = r.end \/ ~Clean(World)]_vars
  BY <1>1
<1> QED
  BY <1>2, Invariance, PTL DEF Spec, GateMeansReviewed

-----------------------------------------------------------------------------
(***************************************************************************)
(* The life of a review: what rests between the verbs.                     *)
(***************************************************************************)
Artifacts ==
  [status : {"open", "resolved", "superseded"}, frozen : BOOLEAN,
   scope : {"phase", "node", "advisory"}, lanes : BOOLEAN, content : Contents \cup {Empty},
   supersedes : SUBSET Numbers, by : SUBSET Numbers]

Directories == [Numbers -> SUBSET Artifacts]

\* What is wrong with a review on its own, wherever the plan's tasks are now.
SettledContent(c) ==
  /\ FormErrors(c) = {} /\ StatusErrors(c) = {} /\ BodyErrors(c) = {} /\ LogErrors(c) = {}
  /\ DuplicateErrors(c) = {} /\ FollowupErrors(c) = {}
  /\ \A f \in Elems(c.followups) : f.task # "" => f.task \in ReviewTasks

Settled(r) == SettledContent(r.content) /\ OpenErrors(r) = {} /\ LaneErrors(r) = {}

PhaseFrozen(r) == r.frozen /\ r.scope = "phase"

\* How review r at n hangs together with the others.
Linked(rs, n, r) ==
  /\ r.status = "superseded" <=> r.by # {}
  /\ r.by # {} => r.frozen
  /\ n \notin r.supersedes
  /\ \A k, m \in r.supersedes : k = m
  /\ \A k, m \in r.by : k = m
  /\ \A m \in r.by : m \in Numbers /\ \E s \in rs[m] : n \in s.supersedes
  /\ PhaseFrozen(r) => \A m \in r.supersedes : \E s \in rs[m] : n \in s.by

\* A directory no verb is at work on.
Rests(rs, cl) ==
  /\ rs \in Directories
  /\ \A n \in Numbers : \A r \in rs[n] :
       /\ rs[n] = {r}
       /\ Linked(rs, n, r)
       /\ PhaseFrozen(r) => Settled(r)
  /\ cl \subseteq Numbers
  /\ \A n \in cl : \E r \in rs[n] : ClosesPhase(r)

\* The directory with review r at n.
With(rs, n, r) == [rs EXCEPT ![n] = {r}]

\* A sweep as a function of everything it reads.
Found(rs, at, cl) ==
  {<<0, <<"SDD167", n>>>> : n \in {n \in cl : ~\E r \in rs[n] : ClosesPhase(r)}}
    \cup UNION {{<<n, e>> : e \in ErrorsOn(rs, at, n)} : n \in Numbers}

LEMMA SweepIsFound ==
  ASSUME NEW rs, NEW at
  PROVE  Sweep(rs, at) = Found(rs, at, closing)
BY DEF Sweep, PhaseErrors, Found

Fields == {"name", "pc", "on", "new", "read", "as", "before"}

\* What a verb keeps, and what it has found out.
VerbOK(v) ==
  /\ verb = {v}
  /\ v = [x \in Fields |-> v[x]]
  /\ v.on \in Numbers /\ v.read \in Artifacts /\ v.as \in Artifacts
  /\ v.pc # "sweep" => reviews[v.on] = {v.read}
  /\ v.pc = "sweep" => /\ reviews[v.on] = {v.as}
                       /\ v.before = Found(With(reviews, v.on, v.read), anchors, closing)
  /\ \/ /\ v.name = "supersede"
        /\ v.pc \in {"scaffold", "gate", "sweep", "write", "undo"}
        /\ v.new \in Numbers /\ v.new # v.on
        /\ v.read.frozen /\ v.as = Retired(v.read, v.new)
        /\ v.new \notin v.read.by
        /\ v.pc = "scaffold" => reviews[v.new] = {}
        /\ v.pc # "scaffold" => reviews[v.new] = {Successor(v.read, v.on)}
        /\ v.pc = "write" => Introduced(Found(reviews, anchors, closing),
                                        Found(With(reviews, v.on, v.as), anchors, closing)) = {}
     \/ /\ v.name = "resolve"
        /\ v.pc \in {"gate", "sweep", "write"}
        /\ ~v.read.frozen /\ v.read.status \in {"open", "resolved"}
        /\ v.as = [v.read EXCEPT !.status = "resolved", !.frozen = Freezes(v.read)]
        /\ v.pc = "write" /\ v.read.scope = "phase" =>
             ErrorsOn(With(reviews, v.on, v.as), anchors, v.on) = {}

RecordInv ==
  /\ reviews \in Directories
  /\ anchors \in [ReviewTasks -> {"task", "node", "retired"}]
  /\ (\A v \in verb : v.pc # "sweep") => Rests(reviews, closing)
  /\ \A v \in verb : VerbOK(v) /\ (v.pc = "sweep" => Rests(With(reviews, v.on, v.read), closing))

\* There is a highest number among those present, and the next is free.
LEMMA NextIsFree ==
  ASSUME reviews \in Directories, NextNumber \in Numbers
  PROVE  reviews[NextNumber] = {}
<1> SUFFICES ASSUME reviews[NextNumber] # {} PROVE FALSE
  OBVIOUS
<1>1. NextNumber \in Written /\ Written \subseteq 1 .. MaxNumber /\ MaxNumber \in Nat
  BY RecordAssumption DEF Written, Numbers
<1> DEFINE bound == {k \in Nat : \A m \in Written : m <= k}
<1>2. MaxNumber \in bound /\ bound \subseteq Nat
  BY <1>1
<1> HIDE DEF bound
<1>3. PICK k \in bound : \A j \in bound : ~(<<j, k>> \in OpToRel(<, Nat))
  BY <1>2, WFMin, NatLessThanWellFounded
<1> USE DEF bound
<1>4. k \in Nat /\ \A m \in Written : m <= k
  OBVIOUS
<1>5. k \in Written
  <2> SUFFICES ASSUME k \notin Written PROVE FALSE
    OBVIOUS
  <2>1. k \in Nat \ {0} /\ k - 1 \in Nat /\ k - 1 < k
    BY <1>1, <1>4
  <2>2. \A m \in Written : m <= k - 1
    BY <1>1, <1>4
  <2>3. k - 1 \in bound
    BY <2>1, <2>2
  <2>4. <<k - 1, k>> \in OpToRel(<, Nat)
    BY <2>1 DEF OpToRel
  <2> QED
    BY <1>3, <2>3, <2>4
<1> DEFINE top == CHOOSE n \in Written : \A m \in Written : m <= n
<1>6. top \in Written /\ \A m \in Written : m <= top
  BY <1>4, <1>5
<1>7. NextNumber = 1 + top
  BY <1>5 DEF NextNumber
<1> HIDE DEF top
<1> QED
  BY <1>1, <1>6, <1>7

-----------------------------------------------------------------------------
\* Ways of changing a directory at rest.
LEMMA WithOK ==
  ASSUME NEW rs \in Directories, NEW n \in Numbers, NEW q \in Artifacts
  PROVE  /\ With(rs, n, q) \in Directories
         /\ With(rs, n, q)[n] = {q}
         /\ \A m \in Numbers : m # n => With(rs, n, q)[m] = rs[m]
         /\ \A r \in Artifacts : With(With(rs, n, q), n, r) = With(rs, n, r)
         /\ \A r \in Artifacts : rs[n] = {r} => With(With(rs, n, q), n, r) = rs
BY DEF With, Directories

\* A review is replaced by one with the same links.
LEMMA Replaced ==
  ASSUME NEW rs, NEW cl, Rests(rs, cl), NEW n \in Numbers, NEW r \in rs[n], NEW q \in Artifacts,
         q.supersedes = r.supersedes, q.by = r.by,
         q.status = "superseded" <=> q.by # {},
         q.by # {} => q.frozen,
         PhaseFrozen(q) => Settled(q) /\ \A m \in q.supersedes : \E s \in rs[m] : n \in s.by,
         n \in cl => ClosesPhase(q)
  PROVE  Rests(With(rs, n, q), cl)
<1> DEFINE rt == With(rs, n, q)
<1>1. rs \in Directories /\ rs[n] = {r} /\ Linked(rs, n, r)
  BY DEF Rests
<1>2. rt \in Directories /\ rt[n] = {q} /\ \A m \in Numbers : m # n => rt[m] = rs[m]
  BY <1>1, WithOK
<1> HIDE DEF rt
<1>3. \A x : \A m \in Numbers :
         /\ (\E s \in rs[m] : x \in s.supersedes) => (\E s \in rt[m] : x \in s.supersedes)
         /\ (\E s \in rs[m] : x \in s.by) => (\E s \in rt[m] : x \in s.by)
  BY <1>1, <1>2
<1>4. ASSUME NEW k \in Numbers, NEW t \in rt[k]
      PROVE  rt[k] = {t} /\ Linked(rt, k, t) /\ (PhaseFrozen(t) => Settled(t))
  <2>1. CASE k = n
    <3>1. t = q /\ rt[k] = {q}
      BY <1>2, <2>1
    <3>2. q.supersedes \subseteq Numbers /\ q.by \subseteq Numbers
      BY DEF Artifacts
    <3>3. Linked(rt, n, q)
      BY <1>1, <1>3, <3>2 DEF Linked
    <3> QED
      BY <2>1, <3>1, <3>3
  <2>2. CASE k # n
    <3>1. t \in rs[k] /\ rt[k] = rs[k]
      BY <1>2, <2>2
    <3>2. rs[k] = {t} /\ Linked(rs, k, t) /\ (PhaseFrozen(t) => Settled(t)) /\ t \in Artifacts
      BY <1>1, <3>1 DEF Rests, Directories
    <3>3. t.supersedes \subseteq Numbers
      BY <3>2 DEF Artifacts
    <3>4. Linked(rt, k, t)
      BY <1>3, <3>2, <3>3 DEF Linked
    <3> QED
      BY <3>1, <3>2, <3>4
  <2> QED
    BY <2>1, <2>2
<1>5. \A m \in cl : \E s \in rt[m] : ClosesPhase(s)
  BY <1>2 DEF Rests
<1>6. cl \subseteq Numbers
  BY DEF Rests
<1> QED
  BY <1>2, <1>4, <1>5, <1>6 DEF Rests, rt

\* A review is begun where there is none.
LEMMA Added ==
  ASSUME NEW rs, NEW cl, Rests(rs, cl), NEW n \in Numbers, rs[n] = {}, NEW q \in Artifacts,
         q.status = "open", ~q.frozen, q.by = {}, n \notin q.supersedes,
         \A k, m \in q.supersedes : k = m
  PROVE  Rests(With(rs, n, q), cl)
<1> DEFINE rt == With(rs, n, q)
<1>1. rs \in Directories
  BY DEF Rests
<1>2. rt \in Directories /\ rt[n] = {q} /\ \A m \in Numbers : m # n => rt[m] = rs[m]
  BY <1>1, WithOK
<1> HIDE DEF rt
<1>3. \A x : \A m \in Numbers :
         /\ (\E s \in rs[m] : x \in s.supersedes) => (\E s \in rt[m] : x \in s.supersedes)
         /\ (\E s \in rs[m] : x \in s.by) => (\E s \in rt[m] : x \in s.by)
  BY <1>2
<1>4. ASSUME NEW k \in Numbers, NEW t \in rt[k]
      PROVE  rt[k] = {t} /\ Linked(rt, k, t) /\ (PhaseFrozen(t) => Settled(t))
  <2>1. CASE k = n
    <3>1. t = q /\ rt[k] = {q}
      BY <1>2, <2>1
    <3>2. Linked(rt, n, q)
      BY DEF Linked, PhaseFrozen
    <3> QED
      BY <2>1, <3>1, <3>2 DEF PhaseFrozen
  <2>2. CASE k # n
    <3>1. t \in rs[k] /\ rt[k] = rs[k]
      BY <1>2, <2>2
    <3>2. rs[k] = {t} /\ Linked(rs, k, t) /\ (PhaseFrozen(t) => Settled(t)) /\ t \in Artifacts
      BY <1>1, <3>1 DEF Rests, Directories
    <3>3. t.supersedes \subseteq Numbers
      BY <3>2 DEF Artifacts
    <3>4. Linked(rt, k, t)
      BY <1>3, <3>2, <3>3 DEF Linked
    <3> QED
      BY <3>1, <3>2, <3>4
  <2> QED
    BY <2>1, <2>2
<1>5. \A m \in cl : \E s \in rt[m] : ClosesPhase(s)
  BY <1>2 DEF Rests
<1>6. cl \subseteq Numbers
  BY DEF Rests
<1> QED
  BY <1>2, <1>4, <1>5, <1>6 DEF Rests, rt

\* A review that is not frozen and succeeds nobody is taken away.
LEMMA Removed ==
  ASSUME NEW rs, NEW cl, Rests(rs, cl), NEW n \in Numbers, NEW r \in rs[n], ~r.frozen,
         \A k \in Numbers : \A t \in rs[k] : n \notin t.by
  PROVE  Rests([rs EXCEPT ![n] = {}], cl)
<1> DEFINE rt == [rs EXCEPT ![n] = {}]
<1>1. rs \in Directories /\ rs[n] = {r} /\ Linked(rs, n, r)
  BY DEF Rests
<1>2. rt \in Directories /\ rt[n] = {} /\ \A m \in Numbers : m # n => rt[m] = rs[m]
  BY <1>1 DEF Directories
<1> HIDE DEF rt
<1>3. r.by = {}
  BY <1>1 DEF Linked
<1>4. \A x : \A m \in Numbers : (\E s \in rs[m] : x \in s.by) => (\E s \in rt[m] : x \in s.by)
  BY <1>1, <1>2, <1>3
<1>5. \A x : \A m \in Numbers : m # n /\ (\E s \in rs[m] : x \in s.supersedes)
                              => (\E s \in rt[m] : x \in s.supersedes)
  BY <1>2
<1>6. ASSUME NEW k \in Numbers, NEW t \in rt[k]
      PROVE  rt[k] = {t} /\ Linked(rt, k, t) /\ (PhaseFrozen(t) => Settled(t))
  <2>1. k # n /\ t \in rs[k] /\ rt[k] = rs[k]
    BY <1>2
  <2>2. rs[k] = {t} /\ Linked(rs, k, t) /\ (PhaseFrozen(t) => Settled(t)) /\ t \in Artifacts
    BY <1>1, <2>1 DEF Rests, Directories
  <2>3. t.supersedes \subseteq Numbers /\ n \notin t.by
    BY <2>1, <2>2 DEF Artifacts
  <2>4. Linked(rt, k, t)
    BY <1>4, <1>5, <2>2, <2>3 DEF Linked
  <2> QED
    BY <2>1, <2>2, <2>4
<1>7. \A m \in cl : \E s \in rt[m] : ClosesPhase(s)
  BY <1>1, <1>2 DEF Rests, ClosesPhase
<1>8. cl \subseteq Numbers
  BY DEF Rests
<1> QED
  BY <1>2, <1>6, <1>7, <1>8 DEF Rests, rt

-----------------------------------------------------------------------------
\* The rules, from both sides: what a review without errors is, and what a
\* review at rest can be found to have.
LEMMA ErrorsIn ==
  ASSUME NEW rs, NEW at, NEW n, NEW r, rs[n] = {r}, NEW e
  PROVE  e \in ErrorsOn(rs, at, n) <=>
           \/ e \in FormErrors(r.content) \/ e \in StatusErrors(r.content) \/ e \in BodyErrors(r.content)
           \/ e \in LogErrors(r.content) \/ e \in DuplicateErrors(r.content) \/ e \in OpenErrors(r)
           \/ e \in FollowupErrors(r.content) \/ e \in TrackedErrors(at, r.content)
           \/ e \in DeferralErrors(at, r.content) \/ e \in LinkErrors(rs, n, r) \/ e \in LaneErrors(r)
BY DEF ErrorsOn

LEMMA LinkErrorsOf ==
  ASSUME NEW rs, NEW n, NEW r
  PROVE  /\ \A m \in r.supersedes :
              (rs[m] = {} => <<"SDD100", m>> \in LinkErrors(rs, n, r))
              /\ (rs[m] # {} /\ ~(\E s \in rs[m] : n \in s.by) => <<"SDD101", m>> \in LinkErrors(rs, n, r))
         /\ \A e \in LinkErrors(rs, n, r) :
              \/ ~(r.status = "superseded" <=> r.by # {})
              \/ \E m \in r.supersedes \cup r.by : rs[m] = {}
              \/ \E m \in r.supersedes : e = <<"SDD101", m>> /\ ~(\E s \in rs[m] : n \in s.by)
              \/ \E m \in r.by : e = <<"SDD101", m>> /\ ~(\E s \in rs[m] : n \in s.supersedes)
              \/ \E m \in r.supersedes : /\ e = <<"SDD102", m>>
                                         /\ \E s \in rs[m] : n \in s.by
                                         /\ \E s \in rs[m] : s.status # "superseded"
<1> DEFINE missing(link) == {m \in r[link] : rs[m] = {}}
           unmatched(link, back) == {m \in r[link] : rs[m] # {} /\ ~Says(rs, m, back, n)}
           standing == {m \in r.supersedes : Says(rs, m, "by", n)
                                             /\ \E o \in rs[m] : o.status # "superseded"}
           A == IF (r.status = "superseded") = (r.by # {}) THEN {} ELSE {<<"SDD099", "status">>}
           B == {<<"SDD100", m>> : m \in missing("supersedes") \cup missing("by")}
           C == {<<"SDD101", m>> : m \in unmatched("supersedes", "by") \cup unmatched("by", "supersedes")}
           D == {<<"SDD102", m>> : m \in standing}
<1>1. LinkErrors(rs, n, r) = A \cup B \cup C \cup D
  BY DEF LinkErrors
<1>2. /\ \A m : Says(rs, m, "by", n) <=> \E s \in rs[m] : n \in s.by
      /\ \A m : Says(rs, m, "supersedes", n) <=> \E s \in rs[m] : n \in s.supersedes
  BY DEF Says
<1>3. \A m \in r.supersedes :
         /\ rs[m] = {} => <<"SDD100", m>> \in B
         /\ rs[m] # {} /\ ~(\E s \in rs[m] : n \in s.by) => <<"SDD101", m>> \in C
  BY <1>2
<1>4. \A e \in A : ~(r.status = "superseded" <=> r.by # {})
  OBVIOUS
<1>5. \A e \in B : \E m \in r.supersedes \cup r.by : rs[m] = {}
  OBVIOUS
<1>6. \A e \in C : \/ \E m \in r.supersedes : e = <<"SDD101", m>> /\ ~(\E s \in rs[m] : n \in s.by)
                   \/ \E m \in r.by : e = <<"SDD101", m>> /\ ~(\E s \in rs[m] : n \in s.supersedes)
  BY <1>2
<1>7. \A e \in D : \E m \in r.supersedes : /\ e = <<"SDD102", m>>
                                         /\ \E s \in rs[m] : n \in s.by
                                         /\ \E t \in rs[m] : t.status # "superseded"
  BY <1>2
<1> HIDE DEF A, B, C, D
<1> QED
  BY <1>1, <1>3, <1>4, <1>5, <1>6, <1>7

\* A review the sweep finds nothing on.
LEMMA FoundNothing ==
  ASSUME NEW rs \in Directories, NEW at, NEW n \in Numbers, NEW r, rs[n] = {r},
         ErrorsOn(rs, at, n) = {}
  PROVE  Settled(r) /\ \A m \in r.supersedes : \E s \in rs[m] : n \in s.by
<1>1. /\ FormErrors(r.content) = {} /\ StatusErrors(r.content) = {} /\ BodyErrors(r.content) = {}
      /\ LogErrors(r.content) = {} /\ DuplicateErrors(r.content) = {} /\ OpenErrors(r) = {}
      /\ FollowupErrors(r.content) = {} /\ TrackedErrors(at, r.content) = {}
      /\ LinkErrors(rs, n, r) = {} /\ LaneErrors(r) = {}
  <2>1. \A e : e \notin ErrorsOn(rs, at, n)
    OBVIOUS
  <2> QED
    BY <2>1, ErrorsIn
<1>2. \A f \in Elems(r.content.followups) : f.task # "" => f.task \in ReviewTasks
  <2>1. \A f \in Elems(r.content.followups) : f.task # "" => Anchored(at, f.task)
    BY <1>1 DEF TrackedErrors
  <2> QED
    BY <2>1 DEF Anchored, IsTask
<1>3. \A m \in r.supersedes : \E s \in rs[m] : n \in s.by
  BY <1>1, LinkErrorsOf
<1> QED
  BY <1>1, <1>2, <1>3 DEF Settled, SettledContent

\* A frozen phase review at rest has no error but a citation that was lost.
LEMMA SettledIsFound ==
  ASSUME NEW rs, NEW cl, Rests(rs, cl), NEW at \in [ReviewTasks -> {"task", "node", "retired"}],
         NEW n \in Numbers, NEW r \in rs[n], PhaseFrozen(r), NEW e \in ErrorsOn(rs, at, n)
  PROVE  e[1] = "SDD098"
<1>1. rs[n] = {r} /\ Linked(rs, n, r) /\ Settled(r)
  BY DEF Rests
<1>2. TrackedErrors(at, r.content) = {}
  <2>1. \A f \in Elems(r.content.followups) : f.task # "" => Anchored(at, f.task)
    BY <1>1 DEF Settled, SettledContent, Anchored, IsTask
  <2> QED
    BY <2>1 DEF TrackedErrors
<1>3. LinkErrors(rs, n, r) = {}
  <2> SUFFICES ASSUME NEW x \in LinkErrors(rs, n, r) PROVE FALSE
    OBVIOUS
  <2>1. r.status = "superseded" <=> r.by # {}
    BY <1>1 DEF Linked
  <2>2. r.supersedes \subseteq Numbers /\ r.by \subseteq Numbers
    BY DEF Rests, Directories, Artifacts
  <2>3. \A m \in r.supersedes : \E s \in rs[m] : n \in s.by
    BY <1>1 DEF Linked
  <2>4. \A m \in r.by : \E s \in rs[m] : n \in s.supersedes
    BY <1>1 DEF Linked
  <2>5. \A m \in r.supersedes : \A s \in rs[m] : s.status = "superseded"
    <3> SUFFICES ASSUME NEW m \in r.supersedes, NEW s \in rs[m] PROVE s.status = "superseded"
      OBVIOUS
    <3>1. m \in Numbers /\ rs[m] = {s} /\ Linked(rs, m, s)
      BY <2>2 DEF Rests
    <3>2. n \in s.by
      BY <2>3, <3>1
    <3> QED
      BY <3>1, <3>2 DEF Linked
  <2>6. \A m \in r.supersedes \cup r.by : rs[m] # {}
    BY <2>3, <2>4
  <2> QED
    BY <2>1, <2>3, <2>4, <2>5, <2>6, LinkErrorsOf
<1>4. e \in DeferralErrors(at, r.content)
  <2>1. /\ FormErrors(r.content) = {} /\ StatusErrors(r.content) = {} /\ BodyErrors(r.content) = {}
        /\ LogErrors(r.content) = {} /\ DuplicateErrors(r.content) = {} /\ OpenErrors(r) = {}
        /\ FollowupErrors(r.content) = {} /\ LaneErrors(r) = {}
    BY <1>1 DEF Settled, SettledContent
  <2> QED
    BY <1>1, <1>2, <1>3, <2>1, ErrorsIn
<1>5. \E y : e = <<"SDD098", y>>
  BY <1>4 DEF DeferralErrors
<1> QED
  BY <1>5

\* No error but of a link is of the code SDD101.
LEMMA OnlyLinks ==
  ASSUME NEW rs, NEW at, NEW n, NEW r, rs[n] = {r}, NEW y, <<"SDD101", y>> \in ErrorsOn(rs, at, n)
  PROVE  <<"SDD101", y>> \in LinkErrors(rs, n, r)
<1> DEFINE e == <<"SDD101", y>>
<1>1. e \notin FormErrors(r.content) /\ e \notin StatusErrors(r.content) /\ e \notin BodyErrors(r.content)
  BY DEF FormErrors, StatusErrors, BodyErrors
<1>2. e \notin LogErrors(r.content) /\ e \notin DuplicateErrors(r.content) /\ e \notin OpenErrors(r)
  BY DEF LogErrors, DuplicateErrors, OpenErrors
<1>3. e \notin FollowupErrors(r.content) /\ e \notin TrackedErrors(at, r.content)
  BY DEF FollowupErrors, TrackedErrors
<1>4. e \notin DeferralErrors(at, r.content) /\ e \notin LaneErrors(r)
  BY DEF DeferralErrors, LaneErrors
<1> QED
  BY <1>1, <1>2, <1>3, <1>4, ErrorsIn

-----------------------------------------------------------------------------
\* A supersede that introduces nothing: the review is not one a complete phase
\* rests on, and no frozen review names it as its predecessor.
LEMMA SupersedeIsClean ==
  ASSUME Rests(reviews, closing), NEW n \in Numbers, NEW r \in reviews[n], r.frozen,
         NEW new \in Numbers, new # n, reviews[new] = {Successor(r, n)},
         NEW q \in Artifacts, q = Retired(r, new),
         Introduced(Sweep(reviews, anchors), Sweep(With(reviews, n, q), anchors)) = {}
  PROVE  Rests(With(reviews, n, q), closing)
<1> DEFINE rs == reviews
           rt == With(reviews, n, q)
<1>1. rs \in Directories /\ rs[n] = {r} /\ Linked(rs, n, r) /\ r \in Artifacts
  BY DEF Rests, Directories
<1>2. rt \in Directories /\ rt[n] = {q} /\ \A m \in Numbers : m # n => rt[m] = rs[m]
  BY <1>1, WithOK
<1>3. /\ q.status = "superseded" /\ q.by = {new} /\ q.frozen /\ q.supersedes = r.supersedes
      /\ q.content = r.content /\ q.scope = r.scope /\ q.lanes = r.lanes
  BY <1>1 DEF Retired, Artifacts
<1>4. /\ ~Successor(r, n).frozen /\ Successor(r, n).supersedes = {n}
  BY DEF Successor, Fresh
<1>5. Sweep(rt, anchors) \subseteq Sweep(rs, anchors)
  BY DEF Introduced
<1>6. n \notin closing
  <2> SUFFICES ASSUME n \in closing PROVE FALSE
    OBVIOUS
  <2>1. ClosesPhase(r)
    BY <1>1 DEF Rests
  <2>2. ~ClosesPhase(q)
    BY <1>3 DEF ClosesPhase
  <2>3. <<0, <<"SDD167", n>>>> \in Sweep(rt, anchors)
    BY <1>2, <2>2 DEF Sweep, PhaseErrors
  <2>4. <<0, <<"SDD167", n>>>> \notin PhaseErrors(rs)
    BY <1>1, <2>1 DEF PhaseErrors
  <2>5. \A x : \A k \in Numbers : <<0, <<"SDD167", n>>>> # <<k, x>>
    BY RecordAssumption DEF Numbers
  <2> QED
    BY <1>5, <2>3, <2>4, <2>5 DEF Sweep
<1>7. ASSUME NEW k \in Numbers, k # n, NEW t \in rs[k], PhaseFrozen(t), n \in t.supersedes
      PROVE  FALSE
  <2>1. rs[k] = {t} /\ Linked(rs, k, t) /\ rt[k] = {t}
    BY <1>2, <1>7 DEF Rests
  <2>2. k # new
    BY <1>4, <1>7, <2>1 DEF PhaseFrozen
  <2>3. <<"SDD101", n>> \in LinkErrors(rt, k, t)
    BY <1>2, <1>3, <1>7, <2>2, LinkErrorsOf
  <2>4. <<"SDD101", n>> \in ErrorsOn(rt, anchors, k)
    BY <2>1, <2>3, ErrorsIn
  <2>5. <<k, <<"SDD101", n>>>> \in Sweep(rs, anchors)
    BY <1>5, <2>4 DEF Sweep
  <2>6. <<k, <<"SDD101", n>>>> \notin PhaseErrors(rs)
    BY RecordAssumption DEF PhaseErrors, Numbers
  <2>7. <<"SDD101", n>> \in ErrorsOn(rs, anchors, k)
    BY <2>5, <2>6 DEF Sweep
  <2>8. <<"SDD101", n>> \in LinkErrors(rs, k, t)
    BY <2>1, <2>7, OnlyLinks
  <2>9. \E s \in rs[n] : k \in s.by
    BY <1>7, <2>1 DEF Linked
  <2>10. n \in t.by => \E s \in rs[n] : k \in s.supersedes
    BY <2>1 DEF Linked
  <2>11. /\ t.status = "superseded" <=> t.by # {}
         /\ \A m \in t.supersedes \cup t.by : rs[m] # {}
    BY <1>7, <2>1 DEF Linked
  <2> DEFINE e == <<"SDD101", n>>
  <2>12. \A m : (e = <<"SDD101", m>> => m = n) /\ e # <<"SDD102", m>>
    OBVIOUS
  <2> HIDE DEF e
  <2>13. e \in LinkErrors(rs, k, t)
    BY <2>8 DEF e
  <2> QED
    BY <2>9, <2>10, <2>11, <2>12, <2>13, LinkErrorsOf
<1>8. ASSUME NEW k \in Numbers, NEW t \in rt[k]
      PROVE  rt[k] = {t} /\ Linked(rt, k, t) /\ (PhaseFrozen(t) => Settled(t))
  <2>1. CASE k = n
    <3>1. t = q /\ rt[k] = {q}
      BY <1>2, <2>1
    <3>2. q.supersedes \subseteq Numbers
      BY DEF Artifacts
    <3>3. PhaseFrozen(q) => PhaseFrozen(r)
      BY <1>3 DEF PhaseFrozen
    <3>4. \A m \in q.by : m \in Numbers /\ \E s \in rt[m] : n \in s.supersedes
      BY <1>2, <1>3, <1>4
    <3>5. PhaseFrozen(q) => \A m \in q.supersedes : \E s \in rt[m] : n \in s.by
      BY <1>1, <1>2, <1>3, <3>2, <3>3 DEF Linked
    <3>6. Linked(rt, n, q)
      BY <1>1, <1>3, <3>4, <3>5 DEF Linked
    <3>7. PhaseFrozen(q) => Settled(q)
      <4>1. OpenErrors(q) = {}
        BY <1>3 DEF OpenErrors
      <4>2. PhaseFrozen(q) => Settled(r)
        BY <3>3 DEF Rests
      <4> QED
        BY <1>3, <4>1, <4>2 DEF Settled, LaneErrors
    <3> QED
      BY <2>1, <3>1, <3>6, <3>7
  <2>2. CASE k # n
    <3>1. t \in rs[k] /\ rt[k] = rs[k]
      BY <1>2, <2>2
    <3>2. rs[k] = {t} /\ Linked(rs, k, t) /\ (PhaseFrozen(t) => Settled(t)) /\ t \in Artifacts
      BY <1>1, <3>1 DEF Rests, Directories
    <3>3. t.supersedes \subseteq Numbers
      BY <3>2 DEF Artifacts
    <3>4. PhaseFrozen(t) => n \notin t.supersedes
      BY <1>7, <2>2, <3>1
    <3>5. \A m \in t.by : m \in Numbers /\ \E s \in rt[m] : k \in s.supersedes
      BY <1>1, <1>2, <1>3, <3>2 DEF Linked
    <3>6. PhaseFrozen(t) => \A m \in t.supersedes : \E s \in rt[m] : k \in s.by
      BY <1>2, <3>2, <3>3, <3>4 DEF Linked
    <3>7. Linked(rt, k, t)
      BY <3>2, <3>5, <3>6 DEF Linked
    <3> QED
      BY <3>1, <3>2, <3>7
  <2> QED
    BY <2>1, <2>2
<1>9. closing \subseteq Numbers /\ \A m \in closing : \E s \in rt[m] : ClosesPhase(s)
  BY <1>2, <1>6 DEF Rests
<1> HIDE DEF rt
<1> QED
  BY <1>2, <1>8, <1>9 DEF Rests, rt

-----------------------------------------------------------------------------
\* The steps, with one clerk at a time that does not die inside a gate.
LEMMA AtRest ==
  ASSUME verb' = {}, Rests(reviews', closing'),
         anchors' \in [ReviewTasks -> {"task", "node", "retired"}]
  PROVE  RecordInv'
BY DEF RecordInv, Rests

LEMMA RecordInitOK == RecordInit => RecordInv
BY DEF RecordInit, RecordInv, Rests, Directories

LEMMA FreshTyped ==
  ASSUME NEW scope \in {"phase", "node", "advisory"}
  PROVE  /\ Fresh(scope) \in Artifacts
         /\ Fresh(scope).status = "open" /\ ~Fresh(scope).frozen /\ Fresh(scope).by = {}
         /\ Fresh(scope).supersedes = {}
BY DEF Fresh, Artifacts

LEMMA SuccessorTyped ==
  ASSUME NEW r \in Artifacts, NEW n \in Numbers
  PROVE  /\ Successor(r, n) \in Artifacts
         /\ Successor(r, n).status = "open" /\ ~Successor(r, n).frozen
         /\ Successor(r, n).by = {} /\ Successor(r, n).supersedes = {n}
<1>1. r.scope \in {"phase", "node", "advisory"} /\ r.lanes \in BOOLEAN
  BY DEF Artifacts
<1> QED
  BY <1>1 DEF Successor, Fresh, Artifacts

LEMMA RetiredTyped ==
  ASSUME NEW r \in Artifacts, NEW n \in Numbers
  PROVE  Retired(r, n) \in Artifacts
BY DEF Retired, Artifacts

LEMMA ResolvedTyped ==
  ASSUME NEW r \in Artifacts, NEW q, q = [r EXCEPT !.status = "resolved", !.frozen = Freezes(r)]
  PROVE  /\ q \in Artifacts /\ q.status = "resolved" /\ q.frozen = Freezes(r)
         /\ q.scope = r.scope /\ q.supersedes = r.supersedes /\ q.by = r.by
<1>1. Freezes(r) \in BOOLEAN
  BY DEF Freezes
<1> QED
  BY <1>1 DEF Artifacts

LEMMA AuthorsOK ==
  ASSUME RecordInv, verb = {}, verb' = {},
         \/ \E scope \in {"phase", "node", "advisory"} : ScaffoldReview(scope)
         \/ \E n \in Numbers : \/ Rescaffold(n) \/ FillLanes(n) \/ RemoveOrphan(n)
                               \/ \E c \in Contents : EditReview(n, c)
  PROVE  RecordInv'
<1>1. Rests(reviews, closing) /\ reviews \in Directories
      /\ anchors \in [ReviewTasks -> {"task", "node", "retired"}]
  BY DEF RecordInv
<1>2. ASSUME UNCHANGED <<anchors, closing>>, Rests(reviews', closing) PROVE RecordInv'
  BY <1>1, <1>2, AtRest
<1>3. ASSUME NEW scope \in {"phase", "node", "advisory"}, ScaffoldReview(scope) PROVE RecordInv'
  <2>1. /\ NextNumber \in Numbers /\ reviews[NextNumber] = {}
        /\ reviews' = With(reviews, NextNumber, Fresh(scope)) /\ UNCHANGED <<anchors, closing>>
    BY <1>1, <1>3, NextIsFree DEF ScaffoldReview, Room, With
  <2>2. Rests(With(reviews, NextNumber, Fresh(scope)), closing)
    BY <1>1, <2>1, FreshTyped, Added
  <2> QED
    BY <1>2, <2>1, <2>2
<1>4. ASSUME NEW n \in Numbers, NEW r \in reviews[n], ~r.frozen,
             NEW q \in Artifacts, q.supersedes = r.supersedes, q.by = r.by, q.status = r.status,
             q.frozen = r.frozen, reviews' = With(reviews, n, q), UNCHANGED <<anchors, closing>>
      PROVE  RecordInv'
  <2>1. reviews[n] = {r} /\ Linked(reviews, n, r)
    BY <1>1 DEF Rests
  <2>2. n \notin closing
    BY <1>1, <1>4, <2>1 DEF Rests, ClosesPhase
  <2>3. ~PhaseFrozen(q) /\ (q.status = "superseded" <=> q.by # {}) /\ (q.by # {} => q.frozen)
    BY <1>4, <2>1 DEF Linked, PhaseFrozen
  <2>4. Rests(With(reviews, n, q), closing)
    BY <1>1, <1>4, <2>2, <2>3, Replaced
  <2> QED
    BY <1>2, <1>4, <2>4
<1>5. ASSUME NEW n \in Numbers, FillLanes(n) PROVE RecordInv'
  <2>1. PICK r \in reviews[n] : /\ ~r.frozen
                               /\ reviews' = [reviews EXCEPT ![n] = {[r EXCEPT !.lanes = TRUE]}]
    BY <1>5 DEF FillLanes
  <2> DEFINE q == [r EXCEPT !.lanes = TRUE]
  <2>2. r \in Artifacts
    BY <1>1 DEF Directories
  <2>3. /\ q \in Artifacts /\ q.supersedes = r.supersedes /\ q.by = r.by /\ q.status = r.status
        /\ q.frozen = r.frozen
    BY <2>2 DEF Artifacts
  <2>4. reviews' = With(reviews, n, q) /\ UNCHANGED <<anchors, closing>>
    BY <1>5, <2>1 DEF With, FillLanes
  <2> HIDE DEF q
  <2> QED
    BY <1>4, <2>1, <2>3, <2>4
<1>6. ASSUME NEW n \in Numbers, NEW c \in Contents, EditReview(n, c) PROVE RecordInv'
  <2>1. PICK r \in reviews[n] : /\ ~r.frozen
                               /\ reviews' = [reviews EXCEPT ![n] = {[r EXCEPT !.content = c]}]
    BY <1>6 DEF EditReview
  <2> DEFINE q == [r EXCEPT !.content = c]
  <2>2. r \in Artifacts
    BY <1>1 DEF Directories
  <2>3. /\ q \in Artifacts /\ q.supersedes = r.supersedes /\ q.by = r.by /\ q.status = r.status
        /\ q.frozen = r.frozen
    BY <2>2 DEF Artifacts
  <2>4. reviews' = With(reviews, n, q) /\ UNCHANGED <<anchors, closing>>
    BY <1>6, <2>1 DEF With, EditReview
  <2> HIDE DEF q
  <2> QED
    BY <1>4, <2>1, <2>3, <2>4
<1>7. ASSUME NEW n \in Numbers, Rescaffold(n) PROVE RecordInv'
  <2>1. PICK r \in reviews[n] : /\ ~r.frozen /\ r.supersedes = {}
                               /\ reviews' = [reviews EXCEPT ![n] = {Fresh("phase")}]
    BY <1>7 DEF Rescaffold
  <2>2. \A k \in Numbers : \A t \in reviews[k] : n \notin t.by
    <3> SUFFICES ASSUME NEW k \in Numbers, NEW t \in reviews[k], n \in t.by PROVE FALSE
      OBVIOUS
    <3>1. Linked(reviews, k, t) /\ reviews[n] = {r}
      BY <1>1, <2>1 DEF Rests
    <3> QED
      BY <2>1, <3>1 DEF Linked
  <2> DEFINE rt == [reviews EXCEPT ![n] = {}]
  <2>3. Rests(rt, closing)
    BY <1>1, <2>1, <2>2, Removed
  <2>4. rt[n] = {} /\ reviews' = With(rt, n, Fresh("phase"))
    BY <1>1, <2>1 DEF With, Directories
  <2> HIDE DEF rt
  <2>5. Fresh("phase") \in Artifacts /\ Fresh("phase").status = "open" /\ ~Fresh("phase").frozen
        /\ Fresh("phase").by = {} /\ Fresh("phase").supersedes = {}
    BY FreshTyped
  <2>6. Rests(With(rt, n, Fresh("phase")), closing)
    BY <2>3, <2>4, <2>5, Added
  <2> QED
    BY <1>2, <1>7, <2>4, <2>6 DEF Rescaffold
<1>8. ASSUME NEW n \in Numbers, RemoveOrphan(n) PROVE RecordInv'
  <2>1. PICK r \in reviews[n] : ~r.frozen /\ \E m \in r.supersedes : \A o \in reviews[m] : o.by # {n}
    BY <1>8 DEF RemoveOrphan
  <2>2. PICK m \in r.supersedes : \A o \in reviews[m] : o.by # {n}
    BY <2>1
  <2>3. \A k \in Numbers : \A t \in reviews[k] : n \notin t.by
    <3> SUFFICES ASSUME NEW k \in Numbers, NEW t \in reviews[k], n \in t.by PROVE FALSE
      OBVIOUS
    <3>1. Linked(reviews, k, t) /\ reviews[n] = {r} /\ Linked(reviews, n, r)
      BY <1>1, <2>1 DEF Rests
    <3>2. k \in r.supersedes
      BY <3>1 DEF Linked
    <3>3. k = m
      BY <2>2, <3>1, <3>2 DEF Linked
    <3>4. t.by = {n}
      BY <3>1 DEF Linked
    <3> QED
      BY <2>2, <3>3, <3>4
  <2>4. reviews' = [reviews EXCEPT ![n] = {}] /\ UNCHANGED <<anchors, closing>>
    BY <1>8 DEF RemoveOrphan
  <2>5. Rests([reviews EXCEPT ![n] = {}], closing)
    BY <1>1, <2>1, <2>3, Removed
  <2> QED
    BY <1>2, <2>4, <2>5
<1> QED
  BY <1>3, <1>5, <1>6, <1>7, <1>8

LEMMA PlanOK ==
  ASSUME RecordInv, verb = {}, verb' = {},
         (\E n \in Numbers : CompletePhase(n)) \/ ConvertPlan \/ (\E t \in ReviewTasks : RetireTask(t))
  PROVE  RecordInv'
<1>1. Rests(reviews, closing) /\ anchors \in [ReviewTasks -> {"task", "node", "retired"}]
  BY DEF RecordInv
<1>2. ASSUME NEW n \in Numbers, CompletePhase(n) PROVE RecordInv'
  <2>1. reviews' = reviews /\ closing' = {n} /\ anchors' = anchors /\ \E r \in reviews[n] : ClosesPhase(r)
    BY <1>2 DEF CompletePhase
  <2>2. Rests(reviews, {n})
    BY <1>1, <2>1 DEF Rests
  <2> QED
    BY <1>1, <2>1, <2>2, AtRest
<1>3. ASSUME ConvertPlan PROVE RecordInv'
  <2>1. reviews' = reviews /\ closing' = {} /\ anchors' = [t \in ReviewTasks |-> "node"]
    BY <1>3 DEF ConvertPlan
  <2>2. Rests(reviews, {})
    BY <1>1 DEF Rests
  <2> QED
    BY <2>1, <2>2, AtRest
<1>4. ASSUME NEW t \in ReviewTasks, RetireTask(t) PROVE RecordInv'
  <2>1. reviews' = reviews /\ closing' = closing /\ anchors' = [anchors EXCEPT ![t] = "retired"]
    BY <1>4 DEF RetireTask
  <2> QED
    BY <1>1, <2>1, AtRest
<1> QED
  BY <1>2, <1>3, <1>4

LEMMA Moved ==
  ASSUME NEW v, NEW w, NEW p, v = [x \in Fields |-> v[x]], w = [v EXCEPT !.pc = p]
  PROVE  /\ w = [x \in Fields |-> w[x]] /\ w.pc = p
         /\ w.name = v.name /\ w.on = v.on /\ w.new = v.new /\ w.read = v.read
         /\ w.as = v.as /\ w.before = v.before
BY DEF Fields

LEMMA MovedOn ==
  ASSUME NEW v, NEW w, NEW p, NEW b, v = [x \in Fields |-> v[x]],
         w = [v EXCEPT !.pc = p, !.before = b]
  PROVE  /\ w = [x \in Fields |-> w[x]] /\ w.pc = p /\ w.before = b
         /\ w.name = v.name /\ w.on = v.on /\ w.new = v.new /\ w.read = v.read
         /\ w.as = v.as
BY DEF Fields

LEMMA Begun ==
  ASSUME NEW v, NEW a, NEW p, NEW on, NEW new, NEW read, NEW as,
         v = [name |-> a, pc |-> p, on |-> on, new |-> new, read |-> read, as |-> as, before |-> {}]
  PROVE  /\ v = [x \in Fields |-> v[x]]
         /\ v.name = a /\ v.pc = p /\ v.on = on /\ v.new = new /\ v.read = read /\ v.as = as
BY DEF Fields

LEMMA BeginOK ==
  ASSUME RecordInv, NEW n \in Numbers,
         BeginSupersede(n) \/ \E accepted \in BOOLEAN : BeginResolve(n, accepted)
  PROVE  RecordInv'
<1>1. /\ verb = {} /\ Rests(reviews, closing) /\ reviews \in Directories
      /\ anchors \in [ReviewTasks -> {"task", "node", "retired"}]
      /\ UNCHANGED <<reviews, anchors, closing>>
  BY DEF RecordInv, BeginSupersede, BeginResolve
<1>2. ASSUME NEW v, verb' = {v}, VerbOK(v)', v.pc # "sweep" PROVE RecordInv'
  <2>1. reviews' \in Directories /\ anchors' \in [ReviewTasks -> {"task", "node", "retired"}]
    BY <1>1
  <2>2. Rests(reviews', closing')
    BY <1>1
  <2> QED
    BY <1>2, <2>1, <2>2 DEF RecordInv
<1>3. ASSUME BeginSupersede(n) PROVE RecordInv'
  <2>1. PICK r \in reviews[n] :
          /\ r.frozen
          /\ verb' = {[name |-> "supersede", pc |-> "scaffold", on |-> n, new |-> NextNumber,
                       read |-> r, as |-> Retired(r, NextNumber), before |-> {}]}
    BY <1>3 DEF BeginSupersede
  <2>2. PICK new \in Numbers : new = NextNumber /\ reviews[new] = {}
    BY <1>1, <1>3, NextIsFree DEF BeginSupersede, Room
  <2>3. r \in Artifacts /\ reviews[n] = {r} /\ Linked(reviews, n, r)
    BY <1>1 DEF Rests, Directories
  <2>4. new # n /\ new \notin r.by
    BY <2>2, <2>3 DEF Linked
  <2>5. Retired(r, new) \in Artifacts
    BY <2>2, <2>3, RetiredTyped
  <2> DEFINE v == [name |-> "supersede", pc |-> "scaffold", on |-> n, new |-> new,
                   read |-> r, as |-> Retired(r, new), before |-> {}]
  <2>6. verb' = {v}
    BY <2>1, <2>2
  <2>7. /\ v = [x \in Fields |-> v[x]]
        /\ v.name = "supersede" /\ v.pc = "scaffold" /\ v.on = n /\ v.new = new /\ v.read = r
        /\ v.as = Retired(r, new)
    BY Begun
  <2> HIDE DEF v
  <2>8. VerbOK(v)'
    BY <1>1, <2>1, <2>2, <2>3, <2>4, <2>5, <2>6, <2>7 DEF VerbOK
  <2> QED
    BY <1>2, <2>6, <2>7, <2>8
<1>4. ASSUME NEW accepted \in BOOLEAN, BeginResolve(n, accepted) PROVE RecordInv'
  <2>1. PICK r \in reviews[n] :
          /\ Resolvable(r, accepted)
          /\ verb' = {[name |-> "resolve", pc |-> IF r.scope = "phase" THEN "gate" ELSE "write",
                       on |-> n, new |-> n, read |-> r,
                       as |-> [r EXCEPT !.status = "resolved", !.frozen = Freezes(r)], before |-> {}]}
    BY <1>4 DEF BeginResolve
  <2> DEFINE p == IF r.scope = "phase" THEN "gate" ELSE "write"
             q == [r EXCEPT !.status = "resolved", !.frozen = Freezes(r)]
             v == [name |-> "resolve", pc |-> p, on |-> n, new |-> n, read |-> r, as |-> q,
                   before |-> {}]
  <2>2. r \in Artifacts /\ reviews[n] = {r} /\ ~r.frozen /\ r.status \in {"open", "resolved"}
    BY <1>1, <2>1 DEF Rests, Directories, Resolvable
  <2>3. q \in Artifacts
    BY <2>2, ResolvedTyped
  <2>4. p \in {"gate", "write"} /\ (p = "write" => r.scope # "phase")
    OBVIOUS
  <2>5. verb' = {v}
    BY <2>1
  <2> HIDE DEF p
  <2>6. /\ v = [x \in Fields |-> v[x]]
        /\ v.name = "resolve" /\ v.pc = p /\ v.on = n /\ v.read = r /\ v.as = q
    BY Begun
  <2> HIDE DEF v
  <2>7. VerbOK(v)'
    BY <1>1, <2>2, <2>3, <2>4, <2>5, <2>6 DEF VerbOK
  <2> QED
    BY <1>2, <2>4, <2>5, <2>6, <2>7
<1> QED
  BY <1>3, <1>4

LEMMA SuccessorOK ==
  ASSUME RecordInv, WriteSuccessor
  PROVE  RecordInv'
<1>1. PICK v \in verb : /\ v.pc = "scaffold"
                        /\ reviews' = [reviews EXCEPT ![v.new] = {Successor(v.read, v.on)}]
                        /\ verb' = {[v EXCEPT !.pc = "gate"]}
                        /\ UNCHANGED <<anchors, closing>>
  BY DEF WriteSuccessor
<1>2. /\ VerbOK(v) /\ verb = {v} /\ reviews \in Directories
      /\ anchors' \in [ReviewTasks -> {"task", "node", "retired"}]
  BY <1>1 DEF RecordInv, VerbOK
<1>3. Rests(reviews, closing)
  BY <1>1, <1>2 DEF RecordInv
<1>4. /\ v.name = "supersede" /\ v.new \in Numbers /\ v.on \in Numbers /\ v.new # v.on
      /\ v.read \in Artifacts /\ v.as \in Artifacts /\ v.read.frozen
      /\ v.as = Retired(v.read, v.new) /\ v.new \notin v.read.by
      /\ reviews[v.new] = {} /\ reviews[v.on] = {v.read}
  BY <1>1, <1>2 DEF VerbOK
<1> DEFINE q == Successor(v.read, v.on)
<1>5. /\ q \in Artifacts /\ q.status = "open" /\ ~q.frozen /\ q.by = {} /\ q.supersedes = {v.on}
  BY <1>4, SuccessorTyped
<1>6. reviews' = With(reviews, v.new, q)
  BY <1>1 DEF With
<1> HIDE DEF q
<1>7. Rests(reviews', closing')
  <2>1. v.new \notin q.supersedes /\ \A k, m \in q.supersedes : k = m
    BY <1>4, <1>5
  <2>2. Rests(With(reviews, v.new, q), closing)
    BY <1>3, <1>4, <1>5, <2>1, Added
  <2> QED
    BY <1>1, <1>6, <2>2
<1>8. reviews'[v.new] = {q} /\ reviews'[v.on] = {v.read} /\ reviews' \in Directories
  BY <1>2, <1>4, <1>5, <1>6, WithOK
<1> DEFINE w == [v EXCEPT !.pc = "gate"]
<1>9. /\ w = [x \in Fields |-> w[x]] /\ w.pc = "gate"
      /\ w.name = v.name /\ w.on = v.on /\ w.new = v.new /\ w.read = v.read
      /\ w.as = v.as /\ w.before = v.before
  <2>1. v = [x \in Fields |-> v[x]]
    BY <1>2 DEF VerbOK
  <2> QED
    BY <2>1, Moved
<1>10. verb' = {w}
  BY <1>1
<1> HIDE DEF w
<1>11. VerbOK(w)'
  BY <1>4, <1>8, <1>9, <1>10 DEF VerbOK, q
<1> QED
  BY <1>2, <1>7, <1>8, <1>9, <1>10, <1>11 DEF RecordInv

LEMMA CandidateOK ==
  ASSUME RecordInv, PlaceCandidate
  PROVE  RecordInv'
<1>1. PICK v \in verb : /\ v.pc = "gate"
                        /\ verb' = {[v EXCEPT !.pc = "sweep", !.before = Sweep(reviews, anchors)]}
                        /\ reviews' = [reviews EXCEPT ![v.on] = {v.as}]
                        /\ UNCHANGED <<anchors, closing>>
  BY DEF PlaceCandidate
<1>2. /\ VerbOK(v) /\ verb = {v} /\ reviews \in Directories
      /\ anchors' \in [ReviewTasks -> {"task", "node", "retired"}]
  BY <1>1 DEF RecordInv, VerbOK
<1>3. Rests(reviews, closing)
  BY <1>1, <1>2 DEF RecordInv
<1>4. /\ v.on \in Numbers /\ v.read \in Artifacts /\ v.as \in Artifacts
      /\ reviews[v.on] = {v.read}
  BY <1>1, <1>2 DEF VerbOK
<1>5. /\ reviews' \in Directories /\ reviews'[v.on] = {v.as}
      /\ \A m \in Numbers : m # v.on => reviews'[m] = reviews[m]
      /\ With(reviews', v.on, v.read) = reviews
  <2>1. reviews' = With(reviews, v.on, v.as)
    BY <1>1 DEF With
  <2> QED
    BY <1>2, <1>4, <2>1, WithOK
<1>6. PICK before : before = Found(reviews, anchors, closing)
  OBVIOUS
<1> DEFINE w == [v EXCEPT !.pc = "sweep", !.before = before]
<1>7. verb' = {w}
  BY <1>1, <1>6, SweepIsFound
<1>8. /\ w = [x \in Fields |-> w[x]] /\ w.pc = "sweep" /\ w.before = before
      /\ w.name = v.name /\ w.on = v.on /\ w.new = v.new /\ w.read = v.read
      /\ w.as = v.as
  <2>1. v = [x \in Fields |-> v[x]]
    BY <1>2 DEF VerbOK
  <2> QED
    BY <2>1, MovedOn
<1> HIDE DEF w
<1>9. Found(With(reviews', w.on, w.read), anchors', closing') = before
  BY <1>1, <1>5, <1>6, <1>8
<1>10. v.name = "supersede" => v.new \in Numbers /\ v.new # v.on
  BY <1>2 DEF VerbOK
<1>11. VerbOK(w)'
  <2>1. /\ w.pc # "sweep" => reviews'[w.on] = {w.read}
        /\ reviews'[w.on] = {w.as}
        /\ w.before = Found(With(reviews', w.on, w.read), anchors', closing')
    BY <1>5, <1>8, <1>9
  <2>2. v.name = "supersede" => reviews'[v.new] = {Successor(v.read, v.on)}
    BY <1>1, <1>2, <1>5, <1>10 DEF VerbOK
  <2> QED
    BY <1>1, <1>2, <1>4, <1>7, <1>8, <2>1, <2>2 DEF VerbOK
<1>12. Rests(With(reviews', w.on, w.read), closing')
  BY <1>1, <1>3, <1>5, <1>8
<1> QED
  BY <1>2, <1>5, <1>7, <1>8, <1>11, <1>12 DEF RecordInv

LEMMA JudgementOK ==
  ASSUME RecordInv, JudgeCandidate
  PROVE  RecordInv'
<1>1. PICK v \in verb :
        /\ v.pc = "sweep"
        /\ reviews' = [reviews EXCEPT ![v.on] = {v.read}]
        /\ verb' = IF Refuses(v, Sweep(reviews, anchors)) = {} THEN {[v EXCEPT !.pc = "write"]}
                   ELSE IF v.name = "supersede" THEN {[v EXCEPT !.pc = "undo"]} ELSE {}
        /\ UNCHANGED <<anchors, closing>>
  BY DEF JudgeCandidate
<1>2. /\ VerbOK(v) /\ verb = {v} /\ reviews \in Directories
      /\ anchors' \in [ReviewTasks -> {"task", "node", "retired"}]
  BY <1>1 DEF RecordInv, VerbOK
<1>3. reviews' = With(reviews, v.on, v.read)
  BY <1>1 DEF With
<1>4. Rests(reviews', closing')
  BY <1>1, <1>2, <1>3 DEF RecordInv
<1>5. /\ v.on \in Numbers /\ v.read \in Artifacts /\ v.as \in Artifacts
      /\ reviews[v.on] = {v.as} /\ v.before = Found(reviews', anchors, closing)
      /\ v = [x \in Fields |-> v[x]]
  BY <1>1, <1>2, <1>3 DEF VerbOK
<1>6. /\ reviews' \in Directories /\ reviews'[v.on] = {v.read}
      /\ \A m \in Numbers : m # v.on => reviews'[m] = reviews[m]
      /\ With(reviews', v.on, v.as) = reviews
  BY <1>2, <1>3, <1>5, WithOK
<1>7. ASSUME NEW w, NEW p, w = [v EXCEPT !.pc = p], verb' = {w}, p \in {"write", "undo"},
             p = "undo" => v.name = "supersede",
             p = "write" => Refuses(v, Sweep(reviews, anchors)) = {}
      PROVE  RecordInv'
  <2>1. /\ w = [x \in Fields |-> w[x]] /\ w.pc = p
        /\ w.name = v.name /\ w.on = v.on /\ w.new = v.new /\ w.read = v.read
        /\ w.as = v.as /\ w.before = v.before
    BY <1>5, <1>7, Moved
  <2>2. v.name = "supersede" /\ p = "write" =>
           Introduced(Found(reviews', anchors', closing'),
                      Found(With(reviews', w.on, w.as), anchors', closing')) = {}
    <3> SUFFICES ASSUME v.name = "supersede", p = "write"
                 PROVE  Introduced(Found(reviews', anchors', closing'),
                                   Found(With(reviews', w.on, w.as), anchors', closing')) = {}
      OBVIOUS
    <3>1. Introduced(v.before, Found(reviews, anchors, closing)) = {}
      BY <1>7, SweepIsFound DEF Refuses
    <3> QED
      BY <1>1, <1>5, <1>6, <2>1, <3>1
  <2>3. v.name # "supersede" /\ p = "write" => ErrorsOn(reviews, anchors, v.on) = {}
    <3> SUFFICES ASSUME v.name # "supersede", p = "write", NEW e \in ErrorsOn(reviews, anchors, v.on)
                 PROVE  FALSE
      OBVIOUS
    <3>1. <<v.on, e>> \in Sweep(reviews, anchors)
      BY <1>5 DEF Sweep
    <3>2. ArtifactErrors(v.before, Sweep(reviews, anchors), v.on) = {}
      BY <1>7 DEF Refuses
    <3> QED
      BY <3>1, <3>2 DEF ArtifactErrors
  <2>4. v.name = "supersede" => /\ v.new \in Numbers /\ v.new # v.on
                                /\ reviews'[v.new] = {Successor(v.read, v.on)}
    BY <1>1, <1>2, <1>6 DEF VerbOK
  <2>5. reviews'[w.on] = {w.read} /\ w.pc # "sweep"
    BY <1>6, <1>7, <2>1
  <2>6. v.name # "supersede" /\ p = "write" =>
           ErrorsOn(With(reviews', w.on, w.as), anchors', w.on) = {}
    BY <1>1, <1>6, <2>1, <2>3
  <2>7. \/ /\ v.name = "supersede"
           /\ v.read.frozen /\ v.as = Retired(v.read, v.new)
           /\ v.new \notin v.read.by
        \/ /\ v.name = "resolve"
           /\ ~v.read.frozen /\ v.read.status \in {"open", "resolved"}
           /\ v.as = [v.read EXCEPT !.status = "resolved", !.frozen = Freezes(v.read)]
    BY <1>2 DEF VerbOK
  <2>8. VerbOK(w)'
    BY <1>5, <1>7, <2>1, <2>2, <2>4, <2>5, <2>6, <2>7 DEF VerbOK
  <2> QED
    BY <1>2, <1>4, <1>6, <1>7, <2>5, <2>8 DEF RecordInv
<1>8. CASE Refuses(v, Sweep(reviews, anchors)) = {}
  BY <1>1, <1>7, <1>8
<1>9. CASE Refuses(v, Sweep(reviews, anchors)) # {} /\ v.name = "supersede"
  BY <1>1, <1>7, <1>9
<1>10. CASE Refuses(v, Sweep(reviews, anchors)) # {} /\ v.name # "supersede"
  BY <1>1, <1>2, <1>4, <1>10, AtRest
<1> QED
  BY <1>8, <1>9, <1>10

LEMMA VerdictOK ==
  ASSUME RecordInv, WriteVerdict
  PROVE  RecordInv'
<1>1. PICK v \in verb : /\ v.pc = "write" /\ verb' = {}
                        /\ reviews' = [reviews EXCEPT ![v.on] = {v.as}]
                        /\ UNCHANGED <<anchors, closing>>
  BY DEF WriteVerdict
<1>2. /\ VerbOK(v) /\ verb = {v} /\ reviews \in Directories
      /\ anchors' \in [ReviewTasks -> {"task", "node", "retired"}]
  BY <1>1 DEF RecordInv, VerbOK
<1>3. Rests(reviews, closing)
  BY <1>1, <1>2 DEF RecordInv
<1>4. /\ v.on \in Numbers /\ v.read \in Artifacts /\ v.as \in Artifacts
      /\ reviews[v.on] = {v.read} /\ reviews' = With(reviews, v.on, v.as)
  BY <1>1, <1>2 DEF VerbOK, With
<1>5. CASE v.name = "supersede"
  <2>1. /\ v.new \in Numbers /\ v.new # v.on
        /\ v.read.frozen /\ v.as = Retired(v.read, v.new)
        /\ reviews[v.new] = {Successor(v.read, v.on)}
        /\ Introduced(Found(reviews, anchors, closing),
                      Found(With(reviews, v.on, v.as), anchors, closing)) = {}
    BY <1>1, <1>2, <1>5 DEF VerbOK
  <2>2. Introduced(Sweep(reviews, anchors), Sweep(With(reviews, v.on, v.as), anchors)) = {}
    BY <2>1, SweepIsFound
  <2>3. Rests(With(reviews, v.on, v.as), closing)
    BY <1>3, <1>4, <2>1, <2>2, SupersedeIsClean
  <2> QED
    BY <1>1, <1>2, <1>4, <2>3, AtRest
<1>6. CASE v.name = "resolve"
  <2>1. /\ ~v.read.frozen /\ v.read.status \in {"open", "resolved"}
        /\ v.as = [v.read EXCEPT !.status = "resolved", !.frozen = Freezes(v.read)]
        /\ v.read.scope = "phase" => ErrorsOn(With(reviews, v.on, v.as), anchors, v.on) = {}
    BY <1>1, <1>2, <1>6 DEF VerbOK
  <2>2. /\ v.as.status = "resolved" /\ v.as.scope = v.read.scope
        /\ v.as.supersedes = v.read.supersedes /\ v.as.by = v.read.by
    BY <1>4, <2>1, ResolvedTyped
  <2>3. Linked(reviews, v.on, v.read)
    BY <1>3, <1>4 DEF Rests
  <2>4. v.read.by = {} /\ v.on \notin v.read.supersedes /\ v.read.supersedes \subseteq Numbers
    BY <1>4, <2>1, <2>3 DEF Linked, Artifacts
  <2>5. v.on \notin closing
    BY <1>3, <1>4, <2>1 DEF Rests, ClosesPhase
  <2>6. PhaseFrozen(v.as) => Settled(v.as) /\ \A m \in v.as.supersedes : \E s \in reviews[m] : v.on \in s.by
    <3> SUFFICES ASSUME PhaseFrozen(v.as)
                 PROVE  Settled(v.as) /\ \A m \in v.as.supersedes : \E s \in reviews[m] : v.on \in s.by
      OBVIOUS
    <3>1. ErrorsOn(With(reviews, v.on, v.as), anchors, v.on) = {}
      BY <2>1, <2>2 DEF PhaseFrozen
    <3>2. /\ With(reviews, v.on, v.as) \in Directories /\ With(reviews, v.on, v.as)[v.on] = {v.as}
          /\ \A m \in Numbers : m # v.on => With(reviews, v.on, v.as)[m] = reviews[m]
      BY <1>2, <1>4, WithOK
    <3>3. /\ Settled(v.as)
          /\ \A m \in v.as.supersedes : \E s \in With(reviews, v.on, v.as)[m] : v.on \in s.by
      BY <1>4, <3>1, <3>2, FoundNothing
    <3> QED
      BY <2>2, <2>4, <3>2, <3>3
  <2>7. Rests(With(reviews, v.on, v.as), closing)
    BY <1>3, <1>4, <2>2, <2>4, <2>5, <2>6, Replaced
  <2> QED
    BY <1>1, <1>2, <1>4, <2>7, AtRest
<1>7. v.name \in {"supersede", "resolve"}
  BY <1>2 DEF VerbOK
<1> QED
  BY <1>5, <1>6, <1>7

LEMMA UndoOK ==
  ASSUME RecordInv, UndoScaffold
  PROVE  RecordInv'
<1>1. PICK v \in verb : /\ v.pc = "undo" /\ verb' = {}
                        /\ reviews' = [reviews EXCEPT ![v.new] = {}]
                        /\ UNCHANGED <<anchors, closing>>
  BY DEF UndoScaffold
<1>2. /\ VerbOK(v) /\ verb = {v} /\ reviews \in Directories
      /\ anchors' \in [ReviewTasks -> {"task", "node", "retired"}]
  BY <1>1 DEF RecordInv, VerbOK
<1>3. Rests(reviews, closing)
  BY <1>1, <1>2 DEF RecordInv
<1>4. /\ v.new \in Numbers /\ v.new # v.on /\ v.on \in Numbers /\ v.read \in Artifacts
      /\ reviews[v.new] = {Successor(v.read, v.on)} /\ v.new \notin v.read.by
      /\ reviews[v.on] = {v.read}
  BY <1>1, <1>2 DEF VerbOK
<1>5. ~Successor(v.read, v.on).frozen /\ Successor(v.read, v.on).supersedes = {v.on}
  BY <1>4, SuccessorTyped
<1>6. \A k \in Numbers : \A t \in reviews[k] : v.new \notin t.by
  <2> SUFFICES ASSUME NEW k \in Numbers, NEW t \in reviews[k], v.new \in t.by PROVE FALSE
    OBVIOUS
  <2>1. Linked(reviews, k, t)
    BY <1>3 DEF Rests
  <2>2. k = v.on
    BY <1>4, <1>5, <2>1 DEF Linked
  <2> QED
    BY <1>4, <2>2
<1>7. Rests([reviews EXCEPT ![v.new] = {}], closing)
  BY <1>3, <1>4, <1>5, <1>6, Removed
<1> QED
  BY <1>1, <1>2, <1>7, AtRest

LEMMA KillOK ==
  ASSUME RecordInv, KillClerk, ~KilledInGate
  PROVE  RecordInv'
<1>1. PICK v \in verb : v.pc # "sweep"
  BY DEF KillClerk
<1>2. verb = {v} /\ anchors \in [ReviewTasks -> {"task", "node", "retired"}]
  BY <1>1 DEF RecordInv, VerbOK
<1>3. Rests(reviews, closing)
  BY <1>1, <1>2 DEF RecordInv
<1> QED
  BY <1>2, <1>3, AtRest DEF KillClerk

LEMMA StandsStill ==
  ASSUME RecordInv, UNCHANGED recordVars
  PROVE  RecordInv'
<1>1. reviews' = reviews /\ anchors' = anchors /\ closing' = closing /\ verb' = verb
  BY DEF recordVars
<1>2. reviews' \in Directories /\ anchors' \in [ReviewTasks -> {"task", "node", "retired"}]
  BY <1>1 DEF RecordInv
<1>3. (\A v \in verb' : v.pc # "sweep") => Rests(reviews', closing')
  BY <1>1 DEF RecordInv
<1>4. ASSUME NEW v \in verb'
      PROVE  VerbOK(v)' /\ (v.pc = "sweep" => Rests(With(reviews', v.on, v.read), closing'))
  <2>1. VerbOK(v) /\ (v.pc = "sweep" => Rests(With(reviews, v.on, v.read), closing))
    BY <1>1, <1>4 DEF RecordInv
  <2>2. VerbOK(v)'
    BY <1>1, <2>1, Zenon DEF VerbOK
  <2> QED
    BY <1>1, <2>1, <2>2
<1> QED
  BY <1>2, <1>3, <1>4, Zenon DEF RecordInv

LEMMA RecordInvariance ==
  ASSUME ~Overlap, ~KilledInGate
  PROVE  RecordSpec => []RecordInv
<1>1. ASSUME RecordInv, [RecordNext]_recordVars PROVE RecordInv'
  <2>1. ASSUME \/ \E scope \in {"phase", "node", "advisory"} : ScaffoldReview(scope)
               \/ \E n \in Numbers : \/ Rescaffold(n) \/ FillLanes(n) \/ RemoveOrphan(n)
                                     \/ \E c \in Contents : EditReview(n, c)
        PROVE  RecordInv'
    <3>1. verb = {} /\ verb' = {}
      BY <2>1 DEF ScaffoldReview, Rescaffold, FillLanes, RemoveOrphan, EditReview, Idle
    <3> QED
      BY <1>1, <2>1, <3>1, AuthorsOK
  <2>2. ASSUME \/ \E n \in Numbers : CompletePhase(n)
               \/ ConvertPlan
               \/ \E t \in ReviewTasks : RetireTask(t)
        PROVE  RecordInv'
    <3>1. verb = {} /\ verb' = {}
      BY <2>2 DEF CompletePhase, ConvertPlan, RetireTask, Idle
    <3> QED
      BY <1>1, <2>2, <3>1, PlanOK
  <2>3. ASSUME NEW n \in Numbers,
               BeginSupersede(n) \/ \E accepted \in BOOLEAN : BeginResolve(n, accepted)
        PROVE  RecordInv'
    BY <1>1, <2>3, BeginOK
  <2>4. WriteSuccessor => RecordInv'
    BY <1>1, SuccessorOK
  <2>5. PlaceCandidate => RecordInv'
    BY <1>1, CandidateOK
  <2>6. JudgeCandidate => RecordInv'
    BY <1>1, JudgementOK
  <2>7. WriteVerdict => RecordInv'
    BY <1>1, VerdictOK
  <2>8. UndoScaffold => RecordInv'
    BY <1>1, UndoOK
  <2>9. KillClerk => RecordInv'
    BY <1>1, KillOK
  <2>10. UNCHANGED recordVars => RecordInv'
    BY <1>1, StandsStill
  <2> QED
    BY <1>1, <2>1, <2>2, <2>3, <2>4, <2>5, <2>6, <2>7, <2>8, <2>9, <2>10 DEF RecordNext
<1> QED
  BY <1>1, RecordInitOK, PTL DEF RecordSpec

\* However the plan is completed, converted and amended around it, a frozen
\* phase review has no defect that only an edit could mend, provided clerks
\* take turns and none dies inside a gate: what `review resolve` checks before
\* it freezes (cmd/sdd/review.go) is stable, and `review supersede` refuses
\* what would break it.
THEOREM FrozenStaysSettled ==
  ASSUME ~Overlap, ~KilledInGate
  PROVE  RecordSpec => []FrozenIsSettled
<1>1. ASSUME RecordInv PROVE FrozenIsSettled
  <2> SUFFICES ASSUME verb = {}, NEW n \in Written, NEW r \in reviews[n],
                      r.scope = "phase", r.frozen, NEW e \in ErrorsOn(reviews, anchors, n)
               PROVE  e[1] = "SDD098"
    BY DEF FrozenIsSettled
  <2>1. /\ Rests(reviews, closing) /\ n \in Numbers
        /\ anchors \in [ReviewTasks -> {"task", "node", "retired"}]
    BY <1>1 DEF RecordInv, Written
  <2> QED
    BY <2>1, SettledIsFound DEF PhaseFrozen
<1> QED
  BY <1>1, RecordInvariance, PTL

\* Under the same proviso, a complete phase keeps a review that closes it, and
\* the two reviews of a succession know each other, except for a leftover that
\* never gated anything (cmd/sdd/review_supersede.go).
THEOREM SuccessionStands ==
  ASSUME ~Overlap, ~KilledInGate
  PROVE  RecordSpec => []SuccessionHolds
<1>1. ASSUME RecordInv PROVE SuccessionHolds
  <2> SUFFICES ASSUME verb = {} PROVE SuccessionHolds
    BY DEF SuccessionHolds
  <2>1. Rests(reviews, closing)
    BY <1>1 DEF RecordInv
  <2>2. \A n \in closing : \E r \in reviews[n] : ClosesPhase(r)
    BY <2>1 DEF Rests
  <2>3. ASSUME NEW n \in Written, NEW r \in reviews[n]
        PROVE  /\ \A m \in r.by : Says(reviews, m, "supersedes", n) /\ r.status = "superseded"
               /\ \A m \in r.supersedes : \/ Says(reviews, m, "by", n)
                                          \/ ~(r.frozen /\ r.scope = "phase")
    <3>1. Linked(reviews, n, r)
      BY <2>1 DEF Rests, Written
    <3> QED
      BY <3>1 DEF Linked, Says, PhaseFrozen
  <2> QED
    BY <2>2, <2>3 DEF SuccessionHolds
<1> QED
  BY <1>1, RecordInvariance, PTL

=============================================================================
