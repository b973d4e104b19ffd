# A formal model of the sdd plan graph

TLA+ modules, TLC configurations and TLAPS proofs for `sdd`, the Go program
under `cmd/sdd` and `internal/`: the store every artifact is written through,
the plan graph that several sessions compile, claim, observe, edit and review at
once, the documents the graph is shown in, the closing of a plan by evidence and
reviews, the decision ledger, and what the CLI does to the machine it runs on
(processes, hooks, binaries, rewritten commits).

Source paths below are relative to the repository.

## 1. The system

`sdd` is a command-line program. There is no server: every command is a process
of its own that reads files under the planning root, decides, and writes files.
Agents run commands in parallel, so all concurrency is between processes that
meet in the file system: in the plan's graph file, in the git worktrees of
claimed nodes, in the Markdown artifacts and in git itself.

A plan is compiled into a *graph* of nodes. A node has dependencies, a
write-set, a *gate* (tests, a command, or a review) and hazards that some tests
discharge. An agent *claims* a node whose dependencies are GREEN, gets a
workspace, works, and *syncs* a test report. The report becomes the node's
observation. A state (BLOCKED, READY, RED, GREEN, STALE) is never stored: it is
derived from structure and observations on every read. Older (v1) plans have no
graph: their tasks, phases and reviews are Markdown, and verbs that complete them
are gated by the validator's rules over those files and the git history.

### 1.1 Components

| component | state it keeps | operations | hard behaviour | what makes it correct |
|---|---|---|---|---|
| **artifact store** `internal/store` | one file, its `.lock` sidecar, temporary files | read (shared lock, or unguarded after a wait), write (exclusive lock, digest re-check, stage, rename) | writers interleave at each file-system call; a crash with the lock held or a staged file; lock timeouts; programs that ignore the lock | a write is never lost or applied twice; a report is true; the whole is one atomic object; every command returns |
| **graph file store** `internal/graph/store` | none of its own | Load, Update (read, fn, compare-and-swap, retry 16 times), Init | the retry loop re-applies `fn`; Init is unconditional | as above, per update |
| **node states** `internal/graph/states`, `algorithms` | none: pure | Derive, Frontier, ReviewScope, Closed | cycles, dangling dependencies, legacy observations, scopes that depend on states of inner reviews | a changed contract takes GREEN from every review above it |
| **claims** `internal/graph/claims` | `node.claim` (by, instance, lease) in the graph | claim next, claim a node, renew, release, expire | selection on one read and confirmation on another; allocation after the recorded claim, with rollback; lease expiry racing everything | one claimant per node; disjoint write-sets; capacity; no running claim ended by others |
| **workspace provider** `internal/graph/provider` | worktrees `ws-<node>`; or one shared tree | Allocate, Release, IdleWorkspace, Isolation, Detect | the directory's name does not say which claim it is for | who holds a claim has the worktree made for it |
| **sync, reverify** `internal/graph/sync` | observations, `red_seqs`, `seq_counter` in the graph | sync one node; reverify all unclaimed ones with one report | evaluation takes minutes, outside the store's lock; the contract, the claim or the workspace may change before publication | an observation vouches for the contract as it is; a pass has had its reds |
| **graph operations** `internal/graph/ops` | contracts (tests, write-sets, revisions), retired ids | set-tests, set-artifacts, edit-artifacts, split, retire, gc, repair-attestations, remap, amend | edits race syncs; gc reads claims and lists directories separately; split rewires reviews | a revision invalidates what was observed before it; a split leaves a graph that compiles |
| **graph review and amendments** `internal/graph/review`, `ops/amend.go` | review observations (a reviewed set), the record of amendments | Check, AdmitArtifact, Record, AmendFromReview | a review judges a set of contracts that moves underneath it; a preview is applied later, under two digests; reviews nest, and older ones have no reviewed set | what is closed was reviewed as it is; a report is evidence once; an amendment stales its review and undoes nobody's work |
| **compiler, proposals, conversion** `internal/graph/{compile,proposal,convert}` | staged fragments, the assembled proposal, nodes | propose, assemble, compile, convert | semantic checks on one read, a narrower re-check in the update; payloads are removed after they landed, and a session may die in between | the graph stays one compile accepts; no staged work is lost |
| **rendering and completion** `internal/graph/compile/render*.go`, `cmd/sdd/graph_complete.go` | generated phase documents, the README's regions, `completed_at`, plan status | rerender, phase complete, plan complete | closure judged on one read and written by another command; a view that was frozen is rendered again | what is shown as closed was closed; history is not rewritten |
| **revision lineage** `internal/hook/postrewrite.go`, `ops/remap.go` | captured rewrites, `revision_lineage` in the graph | capture, remap | two remaps judged on the rows each read | rows are only added and stay chains |
| **decision ledger** `internal/decisions` | a file of decisions per plan, in every git tree | add, supersede, sync from a design, merge | two plans supersede one decision; an append re-judged after a lost write; merges | every record stays; a fork is reported and can be settled |
| **citation index** `internal/rules/graphapi.go` | none | register a definer, resolve | sources met in any order | the order does not matter |
| **v1 closing** `cmd/sdd/{transition,evidence,review}.go`, `internal/rules/{evidence,phasereview,lifecycle}.go` | front matter, evidence sections, reviews, git histories | activate, record evidence, scaffold and resolve a review, complete a task, phase, plan | the gate writes its candidate into the tree it judges and may die there; checks that need a commit are deferred past it | what validates was reviewed; the documented order closes a plan |
| **review artifacts** `cmd/sdd/{review,review_supersede}.go`, `internal/rules/reviews.go` | the files of `reviews/` | scaffold, edit, resolve, supersede, convert | two files written in turn; a frozen file is history for good | a frozen review stays settled; succession is one line |
| **process execution** `internal/procexec` | a child, its process group or job, bounded buffers | run with a deadline | cancellation racing exit; output readers; recycled process ids | the report is what happened; nothing owned survives; the call returns |
| **version control** `internal/vcs` | a snapshot cache | probes of git and p4 | a cached probe that is stale | a snapshot is of the tree it names |
| **hooks** `internal/hook` | none | answer an editor's event, capture a rewrite | | a refusal is never lost |
| **provisioning** `internal/provision` | the plugin's copy of the binary, hooks.json, the post-rewrite hook and its backup | choose, stage, rename; install a dispatcher beside a user's hook | two installers and a user at the same two paths; one `.tmp` name for all provisioners | no user hook is lost; an install can resume; an admitted copy stays |
| **plan compiler v1** `internal/compile`, `cmd/sdd/{apply,section,migrate,transition}.go`, `internal/rules/appendonly.go` | one artifact, as HEAD, the index and the working tree have it | apply, supersede, create, section set, migrate, lifecycle verbs | what was judged frozen, retired or expected is another version by the write; the rule that looks at HEAD knows no flags | an assigned number is new; an edit continues what it replaces; a number that vanished was given up |
| **artifact rules, schema, test evidence** | none: pure | validate, parse | breadth, not interleaving | each rule says what its text says |
| **commands, packaging, plugin content** | none | parse flags, print; templates, prompts | none | |

### 1.2 How they meet

```
 commands (cmd/sdd) ── claim ──> claims ──┐             ┌── provider: worktrees
                    ── sync ───> sync ────┤  Update     │
                    ── gc ─────> ops ─────┼─> graph ────┤
                    ── review ─> review ──┤   store     └── ArtifactStore: lock,
                    ── compile ─> compile ┘                 digest, stage, rename
                          └──> rendered documents <── phase/plan complete

 v1 verbs ──> candidate in place ──> rules over files and git ──> keep or put back
 decide   ──> one plan's ledger, judged on the index over all of them
 hooks    ──> rewrite log ──> remap ──> revision_lineage in the graph
```

Every change of the graph is a `gstore.Update(fn)`: `fn` runs on a fresh read
and its result is written if the file still has the digest that was read. So one
Update is atomic (section 3.1; proved) and the hazards are *between* updates:
what a command read before its Update, what it does to a workspace after it, and
what `fn` leaves behind when it is run again. The verbs of v1 plans take no lock
at all, and what protects them is the order in which they write.

## 2. Modules

| module | of | extends | checked by | proofs in |
|---|---|---|---|---|
| `AtomicStore`, `ArtifactStore` | the store, and what callers may rely on | | `store` | `ArtifactStore_proofs` |
| `Identifiers` | v1 artifacts, the numbers of their items, their writers | | `store` | `ArtifactStore_proofs` |
| `GraphStates` | derivation of states, scopes, closure | | through the next three | `GraphStates_proofs` |
| `GraphContracts` | what a change of a gate does to a node | `GraphStates` | | |
| `GraphWalk` | claims, workspaces, sync, reverify, contract edits, gc | `GraphContracts` | `walk_*` | `GraphWalk_proofs` |
| `GraphReview` | review gates and amendments | `GraphContracts` | `review` | `GraphReview_proofs` |
| `GraphRules` | what compile refuses | `GraphContracts` | | |
| `GraphPlan` | proposals, compile, split, retire, gc of payloads | `GraphRules` | `plan` | `GraphPlan_proofs` |
| `GraphViews` | rendered documents and completion | | `views` | `GraphViews_proofs` |
| `RevisionLineage`, `DecisionLedger`, `Citations` | rewritten commits; decisions; which source an identifier means | | `parts` | `Parts_proofs` |
| `HookInstall`, `Provision`, `ProcExec` | the host machine | | `parts` | `Parts_proofs` |
| `CloseRules`, `PhaseClose` | the validator's rules on a v1 plan; the verbs that close it | | `close*` | `Close_proofs` |
| `ReviewRecord` | the life of review artifacts | | `close` | `Close_proofs` |

`MCGraphWalk`, `MCGraphReview`, … hold the instances. `MCParts` runs six modules
that share no state one at a time, `MCPhaseClose` and `MCArtifactStore` two.

## 3. What is modelled

### 3.1 The store: `ArtifactStore`, `AtomicStore`

`ArtifactStore` has one file, and sessions that run reads, updates and inits at
the granularity of the file-system calls:

| action | code |
|---|---|
| `Begin`, `StatFile` | the command; `Init`'s bare `os.Stat` |
| `AcquireShared`, `ReadUnguarded`, `ReadFile` | `acquireShared` (gives up after 2 s and reads unguarded), `Read` |
| `FnRefuses` | `fn` returns an error |
| `AcquireExclusive`, `LockTimeout` | `acquireExclusive` (10 s) |
| `CheckDigest`, `Collide` | the digest re-check and the retry loop of `updateWith` |
| `Stage`, `StageFails`, `Rename`, `RenameFails`, `RenameTransient`, `Recheck` | `writeAtomicCheckedWith` and `replaceFile`; the last two are the Windows retry |
| `Unlock`, `Crash`, `EditorWrites` | release; death of the process; a program outside sdd |

A content is the sequence of the operations it carries, so "lost" and "doubled"
are visible; digests are taken as collision free. `AtomicStore` says what
callers may rely on: an update takes effect at one instant on the content of that
instant, a read returns a content the file really had, an error changed nothing.
`ImplementsAtomicStore` maps the implementation to it: the effect is the rename.

### 3.2 States: `GraphStates`

`Derive`, `Frontier`, `ReviewScope` and `Closed`, as operators over a graph. The
worklists of the code (`TopoSort`, `DependencyClosure`, the fixpoint of
`Closed`) are the least sets closed under what the loop adds (`Least`). `Derive`
is a recursive function over the topologically ordered nodes, as the loop is.

### 3.3 The walk: `GraphWalk`

Variables: the graph file (`node`: contracts and observations; `claim`; `seq`),
`lapsed` (claims whose lease has run out: time), `dir` (the worktree at each
node's path, and which claim made it), and per session `pc` and `job` (what the
command has read and not yet used). `told`, `dead`, `judged`, `failed` are history.

| actions | code |
|---|---|
| `ClaimBegin`, `ClaimAgain`, `ClaimRefused` | `claims.claim`: load, select, draw an instance |
| `Confirm`, `ConfirmInvalid`, `ConfirmWrite`, `ConfirmCollides` | the confirming update. It is split in two because its `fn` sets a flag outside of itself (`raced`), which survives a collision |
| `Allocate`, `AllocateFails`, `Rollback` | `provider.Allocate`, and the update that undoes the claim |
| `Release`, `CheckIdle`, `Teardown` | `sdd graph release`: the claim first, then the workspace |
| `Sync`, `Publish`, `PublishRefused` | `sync.Run`: evaluation on one read; the fences and the observation in the update; merge or renewal; tear-down after a merge |
| `ReverifyBegin`, `ReverifyNode`, `ReverifyEnd` | the batch: nodes unclaimed when it began, dependencies first |
| `SetTests`, `SetArtifacts` | edits of a contract, with `carryOverRedSeqs` |
| `GCExpire`, `GCLoad`, `GCList`, `GCReap`, `GCEnd` | `gc`: expire, collect active workspaces, list directories, remove |
| `LeaseLapses`, `WorkerWorks`, `Crash` | time; the agent in a worktree; death of a process |

Abstractions. The code claims the heaviest candidate; the model any candidate,
so every order of weights is covered. A test is an id with its proof and whether
it discharges a hazard; a report says pass or fail for test ids. A command gate
takes the path of a one-test gate. `SetTests` allows an edit that only reorders,
as the code does. `lapsed` may grow at any moment: no clock is assumed. A
worktree's content is none, dirty or committed. Branches and merge provenance are
left out, as are the reading commands, which change nothing. The commands that
write are named after their handlers in `cmd/sdd/graph.go` (`SyncCommand`,
`ReleaseStep`; in `GraphPlan` `CompileCommand`, in `GraphReview` `AmendStep`): what a
handler adds to its operation is flags, files to read and words to print.

### 3.4 Reviews and amendments: `GraphReview`

Variables: the graph file (`node`, with dependencies and gates that amendments
change; `claim`; `seq`; `amended`, the reports applied), `file` (what each review
artifact says), and `pc` and `job` per session. `judged` (what the latest recorded
review of a gate evaluated) and `failed` are history.

| actions | code |
|---|---|
| `RecordLoad`, `RecordPublish`, `RecordRefused` | `review.Record` of an Aligned report: evaluation on one read; `RecordFenced` and the observation in the update |
| `PreviewLoad`, `PreviewDigest` | `review.Record` of an Amend report: the plan on one read, the printed digest from another |
| `AmendDryRun` | `amend --dry-run`: plan and digest from one read |
| `AmendEvaluate`, `AmendRecheck`, `AmendWrite`, `AmendEnds` | `AmendFromReview`: evaluation under both digests, the second look at the report, the write that is not retried, the refusals |
| `Sync`, `SetTests`, `Claim`, `Release` | the commands that move nodes below a gate |
| `Resolve` | a reviewer freezes a report, or reopens one to say something else |

`Admitted` is AdmitArtifact, `Plannable` PlanAmendmentsInScope, `Amended`
applyAmendments, `Compiles` the part of `Validate` about structure.

Abstractions. A report's digest is what it says. A report is one of a few changes:
none (Aligned), revises of contract or tests, new nodes. The four lanes are all
there or not. Sync, set-tests, claim and release take one step: `GraphWalk` has
their inner steps, and its fences are why the last one stands for the whole. The
second read of a report and the publication of a record are one step too: both
are in the function that the update retries. A session that previews keeps both
digests until it applies or drops them. A plan may start as an earlier binary left
it, with passing reviews that have no reviewed set (`Earlier`): the only way to get
one, as `Record` always writes it.

### 3.5 Compiling a plan: `GraphRules`, `GraphPlan`

`GraphRules` is what the compiler refuses (`Findings`, `Validate`): gates, hazards,
roles, citations through `IdentifierSources`, dangling dependencies, cycles,
uncovered acceptance criteria, overlapping claims, nodes without a full review,
identifiers used twice or retired, and the provenance of retired ids.

`GraphPlan` has the graph file, the workspace of staged fragments with its
high-water mark and assembled proposal, and per session the command in progress.

| actions | code |
|---|---|
| `Propose`, `ReserveRead`, `ReserveWrite`, `Park` | `propose`: the fragment's id is reserved by a compare-and-swap of the mark, then the file is written |
| `Assemble`, `AssembleMerge`, `AssembleWrite`, `AssembleConsume` | `assemble`: list, merge, write the set, remove the fragments one by one |
| `CompileLoad`, `Compile`, `CompileAppend`, `CompileConsume` | `compile.Run`: judged on one read, appended by an update that only looks at ids, payload removed afterwards |
| `Split`, `Retire`, `RetireWithSource` | the whole gate inside one update |
| `GC`, `GCRead`, `GCRemove` | the payloads that gc takes away once they landed |
| `Observe`, `Killed` | a sync or a recorded review elsewhere; death between two steps |

Operators are assumed not to overlap the commands in `Conflicts`, which the CLI
neither forbids nor survives: compile with split or retire (`CompiledGraphIsClean` needs
that), and assemble with itself, compile or gc (`StagedWorkNotLost` does). Conversion of a
v1 plan is left out.

### 3.6 What a plan looks like: `GraphViews`

The graph as a sequence of nodes with their closure, the phase documents, the
README and the frozen reviews. Commands render in steps: `Preflight` reads every
document, `Judge` and `WriteView` handle one document each (`PlanWrite` decides
write, keep or refuse), `UpdateReadme` and `CommitReadme` the README.
`Compile`/`CompileAppend`, `Rerender` (set-artifacts), `PhaseComplete`,
`PlanComplete`/`RecordCompletedAt` and `ExpectReadme`/`FlipStatus` lead into and out
of it. `Claim`, `Observe`, `Close`, `Reopen`, `Review`, `EditReadme`, `EditDocument` are
everybody else. Closure itself is `GraphReview`'s subject; here a node keeps it.
Dates are left out: every comparison in the code is made with the dates of the
file it compares with.

### 3.7 Records: `RevisionLineage`, `DecisionLedger`, `Citations`

`RevisionLineage`: the capture of rewritten commits (`CapturePostRewrite`) and
`remap-revisions` (`Preview`, `Evaluate`, `WriteFinal`: the policy judged on one
read, the digest re-checked at the write) while nodes are observed and git prunes.

`DecisionLedger`: `StartAdd`, `StartSync`, `BeginAttempt`, `Judge`, `Write`, `Reload`
are `decide add` and the sync of a design's decisions; the index over all plans is
read before, only the plan's own file is fenced; `MergeTree` merges two git trees,
both sides' entries once. Left out: the give-up after 16 attempts, malformed
files; the plan-by-plan reading of the index is one moment. `Revivals = FALSE`: an
old statement is not recorded again as a successor.

`Citations`: `Register` adds the definers of one identifier to the index in any
order, as Go's maps do.

### 3.8 The host: `HookInstall`, `Provision`, `ProcExec`

`HookInstall`: `doctor --fix` installs a dispatcher where a user's hook may be, through
a backup link and renames, several installers, a user who edits both paths, a death at
every call. Left out: Windows' replaceHookFile and the `--check` flag.

`Provision`: the choice of a binary, its copy through `bin/sdd.tmp` and a rename,
hooks.json, upgrades of the plugin and of the binary on PATH (which only go up).

`ProcExec`: one contained command on each adapter (POSIX with and without a zombie,
Windows job): start, the leader's exit, its descendants, the deadline, the caller,
the bounded output, the sweep of the group, recycled ids. The copier keeps up, the
watcher's signal is allowed. `LateCancel` is the window in which `cmd.Cancel` signals
the group after the leader was reaped: real, and a constant here.

### 3.9 Closing a v1 plan: `CloseRules`, `PhaseClose`

`CloseRules` is what the validator reports of one plan with one phase: completion
evidence, task identities, the final review with its frozen range and what may have
happened since, durability in the planning commit, and `Pending`, the checks a
transition defers. `PhaseClose` has git (commit, amend, checkout, merge), authors,
the evidence and review verbs (one step each) and the gate: `GateBegin` reads,
sweeps and writes the candidate in place, `GateEnd` sweeps again and keeps it or puts
the original back, `Crash` leaves it. Left out: more than one phase, waivers,
Perforce, operands of separate task reviews; histories do not move during a gate.

### 3.10 The life of a review: `ReviewRecord`

The files of `reviews/`: scaffold, edit, lanes, resolve and supersede with the gate
both share (`PlaceCandidate`, `JudgeCandidate`, `WriteVerdict`, `UndoScaffold`), the
phase that rests on one, the conversion of the plan and the retirement of nodes.
Left out: waivers, citations of frozen reviews, one identifier in several plans, hand
edits of `supersedes` and `status`. Clerks do not overlap and do not die between the
two writes of a gate (`Overlap`, `KilledInGate`): the commands take no lock.

### 3.11 v1 artifacts and their identifiers: `Identifiers`

An artifact is its status, the gaps it has against its schema, the numbers its prose
cites, and one section of items, each a number and the form of its line (plain, struck,
only the identifier struck, fenced; 0 is a line that has no number yet). Variables: the
artifact in the working tree (`doc`), staged (`index`) and committed (`head`); per session
the version whose digest it may expect (`seen`) and its command (`cmd`). `givenUp` and
`compiled` are history.

| actions | code |
|---|---|
| `Apply`, `Compiles` | `sdd apply` with `--supersede`, `--create`, `--retire`, `--expect`; `compile.Compile` with the passes it makes: gaps, tool-owned fields, identifiers, citations |
| `Numbered`, `Assigned`, `Takes` | numbers of lines without one: those a rewrite carries over, then counted on |
| `KnownOrNext`, `Accounted` | SPK030 and SPK031 |
| `Migrate`, `WriteSwept` | `sdd migrate`; `--all` writes without comparing |
| `SectionSet`, `WriteExpecting` | `sdd section set`; the write that compares with what the command read |
| `Transition`, `ReadOriginal`, `PlaceCandidate`, `JudgeCandidate`, `WriteStatus` | a lifecycle verb: candidate in place, rules, original back, status written |
| `StageDoc`, `Commit`, `Die` | git add, git commit, death of a process |

`Removed` is what SDD154 reports of a baseline and a version. Each write is one step, by
3.1. Left out: several sections and namespaces, declarations by heading and the loose
forms that only Designs have, checkboxes, the refusal of a number written twice, and which
wording changed. That makes the compiler accept more than it does, never less.

### 3.12 What is not modelled

Listed with reasons in `PROJECT.json` under `components`. Purely textual parts (the
shape of each artifact, rendering of wording, templates, prompts) have neither shared state nor interleaving: a model of them would be their
transcription. Perforce and the snapshot cache of `internal/vcs`, the input digests,
the parsing of test reports, and the guards that answer an editor are out for the same
reason.

## 4. What the runs check

Passing runs:

| run | instance | properties |
|---|---|---|
| `store` | two sessions, three commands each, one crash, two update attempts; and one v1 artifact under two commands (`MCArtifactStore`) | `ReportsMatchFile`, `NoLostWrite`, `ImplementsAtomicStore`, `CommandsReturn`, `FindingsAreExplained`, `EditsContinueTheDocument` |
| `walk_git` | two sessions, two independent nodes that share a path, worktrees, capacity 2, one crash; claim, sync, release, gc | `ClaimedPathsDisjoint`, `LiveClaimsKept`, `PublishesUnderItsClaim` |
| `walk_contract` | two sessions, a node and its dependant, shared tree; sync, reverify, set-tests, set-artifacts, three observations | `ObservationsMatchContract`, `RedBeforeGreen` |
| `walk_live` | two sessions, two nodes, one worktree; claim, sync, reverify | `ClaimantHasWorktree`, `CommandsEnd` |
| `review` | two sessions, a node, a full review of it and a review of that, compiled or as an earlier binary left them, one artifact; one session records, previews, amends, the other records, syncs, sets tests, claims, releases | `ClosedAsReviewed`, `EvidenceOnce`, `ContractChangeStales`, `AmendmentStalesItsReview`, `ClaimedContractsKept` |
| `plan` | two sessions, two proposals with a review each, a node that may be split, a retirement, one death | `CompiledGraphIsClean`, `StagedWorkNotLost`, `ReviewsCoverWhatTheySaw` |
| `views` | one session that compiles, rerenders and completes, everybody else in between, one mishap | `FrozenMeansClosed`, `FrozenViewsKept`, `CompletedPlanIsRendered` |
| `parts` | six modules, one at a time (`MCParts`) | `UserHookSurvives`, `InstallCanResume`, `CopyStaysAdmitted`, `ReportIsTrue`, `NothingOwnedSurvives`, `EveryCallReturns`, `LineageAppendOnly`, `ForksAreReported`, `ConflictsCanBeSettled`, `RecordsKept`, `OneDefinerWins` |
| `close` | the documented workflow with up to two deviations; and the life of up to three reviews (`MCPhaseClose`) | `ValidMeansReviewed`, `GateMeansReviewed`, `WorkflowCloses`, `FrozenIsSettled`, `SuccessionHolds` |

What the properties say:

- `NoLostWrite`: a step never removes or reorders an operation already in the file.
- `ReportsMatchFile`: an update that reported success is in the file, one that
  reported an error is not, whatever failed.
- `FindingsAreExplained`: each number that the append-only rule finds missing, from the
  working tree or the index, was reported as retired by a command or put in another form
  by its author, as long as the items changed by compiles of what they replaced. With
  `section set` and restored originals in between, the rule may name a number that nobody
  gave up; it cannot know better, and neither does the property.
- `EditsContinueTheDocument`: an edit that lands keeps the status the artifact has at that
  instant, rewrites nothing complete, brings no retired number back, and with `--expect`
  replaces the version its caller saw, whatever verbs and sweeps wrote since it compiled.
- `ClaimedPathsDisjoint`: claimed nodes write no common path, as far as claiming goes:
  `set-artifacts`, which does not look at other claims, is not run with it.
- `LiveClaimsKept`: a claim whose lease runs is ended by its holder only.
- `PublishesUnderItsClaim`: a report evaluated under a claim is published under
  that claim or not at all (each session under a name of its own).
- `ClaimantHasWorktree`: who was told of a claim that stands has the worktree made
  for it. Checked without gc, release and crashes: gc breaks it (section 6).
- `ObservationsMatchContract`: an observation of the current revision was
  evaluated against the tests and write-set the node has now.
- `RedBeforeGreen`: a node passes only after the very tests that discharge its
  hazards, as now declared, were seen to fail on it.
- `ClosedAsReviewed`: of every closed node there is a review that evaluated the
  contract and tests it has now, recorded after its latest observation.
- `ContractChangeStales`: a change of what an observed node owes takes GREEN from
  every review above it, nested ones and those without a reviewed set included.
- `AmendmentStalesItsReview`: an amendment takes GREEN from the gate it comes from,
  also when it only adds a node.
- `EvidenceOnce`: no two observations are of one report. It says nothing of a
  report that another has replaced: that one is admitted again.
- `ClaimedContractsKept`: an amendment does not revise a node claimed by another,
  though claims were read when it was planned.
- `CompiledGraphIsClean`: what compile and split accept, with what the others made of
  the graph meanwhile, is a graph that compile accepts, in which an id names one node
  and a retired id none.
- `StagedWorkNotLost`: what propose accepted is in a fragment, the proposal or the
  graph, whoever died assembling, compiling or collecting it.
- `ReviewsCoverWhatTheySaw`: no review is GREEN over a node it was not over when it
  was recorded, whatever a split made of its scope.
- `FrozenMeansClosed`: every node a frozen view shows was closed by the observation shown.
- `FrozenViewsKept`: no command thaws a frozen view or rewrites its evidence.
- `CompletedPlanIsRendered`: the README says complete only over views that all do.
- `UserHookSurvives`, `InstallCanResume`: no user hook is lost, and whatever an installer
  left behind, the next one can finish.
- `CopyStaysAdmitted`: a copy that the plugin's floor admits is not replaced by less.
- `ReportIsTrue`, `NothingOwnedSurvives`, `EveryCallReturns`: of one contained command.
- `LineageAppendOnly`: rows are added, never dropped or rebound, and stay chains.
- `RecordsKept`, `ForksAreReported`, `ConflictsCanBeSettled`: of the decision ledgers.
- `OneDefinerWins`: what an identifier stands for does not depend on the order.
- `ValidMeansReviewed`: a root that validates with a complete phase was reviewed: one
  frozen aligned review covers every task, the sources are its endpoint's, the intents
  what it read, and all of that is committed.
- `GateMeansReviewed`: a phase only completes over reviewed tasks and intents.
- `WorkflowCloses`: the documented order, undisturbed, ends with a complete valid plan.
- `FrozenIsSettled`: a frozen phase review has no defect only an edit could mend,
  whatever becomes of the plan (one code excepted, section 6).
- `SuccessionHolds`: a superseded review and its successor know each other.

Runs that show a disagreement between the code and what its comments say:

| run | property | what happens |
|---|---|---|
| `walk_race` | `EveryClaimHasClaimant` | `raced` is set by a first invocation of `fn`, the write collides, the second invocation records the claim, and the command goes on as if it had recorded nothing |
| `close_unreviewed` | `CompletionMeansReviewed` | the gate's own candidate makes the worktree dirty, the rule stops there, the finding is deferred, and a phase completes over sources committed after its review |
| `ledger_stale` | `EarlierSuccessorsAreSeen` | a sync's index has no root to be derived from again: a decision superseded elsewhere since is superseded a second time |

### Bounds, and why they are enough

Two sessions suffice for every race of the walk: each is between one session that
has read and one that writes. A third adds a queue at the same update, which the
store run has. Two nodes give a dependency, or a shared path, or a competition for
the last workspace. `ClaimAttempts` and `UpdateAttempts` are 1 or 2 instead of 8
and 16: what matters is that a retry happens and that the limit is reached.
`MaxSeq` bounds observations: two let a node be observed before and after an edit,
three let a node, its dependant and the node again be observed. `MaxRev = 2` lets a
contract change once after an observation, which is what separates "same revision"
from "edited meanwhile". `MaxClaims` bounds the claims a session draws: 1, or 2 where
it must claim again. At a bound an action is refused (`Publish` at `MaxSeq` takes the
refusal) and never distorted. `Commands` selects what a run's sessions do; each
hazard's commands are together in one run. What the bounds cut off, the proofs of
section 5 cover for all values.

The review run has one artifact, which is rewritten to one other Aligned report:
that gives a report that changes under a record, a report that two sessions admit,
and a second review of a gate. Its six reports are two Aligned ones, a change of
tests, a change of an inner review's contract, a new node, and a new node on a
dependency that does not exist. `MaxSeq = 7` leaves three observations or amendments
of a compiled plan, and four of one that is fully observed; one change each is
followed by a re-observation and a re-review. `Commands` gives amendments to one
session and edits to the other: two amendments meet at `AmendWrite`, which compares
with what was read, as any edit does.

`plan`: two fragments (`MaxFragment`) are what assembling needs, one death reaches every
step, two observations are a node and its review. `views`: three events
(`MaxEvents`) among observations, reviews and mishaps; one session, because commands
that render are taken not to overlap. `close`: `MaxDeviations = 2` puts two arbitrary steps
anywhere into the workflow of eighteen; five commits are the workflow's and two more.
`MaxNumber = 3` with `MaxOpen = 1` gives a review, its successor and the successor's.
`parts`: three user acts and one death for two installers; two racing remaps over three
revisions; two commands and one merge on two plans in two trees.

`store`, the artifact: `MaxCommands = 2`, because every race is between one command that
has compiled and one that writes; six payloads restate, append, strike in both ways, hide
in a fence, assert the status, cite, and lack what the schema requires; `MaxNum = 4` is
two numbers more than a payload has, so that assigning never meets the bound alone.

Deadlock is not checked: when the bounds are used up every session is idle, which
is where the program ends.

### Fairness

`ArtifactStore!Fairness` and `GraphWalk!FairSpec` assume that a process which has
begun a command keeps being scheduled: weak fairness of its next step. Nothing is
assumed of how often commands begin, of leases, of workers, of crashes, or of
which of several outcomes occurs. `CommandsReturn` and `CommandsEnd` therefore rest on
what the code does: waits end by timeout, retries are counted. `ProcFairness` lets
the runner, the deadline and the kernel's delivery go on, and nothing of the command
or its descendants. `MCPhaseClose` has weak fairness of the workflow's next step and
of a gate's end: whoever follows the workflow goes on with it.

## 5. What is proved

With TLAPS, for every value of the constants that the modules' ASSUMEs admit: any
number of sessions, any plan, any bounds, so also where the bounds of section 4 cut a
run off. Where a theorem needs more than that, it is stated `ASSUME .. PROVE`, and the
assumption is named below with what it means for the program. `PROJECT.json` lists the
theorems under `theorems`; everything else in the proof modules is a lemma they rest on.

### 5.1 The store: `ArtifactStore_proofs`

`TypeCorrect` holds with editors and any number of initialisers. `NoWriteIsLost`,
`ReportsAreTrue` and `StoreIsAtomic` hold under `Cooperative`: every writer asks for the
lock and at most one session initialises. Both conditions are needed (section 6). The
inductive invariant adds to the types: a writer past the lock is alone
(`LockDiscipline`), a command is at a step its kind reaches (`KindAtStep`), past the
check the content is still the one the write was derived from (`FreshBase`), and the
file carries the operations of exactly those who have renamed (`HistoryMatches`).
`FreshBase` is the heart: it makes the rename an append. `StoreIsAtomic` is the
refinement, one step per action, each mapped to a step of `AtomicStore` or to a stutter.

Of `Identifiers`, for any payloads, verbs, sessions and bounds: `AssignedNumbersAreNew`
(stated as `AssignedIdsAreNew`, which no run checks), `EditsContinue` and
`RemovalsAreExplained`. A number is assigned by counting the lines that have none, so the
first rests on lemmas about that: what is counted on from bounds every live, retired or
declared number (`NextFreeBounds`), counting up to two lines gives two results
(`CountsDiffer`), and a free number goes to one line (`AssignedApart`). The second
needs what a pending command knows of the artifact it read (`Sound`, `Continues`), which the
comparison at the write makes a fact about the artifact it replaces. The third adds
`Explained`: what `head` defines and `index` or `doc` lacks, and what `index` defines and
`doc` lacks, was given up. The middle term is needed: a commit makes the index the baseline.

### 5.2 Derived states: `GraphStates_proofs`

Lemmas only. The recursions of the code are least fixpoints here, so what a proof needs
of them is not their value but that they are closed and least: `Least` is in every set
closed under the step, the closure of a node is closed under dependencies and monotone,
the topological order lists every node after its dependencies exactly when there is no
cycle, and `Derive` satisfies its own equation at every node of an acyclic graph. From
that equation: what GREEN means of a node (`GreenMeans`), that a GREEN review answers for
every node of its scope as it now is (`GreenReviewCovers`), that what a review leaves out of
its scope is covered by a current full review below it (`ScopeOrCovered`), and that a node
which is not GREEN takes GREEN from every review that has it below, however deep reviews
nest (`OutdatedNotGreen`).

### 5.3 The walk: `GraphWalk_proofs`

`TypeCorrect`, `CapacityKept`, `ObservationsAreOfTheContract`, `RedComesFirst`,
`ClaimsAreWorkable` without further assumptions; `LiveClaimIsKept` where workspaces are
isolated and no release is forced; `StaleClaimCannotSync` where workspaces are isolated and
no two sessions have one name (`OwnName`: publication compares the name, so two sessions of
one name pass for each other); `ClaimsArePathDisjoint` for behaviours in which nobody edits
the write-set of a claimed node, which is what set-artifacts may do.

The inductive invariant has three parts. `Base`: types, what a session's data is at each
step (`JobAtStep`) and `WithinCapacity`. `Vouched`: nothing is observed at a revision
to come, a pass under evaluation has its reds unless the contract has moved on
(`EvaluationsCurrent`), and a recorded red is one of the very test now declared
(`RedsAreProofs`). `EvaluationsCurrent` carries the evaluation over the interval in which
others edit; the fence of `Publish` turns "unless the contract has moved on" into a
refusal. `Held`: a claim about to be written has been judged against the graph it will be
written over, or the write collides (`WriteJudged`), and what is evaluated under a claim
belongs to its holder, who draws no other instance of it meanwhile (`EvaluatedUnder`).

### 5.4 Reviews and amendments: `GraphReview_proofs`

For any plan, reports, sessions and bounds. `TypeCorrect` (no dependency ever dangles),
`EvidenceSuppliedOnce`, `RedComesFirst`, from an invariant that is stated node by node
(`NodeSafe`) and adds `AmendmentsPlanned`: the graph an amendment was evaluated on stays the
one in its `job`, so that the amended graph compiles when the write finds the file unchanged.

`ContractChangesStale`, `ClosedIsReviewed`, `AmendmentsStaleTheirReview` and
`ClaimsAreRespected` rest on `Evidence`, also an invariant of the run:

- `Ordered`: every observation has a number of its own, a review binds no revision to come
  and evaluates only what is below it;
- `BoundIsVouched`: a node a review binds at its present revision, and that was observed
  before the review, was evaluated as it is by that review or by one below it;
- `LegacyReviewsCover`: what was observed before a review without a reviewed set is below it.

and on `AmendmentsDue`: an amendment past its evaluation is of open findings, on contracts
that nobody else had claimed in the graph it was read from. `ContractChangesStale` needs
nothing else, reviews of earlier binaries included: what it shows is that neither a cycle
of re-reviews nor nesting leaves a GREEN review above a changed contract. `ClosedIsReviewed`
assumes `LegacyIsWhole`: no review of an earlier binary left aside work that was done before
it. Without it the statement is false (section 6). `EarlierAssumption` says what an earlier
binary can have left: observations of a graph that compiled, each after its dependencies'.

### 5.5 Closing: `Close_proofs`

`ValidRootWasReviewed` and `CompletesOnReviewedWork`, whatever is committed, amended, reset,
merged, edited, recorded and killed in whatever order. The invariant: histories are histories
(`History`: the ancestors of a commit are itself and those of its parents; `SourcesFollow`: a
commit that does not touch the sources has its parent's), documents keep their types, and a
phase's gate finds nothing before its candidate of what only a complete phase can be found to
lack (`GateStands`). The last part is what separates the property that holds from the one that
`close_unreviewed` refutes: the comparison of findings before and after hides nothing by itself;
only the deferral of checks over a dirty worktree does.

`FrozenStaysSettled` and `SuccessionStands` are about any number of reviews, under `~Overlap`
and `~KilledInGate`: clerks take turns and do not die between a gate's two writes. The
invariant `RecordInv` says that the directory *rests*: at each number at most one review,
links of a succession pair up, frozen phase reviews are settled, a complete phase has its
closing review. During a sweep it is not the directory that rests, but the directory with the
original put back, and the sweep has found out all that `JudgeCandidate` needs to keep it so.

### 5.6 Records and the host: `Parts_proofs`

- `LineageStaysChains`, `LineageIsAppendOnly`: for any finite set of revisions. The invariant
  adds that what a remap has evaluated is sound for the lineage whose digest it kept.
- `RecordsAreKept`, `LedgerIsTyped`: for any plans, trees, authors and designs. The invariant:
  no file holds an identity twice, and a command about to write has seen its identity absent
  from its own file as fenced. `HistoriesAssumption` starts from files the decoder accepts.
- `OrderDoesNotMatter`: for any finite set of sources and definers, where the winner is not
  tied (`Tied`; section 6).
- `InstallResumes`; `UserHookIsKept` under `~UserRacesCAS`: the user does not edit between an
  installer's last look and its rename. `HookAssumption` gives the disk a spare inode.
- `AdmittedCopyStays` under `OneAtATime`: provisioners share the name `bin/sdd.tmp`.
- `ReportsAreTrue`; `TreeIsContained` under `~LateCancel`: `cmd.Cancel` does not come between the
  reap of the leader and the moment its watcher is told.

### 5.7 Plans: `GraphPlan_proofs`

For any proposals the decoder lets through (`WellFormed`), any documents, inputs, splits,
retirements, sessions and deaths, with or without reviews of an earlier binary.

- `WorkspaceSound`: nothing is assumed of `Conflicts`. The invariant says of each session
  what its data is at its step, and of each two that they reserve different fragments: a
  reservation is above the mark it was read at, and the compare-and-swap lets one through.
- `GraphStaysClean` under `StructureApart`: split and retire do not run while a compile is
  between its judgement and its append. Compile judges one read and appends to another, so
  what it judged has to survive what others do meanwhile. `CompilesSee` says that the graph it
  judged is *within* the present one: the same nodes with the same contracts, and perhaps
  more. That is enough because every finding is either of one node and its closure, which a
  larger graph leaves alone (`WithinFindings`), or a demand that a larger graph still meets
  (`Demanded`). Two compiles may run at once: what each declares is sound over the graph
  both saw, hence also together (`SoundTogether`); that both declare one id is what the append
  itself looks at. Without `StructureApart` a dependency is retired under a compile that
  relies on it.
- `NothingStagedIsLost` under `StagingApart`: assemble runs alone, not together with compile
  or gc, and not over an assembled set. The invariant (`AllHold`) says of every command that is
  going to take a payload away that what it takes is elsewhere: what is assembled holds the
  fragments it merged, what is compiled is in the graph or was retired from it. So compile and
  gc, two of gc, or gc and split need not be kept apart.


### 5.8 Views: `GraphViews_proofs`

For any labels, any graph, anything compile adds, any number of sessions, deaths and edits.

- `ViewsAreTyped` and `ReadmeEditsSurvive` assume nothing of who overlaps whom. The second is
  the compare-and-swap of the README: the text written was derived from what is still there,
  prose included, or the write is refused.
- `FrozenViewsAreProved` and `CompletedPlansAreRendered` assume that the graph stands still
  while a plan completes (`"plan complete" \in Exclusive`). The closure is judged on one read,
  `completedAt` is written into another, and that other graph is rendered with the first one's
  closure; nothing locks between. Without the assumption an observation in between freezes a
  view that shows it as closed (TLC finds the nine states). Set-artifacts and phase completion
  render what they judged and need no such thing, nor do two sessions of any command: whoever
  is about to render holds a graph and a closure of the same moment (`ClosureProved`), which
  what happens to the graph later does not make false, since `proved` is history. `compile`
  renders the graph it has written with its closure derived anew; the mutant that renders
  the preflight's is refuted.
- `CompletedPlansAreRendered` follows the render document by document: at each step those
  before the present one are frozen and shown (`Rendering`), then the entries are done
  (`EntriesDone`), and that stays so until the flip, because nobody takes a view away
  while something renders and nobody but a renderer writes entries.
- `FrozenViewsAreKept` assumes that no two commands hold a text for the same document
  (`JudgedByOne`, which one session at a time gives for nothing). What is about to be written
  was then judged against what is still there (`StillJudged`). `writeView` compares with
  nothing, so two commands that judged one absent document both write, and the second
  may thaw what the first froze: TLC shows that with two sessions.

### 5.9 What is only model-checked

- Liveness (`CommandsReturn`, `CommandsEnd`, `EveryCallReturns`, `WorkflowCloses`) and
  `ConflictsCanBeSettled`, which is about ENABLED: out of the prover's reach.
- `ClaimantHasWorktree`: it holds only of commands that neither release nor collect and never
  die, with distinct names and one update attempt; a theorem would say little of the program.
- The disagreements of section 4: what they state is false.
- `ReviewsCoverWhatTheySaw`. A proof has to follow the scope of every review through a split
  that rewires nested reviews, and a review is GREEN by its direct dependencies' numbers, not
  by their states, so that the induction does not go up the graph node by node.
- `ForksAreReported`. It takes an induction along supersession, and that supersession has no
  cycle whatever texts are written in several trees at once.
- What a definition that recurses over data computes for every input (the tree walks of
  compile, the numbering of proposals): the proofs treat their result by what its definition
  constrains, not by its value.

## 6. Found while modelling

Besides the three disagreements of section 4:

- **An amendment does not pin an outer review of an earlier binary.** Splitting or rewiring a
  node pins the reviewed set of every legacy review above it (`internal/graph/ops/ops.go:174-188`),
  amending only that of the gate amended (`internal/graph/ops/amend.go:313-330`), against
  `.plans/Plans/SddReframing/Design.md:155` (DD-10) and the comment at `amend.go:318-319`. Take
  a plan with work `a` and `m`, a review `r1` of `a`, a review `r2` of `r1`, observed in the
  order `a`, `m`, `r1`, `r2` before reviewed sets were recorded. A report on `r1` adds a node
  over `a` and `m`: `m` is now below both reviews, `r1` is stale, and once `r1` is recorded
  again `r2`, whose legacy observation is after that of `m`, counts as a review of it.
  `ClosedIsReviewed` therefore assumes `LegacyIsWhole`.
- gc lists the directories after it read the claims, and reaps a worktree made in between
  (`internal/graph/ops/ops.go:571`). `ClaimantHasWorktree` is checked without gc.
- Two `graph init` race: existence is tested without a lock and the save is unconditional
  (`internal/graph/store/store.go:174`); hence `Cooperative`. The other half of `Cooperative` is
  a program that ignores the lock between the digest check and the rename.
- `plan complete` renders the graph it has just stamped with the closure it judged before
  (`cmd/sdd/graph_complete.go:170-189`): a node observed again in between is frozen as closed by
  an observation no review has seen. The views are written without comparing
  (`internal/graph/compile/render_phase.go:554`), so two renders may undo a freeze (5.8).
- In the shared tree a node counts as clean while at most one claim is active, and a batch does
  not count itself (`internal/graph/provider/provider.go:361`).
- `sdd graph review` plans on one read and prints the digest of the next
  (`internal/graph/review/review.go:391`): an edit between the two is amended under a digest that
  matches.
- A report replaced by a re-review is on no observation any more, and is admitted again
  (`internal/graph/review/review.go:184`).
- set-tests on a node that was reviewed and never observed keeps its revision, so the review
  stays GREEN (`internal/graph/ops/ops.go:341`).
- `graph repair-red` compares the tests an amendment recorded with those the node has now, not with
  those the revise left (`internal/graph/ops/repair.go:95`): a test the revise replaced and
  set-tests put back later gets its old red back, though the help speaks of a test that "is
  unchanged across a revise" (`cmd/sdd/graph.go:251-252`). The command is not modelled.
- set-artifacts widens a claimed node's write-set into another's (`internal/graph/ops/ops.go:376`).
- Two definers of one identifier that tie are found ambiguous or not by the order of
  registration (`internal/rules/graphapi.go:301-308`).
- Of review artifacts: SDD098 cites a log by the task's number, which a conversion takes away
  (`FrozenIsSettled` excepts it); `--accept-followups` cannot work for a phase-gate review, which
  SDD095 refuses, though `shared/review-artifacts.md:275` offers it; `review scaffold --force`
  over an open successor drops its `supersedes`; superseding a review that a complete v1 phase
  cites is refused by SDD167, against `shared/review-artifacts.md:197-199` and `:218`;
  `isValidPhaseReview` does not look at whether findings are terminal; two overlapping
  `supersedes` may pick one file number; non-phase reviews with `frozen:` freeze without the gate.
- `cmd.Cancel` may signal a group after its leader was reaped (`LateCancel`).
- Of v1 artifacts: the compiler reads fenced lines of a payload as items and skips them in
  the artifact (`internal/compile/compile.go:748`, `:642`), so a number inside a fence counts as restated
  and is gone for the next compile. A struck line may be dropped without a word, and its
  number, were it the highest, is assigned again, against `shared/frontmatter-schema.md:149` (ids
  "never silently re-bind"). `--retire` removes the line, and SDD154 then asks for it. `apply
  --create` over an existing artifact looks at neither its status nor its retired numbers.
  `migrate --all` and the lifecycle verbs write without comparing: what was edited since is
  undone, which is what `compiled` in `FindingsAreExplained` excepts.
- `sdd next --claim` returns an error after its claim was recorded when an input stops
  resolving in between (`cmd/sdd/graph.go:1279`): the claim stands until its lease ends.
