---------------------------- MODULE HookInstall ----------------------------
(***************************************************************************)
(* `sdd doctor --fix` installs a managed post-rewrite dispatcher where a   *)
(* user's own hook may already live (internal/provision/                   *)
(* git_post_rewrite.go).  Two paths matter: the hook, and the sibling      *)
(* post-rewrite.sdd-user that keeps the user's hook and that the           *)
(* dispatcher runs first.  A path names an inode or nothing; what a file   *)
(* says and whether it may be executed belong to the inode, so a hard link *)
(* preserves both.  Installers take an advisory lock; the user does not.   *)
(***************************************************************************)
EXTENDS Naturals, FiniteSets

CONSTANTS
    Installers,   \* processes running `sdd doctor --fix`
    Inodes,       \* a number freed with its last name is used again
    NoFile,       \* what a path names when there is nothing there
    MaxActs,      \* bound: how often the user touches the two paths
    MaxDeaths     \* bound: installers killed

ASSUME HookAssumption ==
    /\ NoFile \notin Inodes
    /\ IsFiniteSet(Installers) /\ "nobody" \notin Installers
    /\ IsFiniteSet(Inodes)
    /\ Cardinality(Inodes) > Cardinality(Installers) + 2   \* the disk is never full
    /\ MaxActs \in Nat
    /\ MaxDeaths \in Nat

VARIABLES
    hook,       \* what post-rewrite names
    backup,     \* what post-rewrite.sdd-user names
    file,       \* inode -> what it holds
    installer,  \* process -> where it is in InstallPostRewrite
    lock,       \* who holds post-rewrite.sdd-install.lock
    own,        \* the hooks the user wrote and did not give up
    risked,     \* those put where an installer no longer looks, by their text
    acts,       \* user actions so far
    deaths

hookVars == <<hook, backup, file, installer, lock, own, risked, acts, deaths>>

Nobody == "nobody"

\* irregular: a symbolic link or anything else that is not a regular file;
\* stale: carries the managed marker, but is not this version's dispatcher.
Kinds == {"user", "dispatcher", "stale", "irregular"}
Contents == [kind : Kinds, text : 0..MaxActs, exec : BOOLEAN]
Dispatcher(x) == [kind |-> "dispatcher", text |-> 0, exec |-> x]

Steps == {"idle", "lock", "inspect", "snapshot", "temp", "link", "check",
          "verify", "replace", "open", "chmod", "done"}
Diagnoses == {"missing", "user-hook", "stale", "not-executable", "unsafe", "current"}
Reports == {"none", "no-repository", "refused", "installed", "already"}

Idle == [pc |-> "idle", state |-> "missing", ino |-> NoFile, content |-> Dispatcher(FALSE),
         tmp |-> NoFile, made |-> FALSE, report |-> "none"]

HookTypeOK ==
    /\ hook \in Inodes \cup {NoFile}
    /\ backup \in Inodes \cup {NoFile}
    /\ file \in [Inodes -> Contents]
    /\ installer \in [Installers -> [pc : Steps, state : Diagnoses,
                                     ino : Inodes \cup {NoFile}, content : Contents,
                                     tmp : Inodes \cup {NoFile}, made : BOOLEAN,
                                     report : Reports]]
    /\ lock \in Installers \cup {Nobody}
    /\ own \in SUBSET [text : 0..MaxActs, exec : BOOLEAN]
    /\ risked \subseteq 0..MaxActs
    /\ acts \in 0..MaxActs
    /\ deaths \in 0..MaxDeaths

(***************************************************************************)
(* Helpers                                                                 *)
(***************************************************************************)
Regular(i) == file[i].kind # "irregular"

\* the diagnosis `sdd doctor` prints and InstallPostRewrite acts on
InspectPostRewrite ==
    IF backup # NoFile /\ ~Regular(backup) THEN "unsafe"
    ELSE IF hook = NoFile THEN "missing"
    ELSE IF ~Regular(hook) THEN "unsafe"
    ELSE IF file[hook].kind = "user"
      THEN IF backup \in {NoFile, hook} THEN "user-hook" ELSE "unsafe"
    ELSE IF file[hook].kind = "stale" THEN "stale"
    ELSE IF ~file[hook].exec THEN "not-executable"
    ELSE "current"

\* what the user could still run: the hook itself or the one behind the dispatcher
UserFiles == {i \in {hook, backup} \ {NoFile} : file[i].kind = "user"}
UserHooks == {[text |-> file[i].text, exec |-> file[i].exec] : i \in UserFiles}

Opened == {installer[s].ino : s \in {s \in Installers : installer[s].pc = "chmod"}}
InUse == {hook, backup} \cup {installer[s].tmp : s \in Installers} \cup Opened
Fresh == CHOOSE i \in Inodes : i \notin InUse

Step(s, next) == installer' = [installer EXCEPT ![s] = next]
Goto(s, pc) == Step(s, [installer[s] EXCEPT !.pc = pc])

\* the deferred calls: the staged file is removed and the lock released
Leave(s, report) ==
    /\ Step(s, [Idle EXCEPT !.pc = "done", !.report = report])
    /\ lock' = Nobody

\* a failure after the backup was linked takes back only a link made here
UndoBackup(s) == backup' = IF installer[s].made THEN NoFile ELSE backup

Quiet == UNCHANGED <<own, risked, acts, deaths>>

(***************************************************************************)
(* InstallPostRewrite                                                      *)
(***************************************************************************)
Resolve(s) ==
    /\ installer[s].pc = "idle"
    /\ \/ Goto(s, "lock")
       \/ Step(s, [Idle EXCEPT !.pc = "done", !.report = "no-repository"])
    /\ UNCHANGED <<hook, backup, file, lock>> /\ Quiet

AcquirePostRewriteLock(s) ==
    /\ installer[s].pc = "lock"
    /\ lock = Nobody
    /\ lock' = s
    /\ Goto(s, "inspect")
    /\ UNCHANGED <<hook, backup, file>> /\ Quiet

Inspect(s) ==
    /\ installer[s].pc = "inspect"
    /\ LET d == InspectPostRewrite
       IN  CASE d = "current" -> Leave(s, "already")
             [] d = "unsafe"  -> Leave(s, "refused")
             [] OTHER -> /\ Step(s, [installer[s] EXCEPT !.state = d,
                               !.pc = IF d = "not-executable" THEN "open" ELSE "snapshot"])
                         /\ UNCHANGED lock
    /\ UNCHANGED <<hook, backup, file>> /\ Quiet

\* repairPostRewriteMode: the file that is opened is the one that is changed
OpenDispatcher(s) ==
    /\ installer[s].pc = "open"
    /\ IF hook = NoFile \/ (hook # NoFile /\ ~Regular(hook))
         THEN Leave(s, "refused")
         ELSE Step(s, [installer[s] EXCEPT !.pc = "chmod", !.ino = hook]) /\ UNCHANGED lock
    /\ UNCHANGED <<hook, backup, file>> /\ Quiet

RepairMode(s) ==
    /\ installer[s].pc = "chmod"
    /\ LET i == installer[s].ino
       IN  IF file[i].kind = "dispatcher"
             THEN file' = [file EXCEPT ![i].exec = TRUE] /\ Leave(s, "installed")
             ELSE UNCHANGED file /\ Leave(s, "refused")
    /\ UNCHANGED <<hook, backup>> /\ Quiet

\* the snapshot the replacement is conditioned on is a read of its own
Snapshot(s) ==
    /\ installer[s].pc = "snapshot"
    /\ CASE hook = NoFile -> Step(s, [installer[s] EXCEPT !.pc = "temp"]) /\ UNCHANGED lock
         [] hook # NoFile /\ ~Regular(hook) -> Leave(s, "refused")
         [] OTHER -> /\ Step(s, [installer[s] EXCEPT !.pc = "temp", !.ino = hook,
                                                     !.content = file[hook]])
                     /\ UNCHANGED lock
    /\ UNCHANGED <<hook, backup, file>> /\ Quiet

WriteTemp(s) ==
    /\ installer[s].pc = "temp"
    /\ \/ /\ file' = [file EXCEPT ![Fresh] = Dispatcher(TRUE)]
          /\ Step(s, [installer[s] EXCEPT !.tmp = Fresh,
                        !.pc = IF installer[s].state = "user-hook" THEN "link" ELSE "verify"])
          /\ UNCHANGED lock
       \/ Leave(s, "refused") /\ UNCHANGED file
    /\ UNCHANGED <<hook, backup>> /\ Quiet

\* a copy in place of a link: the next run cannot tell it from a user's file
LinkBackupCopies(s) ==
    /\ installer[s].pc = "link"
    /\ IF backup = NoFile /\ hook # NoFile
         THEN /\ backup' = Fresh
              /\ file' = [file EXCEPT ![Fresh] = file[hook]]
              /\ Step(s, [installer[s] EXCEPT !.pc = "verify", !.made = TRUE])
         ELSE Goto(s, "check") /\ UNCHANGED <<backup, file>>
    /\ UNCHANGED <<hook, lock>> /\ Quiet

\* os.Link refuses a name that exists; that is not yet a refusal here
LinkBackup(s) ==
    /\ installer[s].pc = "link"
    /\ \/ /\ backup # NoFile
          /\ Goto(s, "check")
          /\ UNCHANGED <<backup, lock>>
       \/ /\ backup = NoFile /\ hook # NoFile
          /\ backup' = hook
          /\ Step(s, [installer[s] EXCEPT !.pc = "check", !.made = TRUE])
          /\ UNCHANGED lock
       \/ /\ backup = NoFile
          /\ Leave(s, "refused")
          /\ UNCHANGED backup
    /\ UNCHANGED <<hook, file>> /\ Quiet

SameFile(s, i) == i # NoFile /\ i = installer[s].ino

CheckBackup(s) ==
    /\ installer[s].pc = "check"
    /\ IF SameFile(s, backup) /\ (backup # NoFile => Regular(backup))
         THEN Goto(s, "verify") /\ UNCHANGED <<backup, lock>>
         ELSE UndoBackup(s) /\ Leave(s, "refused")
    /\ UNCHANGED <<hook, file>> /\ Quiet

\* a snapshot that only remembers whether there was a hook
SnapshotHoldsLoosely(s) == (installer[s].ino = NoFile) = (hook = NoFile)

SnapshotHolds(s) ==
    IF installer[s].ino = NoFile
      THEN hook = NoFile
      ELSE /\ SameFile(s, hook)
           /\ file[hook] = [installer[s].content EXCEPT !.exec = file[hook].exec]

VerifySnapshot(s) ==
    /\ installer[s].pc = "verify"
    /\ IF SnapshotHolds(s)
         THEN Goto(s, "replace") /\ UNCHANGED <<backup, lock>>
         ELSE UndoBackup(s) /\ Leave(s, "refused")
    /\ UNCHANGED <<hook, file>> /\ Quiet

ReplaceHookFile(s) ==
    /\ installer[s].pc = "replace"
    /\ \/ hook' = installer[s].tmp /\ UNCHANGED backup /\ Leave(s, "installed")
       \/ UndoBackup(s) /\ UNCHANGED hook /\ Leave(s, "refused")
    /\ UNCHANGED file /\ Quiet

\* The kernel drops the lock of a killed process.  Its staged file has a name
\* nobody looks at, and the link it may have made stays.
Die(s) ==
    /\ deaths < MaxDeaths
    /\ installer[s].pc \notin {"idle", "done"}
    /\ deaths' = deaths + 1
    /\ Step(s, [Idle EXCEPT !.pc = "done"])
    /\ lock' = IF lock = s THEN Nobody ELSE lock
    /\ UNCHANGED <<hook, backup, file, own, risked, acts>>

(***************************************************************************)
(* The user, who takes no lock                                             *)
(***************************************************************************)
\* An installer trusts what it read of the hook between inspection and
\* snapshot and between verification and rename, and what it saw of the
\* backup from the link to the rename.  What the user puts at the path in that
\* time may be dropped, and so may a hook whose backup is taken away.
InHookWindow == \E s \in Installers : installer[s].pc \in {"snapshot", "replace"}
InBackupWindow ==
    \E s \in Installers :
        installer[s].pc \in {"check", "verify", "replace"} /\ installer[s].state = "user-hook"

UserActs(stays, exposed) ==
    /\ acts < MaxActs
    /\ acts' = acts + 1
    /\ own' = stays \cup (UserHooks' \ UserHooks)
    /\ risked' = risked \cup {file'[i].text : i \in exposed \ {NoFile}}
    /\ UNCHANGED <<installer, lock, deaths>>

Hook(i) == [text |-> file[i].text, exec |-> file[i].exec]
Held(i) == IF i # NoFile /\ file[i].kind = "user" THEN {Hook(i)} ELSE {}

Written == {[kind |-> "user", text |-> acts + 1, exec |-> x] : x \in BOOLEAN}
           \cup {[Dispatcher(TRUE) EXCEPT !.kind = "irregular"]}

\* an editor that writes in place, or chmod: every name of the inode sees it
EditInPlace ==
    /\ UNCHANGED <<hook, backup>>
    /\ \E i \in UserFiles, x \in BOOLEAN : \E t \in {file[i].text, acts + 1} :
          /\ file' = [file EXCEPT ![i] = [kind |-> "user", text |-> t, exec |-> x]]
          /\ file' # file
          /\ UserActs(own \ Held(i),
                      IF (i # hook /\ InBackupWindow) \/ file[i].text \in risked THEN {i} ELSE {})

\* an editor that renames over the old file, another tool, or a first hook
PutHook ==
    \E c \in Written \cup {[Dispatcher(TRUE) EXCEPT !.kind = "stale"]} :
        /\ file' = [file EXCEPT ![Fresh] = c]
        /\ hook' = Fresh /\ UNCHANGED backup
        /\ UserActs(own \ Held(hook), IF InHookWindow THEN {Fresh} ELSE {})

RemoveHook ==
    /\ hook # NoFile
    /\ hook' = NoFile /\ UNCHANGED <<backup, file>>
    /\ UserActs(own \ Held(hook), {})

PutBackup ==
    /\ backup = NoFile
    /\ \E c \in Written :
          /\ file' = [file EXCEPT ![Fresh] = c]
          /\ backup' = Fresh /\ UNCHANGED hook
          /\ UserActs(own, IF InBackupWindow THEN {Fresh} ELSE {})

RemoveBackup ==
    /\ backup # NoFile
    /\ backup' = NoFile /\ UNCHANGED <<hook, file>>
    /\ UserActs(IF hook = backup THEN own ELSE own \ Held(backup),
                IF InBackupWindow THEN {hook} ELSE {})

UserStep == EditInPlace \/ PutHook \/ RemoveHook \/ PutBackup \/ RemoveBackup

(***************************************************************************)
(* Specification                                                           *)
(***************************************************************************)
HookInit ==
    /\ file \in [Inodes -> {[Dispatcher(FALSE) EXCEPT !.kind = "user"]}]
    /\ hook \in {NoFile} \cup {CHOOSE i \in Inodes : TRUE}
    /\ backup = NoFile
    /\ installer = [s \in Installers |-> Idle]
    /\ lock = Nobody
    /\ own = UserHooks
    /\ risked = {}
    /\ acts = 0
    /\ deaths = 0

Install(s) ==
    \/ Resolve(s) \/ AcquirePostRewriteLock(s) \/ Inspect(s)
    \/ OpenDispatcher(s) \/ RepairMode(s)
    \/ Snapshot(s) \/ WriteTemp(s) \/ LinkBackup(s) \/ CheckBackup(s)
    \/ VerifySnapshot(s) \/ ReplaceHookFile(s)

HookNext == UserStep \/ \E s \in Installers : Install(s) \/ Die(s)

HookSpec == HookInit /\ [][HookNext]_hookVars

(***************************************************************************)
(* Properties                                                              *)
(***************************************************************************)
\* Whatever installers do, die in the middle of, or race each other over, every
\* hook the user wrote and did not give up is still there with its own mode:
\* as the hook, or as the backup the dispatcher runs (InstallPostRewrite).
\* Lost is only what the user put at a path while an installer was past its last
\* look there, or left without its backup then.
Kept == {h \in own : h.text \notin risked}
UserHookSurvives == HookTypeOK /\ Kept \subseteq UserHooks

\* Only the user can bring the two paths into the state every later install
\* refuses: an installer that fails or dies leaves a state the next one can
\* finish from (inspectPostRewrite, "dispatcher installation can resume").
InstallCanResume ==
    [][InspectPostRewrite' = "unsafe" =>
          InspectPostRewrite = "unsafe" \/ acts' # acts]_hookVars
=============================================================================
