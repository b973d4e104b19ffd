----------------------------- MODULE Provision -----------------------------
(***************************************************************************)
(* `sdd provision` (internal/provision/provision.go, hooks.go): find a     *)
(* binary at or above the plugin's floor, write hooks.json for this        *)
(* platform, and place a copy of the binary in the plugin, each through a  *)
(* fixed `.tmp` name and a rename.  Nothing keeps two provisioners apart,  *)
(* and both stage at the same two names.  Hooks fire at any time and run   *)
(* the copy when there is one, the binary on PATH when there is not.       *)
(***************************************************************************)
EXTENDS Naturals, FiniteSets

CONSTANTS
    Provisioners,  \* processes running `sdd provision`
    Versions,      \* release cores; a prerelease suffix does not count
    NoBinary,      \* a path with nothing at it
    MaxChanges,    \* bound: changes of the plugin or of the binary on PATH
    MaxKills       \* bound: provisioners killed

ASSUME ProvisionAssumption ==
    /\ Versions \subseteq Nat
    /\ MaxChanges \in Nat
    /\ MaxKills \in Nat

VARIABLES
    floor,      \* minSddVersion of the installed plugin
    copy,       \* ${CLAUDE_PLUGIN_ROOT}/bin/sdd
    onPath,     \* what `sdd` means on PATH
    tmp,        \* bin/sdd.tmp, whose name every provisioner shares
    hooksJson,  \* hooks.json against what this binary would write
    hooksTmp,   \* hooks.json.tmp
    prov,       \* process -> where it is in Provision
    changes,
    kills

provisionVars == <<floor, copy, onPath, tmp, hooksJson, hooksTmp, prov, changes, kills>>

\* a broken binary does not run (truncated, mixed by two writers) or reports no
\* version
Binaries == [version : Versions, state : {"whole", "broken"}]
Places == Binaries \cup {NoBinary}
ASSUME NoBinaryAssumption == NoBinary \notin Binaries
Whole(v) == [version |-> v, state |-> "whole"]

Documents == {"absent", "stale", "truncated", "current"}

\* `into` is where the file a provisioner has open for writing lies by now: at
\* the temporary name, at the name it was renamed to, or at none.  `missed` is
\* history: what others did since it looked at the copy ("copy"), ran the binary
\* on PATH ("path") or opened bin/sdd.tmp ("tmp").
Asleep == [pc |-> "idle", source |-> NoBinary, into |-> "lost", missed |-> {}]

ProvisionTypeOK ==
    /\ floor \in Versions
    /\ {copy, onPath, tmp} \subseteq Places
    /\ {hooksJson, hooksTmp} \subseteq Documents
    /\ prov \in [Provisioners ->
          [pc : {"idle", "path", "hooks", "hooksTmp", "hooksRename", "hooksRemove",
                 "read", "open", "write", "rename", "remove"},
           source : Places, into : {"staged", "placed", "lost"},
           missed : SUBSET {"copy", "path", "tmp"}]]
    /\ changes \in 0..MaxChanges
    /\ kills \in 0..MaxKills

(***************************************************************************)
(* Resolve: the plugin copy first, then PATH                               *)
(***************************************************************************)
Admitted(b) == b # NoBinary /\ b.state = "whole" /\ b.version >= floor

At(p, pc) == prov[p].pc = pc
To(p, pc) == prov' = [prov EXCEPT ![p].pc = pc]
Stop(p) == prov' = [prov EXCEPT ![p] = Asleep]
Running == {p \in Provisioners : ~At(p, "idle")}

\* The provisioners of P miss `what`
Missed(P, what) ==
    [p \in Provisioners |->
       IF p \in P THEN [prov[p] EXCEPT !.missed = @ \cup {what}] ELSE prov[p]]

ProbeCopy(p) ==
    /\ At(p, "idle")
    /\ prov' = [prov EXCEPT
          ![p].pc = IF Admitted(copy) THEN "hooks" ELSE "path",
          ![p].source = IF Admitted(copy) THEN copy ELSE NoBinary]
    /\ UNCHANGED <<floor, copy, onPath, tmp, hooksJson, hooksTmp, changes, kills>>

ProbePath(p) ==
    /\ At(p, "path")
    /\ IF Admitted(onPath) THEN To(p, "hooks") ELSE Stop(p)
    /\ UNCHANGED <<floor, copy, onPath, tmp, hooksJson, hooksTmp, changes, kills>>

(***************************************************************************)
(* InstallHooks: compared first, then a temporary file and a rename.  A    *)
(* rename takes the files its name's other holders have open with it, and  *)
(* finds nothing when another provisioner renamed or removed the file.     *)
(***************************************************************************)
Moved(f, pc) ==
    [q \in Provisioners |->
       IF f[q].pc # pc THEN f[q]
       ELSE [f[q] EXCEPT !.into = IF @ = "staged" THEN "placed" ELSE "lost"]]
Removed(f, pc) ==
    [q \in Provisioners |->
       IF f[q].pc = pc /\ f[q].into = "staged" THEN [f[q] EXCEPT !.into = "lost"] ELSE f[q]]

InstallHooks(p) ==
    /\ At(p, "hooks")
    /\ IF hooksJson = "current"
         THEN To(p, "read") /\ UNCHANGED hooksTmp
         ELSE /\ hooksTmp' = "truncated"
              /\ prov' = [prov EXCEPT ![p].pc = "hooksTmp", ![p].into = "staged"]
    /\ UNCHANGED <<floor, copy, onPath, tmp, hooksJson, changes, kills>>

WriteHooks(p) ==
    /\ At(p, "hooksTmp")
    /\ \/ /\ hooksTmp' = IF prov[p].into = "staged" THEN "current" ELSE hooksTmp
          /\ hooksJson' = IF prov[p].into = "placed" THEN "current" ELSE hooksJson
          /\ prov' = [prov EXCEPT ![p].pc = "hooksRename", ![p].into = "lost"]
       \/ UNCHANGED <<hooksJson, hooksTmp>> /\ Stop(p)
    /\ UNCHANGED <<floor, copy, onPath, tmp, changes, kills>>

RenameHooks(p) ==
    /\ At(p, "hooksRename")
    /\ \/ /\ hooksTmp # "absent"
          /\ hooksJson' = hooksTmp /\ hooksTmp' = "absent"
          /\ prov' = Moved([prov EXCEPT ![p].pc = "read"], "hooksTmp")
       \/ UNCHANGED <<hooksJson, hooksTmp>> /\ To(p, "hooksRemove")
    /\ UNCHANGED <<floor, copy, onPath, tmp, changes, kills>>

RemoveHooksTmp(p) ==
    /\ At(p, "hooksRemove")
    /\ hooksTmp' = "absent"
    /\ prov' = Removed([prov EXCEPT ![p] = Asleep], "hooksTmp")
    /\ UNCHANGED <<floor, copy, onPath, tmp, hooksJson, changes, kills>>

(***************************************************************************)
(* Provision: nothing to do when the copy itself was resolved; otherwise   *)
(* the source is read again, after it was probed                           *)
(***************************************************************************)
ReadSource(p) ==
    /\ At(p, "read")
    /\ IF prov[p].source # NoBinary \/ onPath = NoBinary
         THEN Stop(p)
         ELSE prov' = [prov EXCEPT ![p].pc = "open", ![p].source = onPath]
    /\ UNCHANGED <<floor, copy, onPath, tmp, hooksJson, hooksTmp, changes, kills>>

\* the copy written where hooks look for it
OpenTmpInPlace(p) ==
    /\ At(p, "open")
    /\ copy' = [prov[p].source EXCEPT !.state = "broken"]
    /\ To(p, "write")
    /\ UNCHANGED <<floor, tmp, onPath, hooksJson, hooksTmp, changes, kills>>

\* those whose write or rename goes to what bin/sdd.tmp names
Staging == {p \in Provisioners : prov[p].pc \in {"write", "rename"}}

OpenTmp(p) ==
    /\ At(p, "open")
    /\ tmp' = [prov[p].source EXCEPT !.state = "broken"]
    /\ prov' = [Missed(IF Staging = {} THEN {} ELSE Staging \cup {p}, "tmp")
                  EXCEPT ![p].pc = "write", ![p].into = "staged"]
    /\ UNCHANGED <<floor, copy, onPath, hooksJson, hooksTmp, changes, kills>>

\* The bytes go to the file that was opened, wherever it lies now; of two
\* writers of one file either may leave it damaged.
WriteTmp(p) ==
    /\ At(p, "write")
    /\ \E b \in {prov[p].source, [prov[p].source EXCEPT !.state = "broken"]} :
          /\ tmp' = IF prov[p].into = "staged" THEN b ELSE tmp
          /\ copy' = IF prov[p].into = "placed" THEN b ELSE copy
          /\ \/ /\ b = prov[p].source \/ "tmp" \in prov[p].missed
                /\ prov' = [Missed(IF copy' # copy THEN Running \ {p} ELSE {}, "copy")
                              EXCEPT ![p].pc = "rename", ![p].into = "lost"]
             \/ prov' = [Missed(IF copy' # copy THEN Running \ {p} ELSE {}, "copy")
                           EXCEPT ![p] = Asleep]
    /\ UNCHANGED <<floor, onPath, hooksJson, hooksTmp, changes, kills>>

RenameTmp(p) ==
    /\ At(p, "rename")
    /\ \/ /\ tmp # NoBinary
          /\ copy' = tmp /\ tmp' = NoBinary
          /\ prov' = Moved([Missed(Running \ {p}, "copy") EXCEPT ![p] = Asleep], "write")
       \/ UNCHANGED <<copy, tmp>> /\ To(p, "remove")
    /\ UNCHANGED <<floor, onPath, hooksJson, hooksTmp, changes, kills>>

RemoveTmp(p) ==
    /\ At(p, "remove")
    /\ tmp' = NoBinary
    /\ prov' = Removed([prov EXCEPT ![p] = Asleep], "write")
    /\ UNCHANGED <<floor, copy, onPath, hooksJson, hooksTmp, changes, kills>>

Kill(p) ==
    /\ kills < MaxKills
    /\ ~At(p, "idle")
    /\ kills' = kills + 1
    /\ Stop(p)
    /\ UNCHANGED <<floor, copy, onPath, tmp, hooksJson, hooksTmp, changes>>

(***************************************************************************)
(* The world: the binary on PATH replaced by another version, half-written *)
(* or removed, and a plugin upgrade, which is a new directory with no copy *)
(* and no hooks.json of this machine.  An upgrade waits for the            *)
(* provisioning it was run from.                                           *)
(***************************************************************************)
UpgradePath ==
    /\ changes < MaxChanges
    /\ \E b \in Places \ {onPath} : onPath' = b
    /\ prov' = Missed({p \in Provisioners :
                        prov[p].pc \in {"hooks", "hooksTmp", "hooksRename", "hooksRemove", "read"}},
                      "path")
    /\ changes' = changes + 1
    /\ UNCHANGED <<floor, copy, tmp, hooksJson, hooksTmp, kills>>

UpgradePlugin ==
    /\ changes < MaxChanges
    /\ \A p \in Provisioners : At(p, "idle")
    /\ \E v \in Versions : v >= floor /\ floor' = v
    /\ copy' = NoBinary /\ tmp' = NoBinary
    /\ hooksJson' \in {"absent", "stale"} /\ hooksTmp' = "absent"
    /\ changes' = changes + 1
    /\ UNCHANGED <<onPath, prov, kills>>

ProvisionInit ==
    /\ floor \in Versions
    /\ copy \in Places
    /\ onPath \in Places
    /\ tmp = NoBinary
    /\ hooksJson \in Documents \ {"truncated"}
    /\ hooksTmp = "absent"
    /\ prov = [p \in Provisioners |-> Asleep]
    /\ changes = 0
    /\ kills = 0

ProvisionStep(p) ==
    \/ ProbeCopy(p) \/ ProbePath(p)
    \/ InstallHooks(p) \/ WriteHooks(p) \/ RenameHooks(p) \/ RemoveHooksTmp(p)
    \/ ReadSource(p) \/ OpenTmp(p) \/ WriteTmp(p) \/ RenameTmp(p) \/ RemoveTmp(p)

ProvisionNext ==
    \/ \E p \in Provisioners : ProvisionStep(p) \/ Kill(p)
    \/ UpgradePath
    \/ UpgradePlugin

ProvisionSpec == ProvisionInit /\ [][ProvisionNext]_provisionVars

(***************************************************************************)
(* Properties                                                              *)
(***************************************************************************)
\* What a provisioner renames is what it read on PATH, whole: it takes the place
\* of a copy the floor admits only when another provisioner changed the copy
\* after this one looked at it, and is one the floor rejects only when the binary
\* on PATH was replaced after it answered.
Replaces(p) ==
    /\ copy' = prov[p].source
    /\ Admitted(copy) => "copy" \in prov[p].missed
    /\ ~Admitted(copy') => "path" \in prov[p].missed

\* What hooks run changes under them only with a plugin upgrade or by such a
\* rename: no kill, no failed write, no hook firing between the calls meets a
\* broken or unasked-for binary in the place of the copy (Provision, "a hook
\* firing mid-refresh never sees a truncated binary").  Two provisioners that had
\* bin/sdd.tmp open at once are the exception: the name is shared.
CopyStaysAdmitted ==
    [][/\ ProvisionTypeOK'
       /\ copy' # copy /\ changes' = changes =>
            \E p \in Provisioners :
               prov'[p].pc # prov[p].pc /\ ("tmp" \in prov[p].missed \/ Replaces(p))]_provisionVars
=============================================================================
