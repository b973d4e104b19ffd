------------------------------ MODULE MCParts ------------------------------
(***************************************************************************)
(* One run over modules that share no state: what the CLI does to the      *)
(* machine it runs on, the ledger of decisions, and the citation index.  A *)
(* behaviour is one of a single part, the others stand still in one of     *)
(* their initial states.                                                   *)
(***************************************************************************)
EXTENDS HookInstall, Provision, RevisionLineage, ProcExec, DecisionLedger, Citations

CONSTANT one   \* the floor while provisioning stands still

VARIABLE part

partVars == <<part, hookVars, provisionVars, lineageVars, procVars, ledgerVars, citationVars>>

-----------------------------------------------------------------------------
\* Statements c and e share an identity; the design replaces b by c.  One
\* plan has recorded two decisions, or two plans have forked a.
MCDigest    == [s \in Statements |-> IF s = "e" THEN "c" ELSE s]
MCDesign    == <<[text |-> "b", sup |-> 0], [text |-> "c", sup |-> 1]>>
MCHistories == {<<<<Entry("a", {}, 0), Entry("b", {}, 1)>>, <<>>>>,
                <<<<Entry("a", {}, 0), Entry("d", {"a"}, 0)>>, <<Entry("b", {"a"}, 1)>>>>}
NoDecisions == [t \in Trees |-> <<<<>>, <<>>>>]

-----------------------------------------------------------------------------
HookStill ==
    /\ HookInit /\ hook = NoFile
ProvisionStill ==
    /\ ProvisionInit /\ floor = one
    /\ copy = NoBinary /\ onPath = NoBinary /\ hooksJson = "absent"
ProcStill ==
    /\ ProcInit /\ adapter = "job" /\ ~capture
LedgerStill ==
    /\ files = NoDecisions /\ se = [s \in Authors |-> NoCommand]
    /\ commands = 0 /\ merges = 0
CitationStill ==
    /\ CitationInit /\ definers = {} /\ direct = {}

Parts == {"hook", "provision", "lineage", "proc", "ledger", "citations"}

Init ==
    /\ part \in Parts
    /\ IF part = "hook" THEN HookInit ELSE HookStill
    /\ IF part = "provision" THEN ProvisionInit ELSE ProvisionStill
    /\ LineageInit
    /\ IF part = "proc" THEN ProcInit ELSE ProcStill
    /\ IF part = "ledger" THEN LedgerInit ELSE LedgerStill
    /\ IF part = "citations" THEN CitationInit ELSE CitationStill

Next ==
    /\ UNCHANGED part
    /\ \/ /\ part = "hook" /\ HookNext
          /\ UNCHANGED <<provisionVars, lineageVars, procVars, ledgerVars, citationVars>>
       \/ /\ part = "provision" /\ ProvisionNext
          /\ UNCHANGED <<hookVars, lineageVars, procVars, ledgerVars, citationVars>>
       \/ /\ part = "lineage" /\ LineageNext
          /\ UNCHANGED <<hookVars, provisionVars, procVars, ledgerVars, citationVars>>
       \/ /\ part = "proc" /\ ProcNext
          /\ UNCHANGED <<hookVars, provisionVars, lineageVars, ledgerVars, citationVars>>
       \/ /\ part = "ledger" /\ LedgerNext
          /\ UNCHANGED <<hookVars, provisionVars, lineageVars, procVars, citationVars>>
       \/ /\ part = "citations" /\ CitationNext
          /\ UNCHANGED <<hookVars, provisionVars, lineageVars, procVars, ledgerVars>>

Spec == Init /\ [][Next]_partVars /\ (part = "proc" => ProcFairness)

\* Every call of the runner returns (ProcExec!CallReturns), in the part that
\* makes one.
EveryCallReturns == part = "proc" => CallReturns
=============================================================================
