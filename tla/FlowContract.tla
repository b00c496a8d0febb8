---------------------------- MODULE FlowContract ----------------------------
(***************************************************************************)
(* What the relayer promises about the deposits and withdrawals of one     *)
(* wallet position, as its callers see it: at most one is open, it is      *)
(* executed at most once and only after it was submitted, and its final    *)
(* status tells the truth about the chain.  VaultFlow implements this      *)
(* contract; Mandate and Payer are built on it.                            *)
(***************************************************************************)
EXTENDS Naturals, FiniteSets

CONSTANT Flows      \* deposit and withdrawal intents

VARIABLES
    flow,       \* flow[f]: the status GET /deposits or /withdrawals reports
    effect      \* effect[f]: what the chain did with its transaction

contractVars == <<flow, effect>>

FinalStatus == {"confirmed", "failed", "failed_not_submitted", "expired"}
FlowStates  == {"absent", "prepared", "submitted"} \cup FinalStatus
Effects     == {"none", "moved", "reverted"}

ContractTypeOK ==
    /\ flow \in [Flows -> FlowStates]
    /\ effect \in [Flows -> Effects]

OpenFlows == {f \in Flows : flow[f] \in {"prepared", "submitted"}}

ContractInit ==
    /\ flow = [f \in Flows |-> "absent"]
    /\ effect = [f \in Flows |-> "none"]

-----------------------------------------------------------------------------
SetFlow(f, s) == flow' = [flow EXCEPT ![f] = s]

PrepareFlow(f) ==
    /\ flow[f] = "absent"
    /\ OpenFlows = {}
    /\ SetFlow(f, "prepared")
    /\ UNCHANGED effect

\* Unsubmitted, the intent runs out.
ExpireFlow(f) ==
    /\ flow[f] = "prepared"
    /\ SetFlow(f, "expired")
    /\ UNCHANGED effect

SubmitFlow(f) ==
    /\ flow[f] = "prepared"
    /\ SetFlow(f, "submitted")
    /\ UNCHANGED effect

\* The transaction enters a block.
ExecuteFlow(f, e) ==
    /\ flow[f] = "submitted"
    /\ effect[f] = "none"
    /\ effect' = [effect EXCEPT ![f] = e]
    /\ UNCHANGED flow

\* What the final status says about the effect.  "failed" covers both a
\* reverted transaction and one whose receipt could not be classified.
Truthful(s, e) ==
    \/ s = "confirmed" /\ e = "moved"
    \/ s = "failed" /\ e # "none"
    \/ s = "failed_not_submitted" /\ e = "none"

ResolveFlow(f, s) ==
    /\ flow[f] = "submitted"
    /\ Truthful(s, effect[f])
    /\ SetFlow(f, s)
    /\ UNCHANGED effect

ContractNext ==
    \E f \in Flows :
        \/ PrepareFlow(f) \/ ExpireFlow(f) \/ SubmitFlow(f)
        \/ \E e \in Effects \ {"none"} : ExecuteFlow(f, e)
        \/ \E s \in FinalStatus : ResolveFlow(f, s)

ContractSpec == ContractInit /\ [][ContractNext]_contractVars
=============================================================================
