----------------------------- MODULE VaultFlow -----------------------------
(***************************************************************************)
(* The deposit and withdrawal flows of one wallet in one vault             *)
(* (src/domain/vault-flow-service.ts), together with what they race with:  *)
(* the chain sync of the position (src/domain/chain-wallet-sync.ts and     *)
(* syncWalletPosition of src/domain/payment-service.ts), owner approvals   *)
(* (src/domain/spending-mandate-service.ts), other request handlers on the *)
(* same intent, and the chain.                                             *)
(*                                                                         *)
(* A handler is a sequence of awaits.  Everything it does while it holds   *)
(* the wallet-vault lock is one action, because every other writer of the  *)
(* position, the intents and the approvals takes the same lock and, in     *)
(* PostgresLedger, the section is one transaction; every await outside     *)
(* the lock is an action of its own, so other handlers and the chain move  *)
(* between them.                                                           *)
(***************************************************************************)
EXTENDS Budget, SolanaTx, FiniteSets

CONSTANTS
    Workers,            \* request handlers running at the same time
    Approvals,          \* approval capability rows
    NoFlow, NoApproval, \* null
    Requests,           \* operations clients ask for: [kind, amount]
    ApprovalKinds,      \* kinds whose policy escalates to the owner
    MinDeposit,         \* minDepositAmountRaw + DEPOSIT_SHARE_ROUNDING_MARGIN_RAW
    YieldRounding,      \* YIELD_REALIZE_ROUNDING_RAW_USDC
    RealizeOverhead,    \* config.realizeOverheadRawUsdc
    Buffer,             \* safetyBufferRawUsdc
    PenaltyBps, PenaltyLamports, \* the vault's withdrawal penalty
    RedeemCapacity,     \* instantRedeemCapacityRawUsdc
    FlowFee,            \* what feeLamportsToUsdc returns for a flow's fee
    Registrations,      \* signer readiness a re-registration may bring
    InitialShares,      \* shares of a position established before
    InitialRate, MaxRate, \* bounds of the exchange rate
    Moves, MaxMoves,    \* external share movements, and how many (bound)
    MovesInFlight,      \* may shares move while a flow is prepared/submitted
    ReadsMayFail,       \* may the chain reads of a finalization fail
    Ledger,             \* "memory" or "postgres"
    MaxVersion,         \* bound on syncs, registrations and flags
    MaxCrashes          \* bound on abandoned handlers

Flows == Txs            \* one prepared message, so one transaction, per intent
Kinds == {"deposit", "normal", "yield_realize"}

ASSUME FlowAssumption ==
    /\ NoFlow \notin Txs
    /\ NoApproval \notin Approvals
    /\ Requests \subseteq [kind : Kinds, amount : Nat \ {0}]
    /\ ApprovalKinds \subseteq Kinds
    /\ {MinDeposit, YieldRounding, RealizeOverhead, Buffer, PenaltyBps,
        PenaltyLamports, RedeemCapacity, FlowFee, MaxRate, MaxMoves,
        MaxVersion, MaxCrashes} \subseteq Nat
    /\ PenaltyBps < FullBps
    /\ InitialShares \subseteq Nat
    /\ InitialRate \in 1 .. MaxRate
    /\ Moves \subseteq Int
    /\ Registrations \subseteq BOOLEAN
    /\ MovesInFlight \in BOOLEAN
    /\ ReadsMayFail \in BOOLEAN
    /\ Ledger \in {"memory", "postgres"}

VARIABLES
    position,   \* the WalletPosition row
    intent,     \* intent[f]: the DepositIntent / WithdrawalIntent rows
    approval,   \* approval[a]: the SpendingApproval rows
    receipts,   \* receipts[f]: "deposit_confirmed"/"withdrawal_confirmed" events
    chainShares, rate,  \* the wallet's shares and the vault's rate, on chain
    delta,      \* delta[f]: USDC the transaction moved, from its receipt
    principal,  \* history: value contributed by deposits and still invested
    refused,    \* history: a prepare was refused with needs_baseline_reset
    moves, crashes,     \* how often the environment has interfered
    pc,         \* pc[w]: the await a handler is at
    job,        \* job[w]: the intent it works on
    resubmit,   \* resubmit[w]: options.resubmit of reconcileFlow
    snap        \* snap[w]: what a chain sync has read so far

ledgerVars  == <<position, intent, approval, receipts, refused>>
chainVars   == <<tx, visible, window, chainShares, rate, delta, principal>>
handlerVars == <<pc, job, resubmit, snap>>
vars == <<ledgerVars, chainVars, handlerVars, moves, crashes>>

-----------------------------------------------------------------------------
(* Types.                                                                   *)

Terminal   == {"confirmed", "failed", "failed_not_submitted", "expired"}
FlowStatus == {"absent", "prepared", "submitted"} \cup Terminal

Intent ==
    [status : FlowStatus, kind : Kinds, amount : Nat, shares : Nat,
     approval : Approvals \cup {NoApproval},
     lapsed : BOOLEAN]                     \* expiresAt <= now

Position ==
    [status : {"active", "observed_only", "needs_baseline_reset"},
     ready : BOOLEAN,                      \* non-interactive, provider set
     shares : Nat, basis : Nat, feeDebt : Nat,
     established : BOOLEAN,                \* principalBasisSource # "empty"
     version : Nat]

Approval ==
    [status : {"none", "pending", "approved", "denied", "consumed", "expired"},
     kind : Kinds, amount : Nat,
     lapsed : BOOLEAN]                     \* expiresAtMs <= now

\* Await points of a handler.
Reconciling == {"lookup", "height", "final_lookup", "resend", "write_off"}
Sending     == {"simulate", "send", "wait", "confirm"}
Syncing     == {"sync_chain", "sync_apply"}
PCs == {"idle", "finalize"} \cup Reconciling \cup Sending \cup Syncing

NoCost == -1    \* no principalBasisRawUsdc in the sync input
Snapshot ==
    [version : Nat, shares : Nat, rate : Nat,
     force : BOOLEAN, cost : Nat \cup {NoCost},
     ledgerShares : Nat, ledgerBasis : Nat]
NoSnapshot ==
    [version |-> 0, shares |-> 0, rate |-> 0, force |-> FALSE, cost |-> NoCost,
     ledgerShares |-> 0, ledgerBasis |-> 0]

TypeOK ==
    /\ TxTypeOK
    /\ position \in Position
    /\ intent \in [Flows -> Intent]
    /\ approval \in [Approvals -> Approval]
    /\ receipts \in [Flows -> Nat]
    /\ chainShares \in Nat
    /\ rate \in Nat \ {0}
    /\ delta \in [Flows -> Nat]
    /\ principal \in Nat
    /\ refused \in BOOLEAN
    /\ moves \in Nat
    /\ crashes \in Nat
    /\ pc \in [Workers -> PCs]
    /\ job \in [Workers -> Flows \cup {NoFlow}]
    /\ resubmit \in [Workers -> BOOLEAN]
    /\ snap \in [Workers -> Snapshot]

-----------------------------------------------------------------------------
(* Reading the ledger.                                                      *)

\* assertNoPendingFlow: submitted, or prepared and not yet expired.
Pending(i) == i.status = "submitted" \/ (i.status = "prepared" /\ ~i.lapsed)
PendingFlows == {f \in Flows : Pending(intent[f])}

SubmittedFlows == {f \in Flows : intent[f].status = "submitted"}

\* Mutant: an outcome is applied without re-reading the intent under the lock.
OutcomeUnchecked(f) == TRUE

\* The status re-check every outcome is applied under.
StillSubmitted(f) == intent[f].status = "submitted"

\* expireStaleFlows.
ExpireStale(is) ==
    [f \in Flows |-> IF is[f].status = "prepared" /\ is[f].lapsed
                       THEN [is[f] EXCEPT !.status = "expired"]
                       ELSE is[f]]

\* The ledger baseline equals the shares on chain.
SharesMatch == chainShares = position.shares

\* requireOperationApproval accepts the approval the client provides.
ApprovalUsable(a, kind, amount) ==
    /\ approval[a].status = "approved"
    /\ ~approval[a].lapsed
    /\ approval[a].kind = kind
    /\ approval[a].amount = amount
    /\ \A f \in PendingFlows : intent[f].approval # a

\* The approvals an operation can be prepared with.
Authorizations(kind, amount) ==
    IF kind \in ApprovalKinds
      THEN {a \in Approvals : ApprovalUsable(a, kind, amount)}
      ELSE {NoApproval}

-----------------------------------------------------------------------------
(* Amounts.                                                                 *)

ChainValue == ComputePositionValue(chainShares, rate)

GrossWithdraw(kind, amount) ==
    GrossWithdrawForNetTarget(
        amount + (IF kind = "yield_realize" THEN YieldRounding ELSE 0),
        PenaltyBps, PenaltyLamports)

\* The position evaluatePaymentBudget sees: ledger accounting, chain shares
\* and rate.  Nothing is reserved: prepared payments refuse the flow.
BudgetPosition ==
    [shares |-> chainShares, rate |-> rate, basis |-> position.basis,
     reserved |-> 0, feeDebt |-> position.feeDebt, buffer |-> Buffer,
     capacity |-> RedeemCapacity]

\* Mutant: a realization is bounded by the vault's capacity only.
AmountAllowedByCapacity(kind, amount) ==
    IF kind = "deposit" THEN amount >= MinDeposit
    ELSE GrossWithdraw(kind, amount) <= RedeemCapacity

\* The guards on the amount of an operation.
AmountAllowed(kind, amount) ==
    IF kind = "deposit" THEN amount >= MinDeposit
    ELSE LET gross == GrossWithdraw(kind, amount)
         IN  /\ gross <= RedeemCapacity
             /\ kind = "yield_realize" =>
                    EvaluatePaymentBudget(BudgetPosition, gross,
                                          RealizeOverhead, 0) = "ok"

\* The shares the transaction is built to redeem.
RequestedShares(kind, amount) ==
    IF kind = "deposit" THEN 0
    ELSE MinBigInt(SharesToRedeem(GrossWithdraw(kind, amount), rate),
                   chainShares)

-----------------------------------------------------------------------------
(* Prepare (prepareDeposit, prepareWithdrawal), under the lock.             *)

\* Mutant: prepare does not assert that no flow is pending.
PrepareAnyway(f) ==
    /\ intent[f].status = "absent"
    /\ position.ready

\* What both prepares check before they look at the chain.
MayPrepare(f) ==
    /\ intent[f].status = "absent"
    /\ position.ready
    /\ PendingFlows = {}

Prepare(f) ==
    /\ MayPrepare(f)
    /\ SharesMatch
    /\ \E r \in Requests :
         /\ AmountAllowed(r.kind, r.amount)
         /\ \E a \in Authorizations(r.kind, r.amount) :
              intent' = [ExpireStale(intent) EXCEPT ![f] =
                           [status |-> "prepared", kind |-> r.kind,
                            amount |-> r.amount,
                            shares |-> RequestedShares(r.kind, r.amount),
                            approval |-> a, lapsed |-> FALSE]]
    /\ UNCHANGED <<position, approval, receipts, refused, chainVars,
                   handlerVars, moves, crashes>>

(***************************************************************************)
(* The chain disagrees with the ledger: the position is flagged and the    *)
(* call throws conflict("needs_baseline_reset").  InMemoryLedger keeps     *)
(* what was saved; PostgresLedger rolls the transaction back, because only *)
(* ApprovalRequiredError commits.                                          *)
(***************************************************************************)
SavedDespiteThrow == Ledger = "memory"

RefusePrepare(f) ==
    /\ MayPrepare(f)
    /\ ~SharesMatch
    /\ position.version < MaxVersion
    /\ \E r \in Requests :
         /\ Authorizations(r.kind, r.amount) # {}
         /\ r.kind = "deposit" => r.amount >= MinDeposit
    /\ refused' = TRUE
    /\ IF SavedDespiteThrow
         THEN /\ intent' = ExpireStale(intent)
              /\ position' = [position EXCEPT !.status = "needs_baseline_reset",
                                             !.version = @ + 1]
         ELSE UNCHANGED <<intent, position>>
    /\ UNCHANGED <<approval, receipts, chainVars, handlerVars, moves, crashes>>

\* expireIfStale, on the approval the client provides.
ExpireIfStale(as, a) ==
    IF a # NoApproval /\ as[a].lapsed /\ as[a].status \in {"pending", "approved"}
      THEN [as EXCEPT ![a].status = "expired"]
      ELSE as

\* findReusablePending.
ReusablePending(r) ==
    {a \in Approvals : /\ approval[a].status = "pending"
                       /\ ~approval[a].lapsed
                       /\ approval[a].kind = r.kind
                       /\ approval[a].amount = r.amount}

(***************************************************************************)
(* requireOperationApproval without a usable approval: the row the owner   *)
(* is asked to decide is created in slot a, or the pending one is reused,  *)
(* and ApprovalRequiredError is thrown, which both ledgers keep.           *)
(***************************************************************************)
RequestApproval(a) ==
    /\ approval[a].status = "none"
    /\ position.ready
    /\ PendingFlows = {}
    /\ \E r \in Requests, provided \in Approvals \cup {NoApproval} :
         /\ r.kind \in ApprovalKinds
         /\ provided # NoApproval =>
                ~ApprovalUsable(provided, r.kind, r.amount)
         /\ approval' =
              IF ReusablePending(r) # {} THEN ExpireIfStale(approval, provided)
              ELSE [ExpireIfStale(approval, provided) EXCEPT ![a] =
                      [status |-> "pending", kind |-> r.kind,
                       amount |-> r.amount, lapsed |-> FALSE]]
    /\ intent' = ExpireStale(intent)
    /\ UNCHANGED <<position, receipts, refused, chainVars, handlerVars,
                   moves, crashes>>

\* decideApproval: the owner's signed decision, under the lock.  On a lapsed
\* approval it saves the expiry and throws.
DecideApproval(a) ==
    /\ approval[a].status = "pending"
    /\ \/ /\ ~approval[a].lapsed
          /\ \E d \in {"approved", "denied"} :
                approval' = [approval EXCEPT ![a].status = d]
       \/ /\ approval[a].lapsed
          /\ SavedDespiteThrow
          /\ approval' = [approval EXCEPT ![a].status = "expired"]
    /\ UNCHANGED <<position, intent, receipts, refused, chainVars,
                   handlerVars, moves, crashes>>

-----------------------------------------------------------------------------
(* Submit and status requests.                                              *)

Goto(w, label) == pc' = [pc EXCEPT ![w] = label]

\* The handler replies (or fails); its locals are dropped.
Done(w) ==
    /\ pc' = [pc EXCEPT ![w] = "idle"]
    /\ job' = [job EXCEPT ![w] = NoFlow]
    /\ resubmit' = [resubmit EXCEPT ![w] = FALSE]
    /\ snap' = [snap EXCEPT ![w] = NoSnapshot]

\* assertPreparedAuthorization.
StillAuthorized(i) ==
    i.approval # NoApproval => /\ approval[i.approval].status = "approved"
                               /\ ~approval[i.approval].lapsed

\* submitDeposit / submitWithdrawal on a prepared intent: sponsor signature,
\* transaction bytes and signature are saved before anything is sent.
Submit(w, f) ==
    /\ pc[w] = "idle"
    /\ intent[f].status = "prepared"
    /\ ~intent[f].lapsed
    /\ StillAuthorized(intent[f])
    /\ intent' = [intent EXCEPT ![f].status = "submitted"]
    /\ Goto(w, "simulate")
    /\ job' = [job EXCEPT ![w] = f]
    /\ resubmit' = [resubmit EXCEPT ![w] = FALSE]
    /\ UNCHANGED <<position, approval, receipts, refused, chainVars,
                   snap, moves, crashes>>

\* A second submit of the same intent, or getDeposit / getWithdrawal: the
\* submitted intent is reconciled, with or without rebroadcasting.
Status(w, f) ==
    /\ pc[w] = "idle"
    /\ intent[f].status = "submitted"
    /\ Goto(w, "lookup")
    /\ job' = [job EXCEPT ![w] = f]
    /\ \E option \in BOOLEAN : resubmit' = [resubmit EXCEPT ![w] = option]
    /\ UNCHANGED <<ledgerVars, chainVars, snap, moves, crashes>>

\* A submit or a status request finds the prepared intent expired.
Expire(f) ==
    /\ intent[f].status = "prepared"
    /\ intent[f].lapsed
    /\ intent' = [intent EXCEPT ![f].status = "expired"]
    /\ UNCHANGED <<position, approval, receipts, refused, chainVars,
                   handlerVars, moves, crashes>>

-----------------------------------------------------------------------------
(* sendAndConfirmFlow.                                                      *)

\* A step of a handler outside the lock that only chooses where to go next.
Continue(w, label) ==
    /\ Goto(w, label)
    /\ UNCHANGED <<ledgerVars, chainVars, job, resubmit, snap, moves, crashes>>

Abandon(w) ==
    /\ Done(w)
    /\ UNCHANGED <<ledgerVars, chainVars, moves, crashes>>

\* A simulation may fail for any reason, a transaction that has already
\* landed included; it then decides nothing.
Simulate(w) ==
    /\ pc[w] = "simulate"
    /\ \/ Continue(w, "send")
       \/ Continue(w, "lookup")

\* The send may fail after the node took the bytes.
Send(w) ==
    /\ pc[w] = "send"
    /\ \/ /\ Broadcast(job[w])
          /\ \/ Goto(w, "wait") /\ UNCHANGED <<job, resubmit, snap>>
             \/ Done(w)
       \/ UNCHANGED tx /\ Done(w)
    /\ UNCHANGED <<ledgerVars, visible, window, chainShares, rate, delta,
                   principal, moves, crashes>>

\* waitForConfirmation: "confirmed" (a signature status may precede the
\* receipt), "expired" or, at any moment, "timeout".
Wait(w) ==
    /\ pc[w] = "wait"
    /\ \/ OnChain(job[w]) /\ Continue(w, "confirm")
       \/ ~Found(job[w]) /\ HeightPastMargin(job[w]) /\ Continue(w, "lookup")
       \/ Abandon(w)

\* lookupConfirmedFlow after a confirmation.
Confirm(w) ==
    /\ pc[w] = "confirm"
    /\ IF Found(job[w]) THEN Continue(w, "finalize") ELSE Abandon(w)

-----------------------------------------------------------------------------
(* reconcileFlow.                                                           *)

Lookup(w) ==
    /\ pc[w] = "lookup"
    /\ Continue(w, IF Found(job[w]) THEN "finalize" ELSE "height")

\* Mutant: the write-off trusts the lookup made before the expiry was seen.
CheckHeightThenWriteOff(w) ==
    /\ pc[w] = "height"
    /\ IF HeightPastMargin(job[w]) THEN Continue(w, "write_off")
       ELSE IF resubmit[w] THEN Continue(w, "resend")
       ELSE Abandon(w)

\* Mutant: a transaction that is not found stays pending for ever.
CheckHeightKeepsPending(w) ==
    /\ pc[w] = "height"
    /\ IF resubmit[w] THEN Continue(w, "resend") ELSE Abandon(w)

CheckHeight(w) ==
    /\ pc[w] = "height"
    /\ IF HeightPastMargin(job[w]) THEN Continue(w, "final_lookup")
       ELSE IF resubmit[w] THEN Continue(w, "resend")
       ELSE Abandon(w)

\* Only a lookup made after the expiry was observed proves the absence.
FinalLookup(w) ==
    /\ pc[w] = "final_lookup"
    /\ Continue(w, IF Found(job[w]) THEN "finalize" ELSE "write_off")

\* Best-effort resend of the stored bytes.
Resend(w) ==
    /\ pc[w] = "resend"
    /\ Broadcast(job[w]) \/ UNCHANGED tx
    /\ Done(w)
    /\ UNCHANGED <<ledgerVars, visible, window, chainShares, rate, delta,
                   principal, moves, crashes>>

\* applyDepositOutcome / applyWithdrawalOutcome on "not_submitted".
WriteOff(w) ==
    /\ pc[w] = "write_off"
    /\ intent' = IF StillSubmitted(job[w])
                   THEN [intent EXCEPT ![job[w]].status = "failed_not_submitted"]
                   ELSE intent
    /\ Done(w)
    /\ UNCHANGED <<position, approval, receipts, refused, chainVars,
                   moves, crashes>>

-----------------------------------------------------------------------------
(* finalizeDepositFromChain / finalizeWithdrawalFromChain, under the lock.  *)

\* applyFlowFeeDebt; the conversion of lamports may fail, and is then skipped.
ChargeFee(p, charged) ==
    IF charged
      THEN [p EXCEPT !.feeDebt = @ + FlowFee, !.version = @ + 1]
      ELSE p

\* Mutant: a deposit's receipt is not added to the basis.
BasisAfterIgnoringReceipt(f) == MinBigInt(position.basis, ChainValue)

\* Principal basis once the chain has proved what the flow moved.
BasisAfter(f) ==
    IF intent[f].kind = "deposit" THEN position.basis + delta[f]
    ELSE MinBigInt(position.basis, ChainValue)

\* Mutant: the approval of a landed flow is not consumed.
ConsumeNothing(as, a) == as

\* consumeApproval.
Consume(as, a) ==
    IF a # NoApproval /\ as[a].status = "approved"
      THEN [as EXCEPT ![a].status = "consumed"]
      ELSE as

\* Someone else finalized the intent first.
FinalizeLate(w) ==
    /\ pc[w] = "finalize"
    /\ ~StillSubmitted(job[w])
    /\ Abandon(w)

\* The transaction landed with an error: only its fee is charged.
FinalizeReverted(w) ==
    /\ pc[w] = "finalize"
    /\ StillSubmitted(job[w])
    /\ tx[job[w]] = "reverted"
    /\ \E charged \in BOOLEAN : position' = ChargeFee(position, charged)
    /\ intent' = [intent EXCEPT ![job[w]].status = "failed"]
    /\ Done(w)
    /\ UNCHANGED <<approval, receipts, refused, chainVars, moves, crashes>>

\* refreshPositionFromChain failed, or the receipt shows no movement: the
\* position is flagged and the intent ends as *_classification_failed.
FinalizeUnclassified(w) ==
    /\ pc[w] = "finalize"
    /\ StillSubmitted(job[w])
    /\ tx[job[w]] = "landed"
    /\ ReadsMayFail \/ delta[job[w]] = 0
    /\ position' = [position EXCEPT !.status = "needs_baseline_reset",
                                   !.version = @ + 1]
    /\ intent' = [intent EXCEPT ![job[w]].status = "failed"]
    /\ Done(w)
    /\ UNCHANGED <<approval, receipts, refused, chainVars, moves, crashes>>

\* The movement is booked: shares from the chain, basis from the receipt.
FinalizeReceipt(w) ==
    LET f == job[w]
        booked == [position EXCEPT !.shares = chainShares,
                                   !.basis = BasisAfter(f),
                                   !.established = TRUE,
                                   !.version = @ + 1]
    IN  /\ pc[w] = "finalize"
        /\ StillSubmitted(f)
        /\ tx[f] = "landed"
        /\ delta[f] > 0
        /\ \E charged \in BOOLEAN : position' = ChargeFee(booked, charged)
        /\ receipts' = [receipts EXCEPT ![f] = @ + 1]
        /\ intent' = [intent EXCEPT ![f].status = "confirmed"]
        /\ approval' = Consume(approval, intent[f].approval)
        /\ Done(w)
        /\ UNCHANGED <<refused, chainVars, moves, crashes>>

-----------------------------------------------------------------------------
(* syncFromChain and syncWalletPosition.                                    *)

\* The ledger revision is captured before any remote read.
SyncStart(w) ==
    /\ pc[w] = "idle"
    /\ position.version < MaxVersion
    /\ \E force \in BOOLEAN :
         snap' = [snap EXCEPT ![w] =
                    [NoSnapshot EXCEPT !.version = position.version,
                                       !.force = force,
                                       !.ledgerShares = position.shares,
                                       !.ledgerBasis = position.basis]]
    /\ Goto(w, "sync_chain")
    /\ UNCHANGED <<ledgerVars, chainVars, job, resubmit, moves, crashes>>

\* Cost bases the Kamino P&L API may report: none, a partial one, all of it.
PnlReports == {NoCost, 0, ChainValue}

\* What syncFromChain asks of syncWalletPosition, given the report.
SyncInput(s, pnl) ==
    LET moved == chainShares # s.ledgerShares
        added == chainShares - s.ledgerShares
        cost  == IF ~s.force /\ added > 0 /\ pnl # NoCost
                   THEN MaxBigInt(pnl, s.ledgerBasis
                                         + MulDivCeil(added, rate, RateScale))
                   ELSE NoCost
    IN  [version |-> s.version, shares |-> chainShares, rate |-> rate,
         force |-> s.force \/ (moved /\ cost = NoCost), cost |-> cost,
         ledgerShares |-> s.ledgerShares, ledgerBasis |-> s.ledgerBasis]

SyncChain(w) ==
    /\ pc[w] = "sync_chain"
    /\ \E pnl \in PnlReports :
         snap' = [snap EXCEPT ![w] = SyncInput(snap[w], pnl)]
    /\ Goto(w, "sync_apply")
    /\ UNCHANGED <<ledgerVars, chainVars, job, resubmit, moves, crashes>>

\* Mutant: a sync does not wait for the receipts of submitted flows.
SyncRefusedOnVersionOnly(s) == s.version # position.version

\* syncWalletPosition refuses a snapshot the ledger has moved past, and any
\* snapshot while a submitted flow awaits its receipt.
SyncRefused(s) ==
    \/ s.version # position.version
    \/ SubmittedFlows # {}

\* The conservative reset: the whole position becomes principal.
RunConservativeReset(s) ==
    \/ s.force
    \/ (position.established \/ position.shares > 0) /\ s.shares < position.shares
    \/ s.shares > position.shares /\ s.cost = NoCost

\* Mutant: an unestablished position takes the missing cost basis as it is.
SyncedBasisUnchecked(s) ==
    IF RunConservativeReset(s) THEN ComputePositionValue(s.shares, s.rate)
    ELSE IF position.established THEN position.basis ELSE s.cost

\* Mutant: a conservative reset keeps the old basis.
SyncedBasisKeptOnReset(s) ==
    IF RunConservativeReset(s) \/ s.cost = NoCost THEN position.basis
    ELSE MaxBigInt(position.basis, s.cost)

\* nextPrincipalBasisRawUsdc.
SyncedBasis(s) ==
    LET value == ComputePositionValue(s.shares, s.rate)
        floor == IF (position.established \/ position.shares > 0)
                      /\ s.shares > position.shares
                   THEN position.basis
                          + MulDivCeil(s.shares - position.shares, s.rate,
                                       RateScale)
                   ELSE position.basis
    IN  IF RunConservativeReset(s) THEN value
        ELSE IF s.cost = NoCost
          THEN IF position.established THEN position.basis ELSE value
        ELSE MaxBigInt(MaxBigInt(position.basis, s.cost), floor)

SyncApply(w) ==
    LET s == snap[w]
    IN  /\ pc[w] = "sync_apply"
        /\ IF SyncRefused(s) THEN UNCHANGED <<position, refused>>
           ELSE /\ position' =
                     [position EXCEPT
                        !.shares = s.shares,
                        !.basis = SyncedBasis(s),
                        !.established = TRUE,
                        !.status = IF ~RunConservativeReset(s) THEN @
                                   ELSE IF position.ready THEN "active"
                                   ELSE "observed_only",
                        !.version = @ + 1]
                /\ refused' = (refused /\ ~RunConservativeReset(s))
        /\ Done(w)
        /\ UNCHANGED <<intent, approval, receipts, chainVars, moves, crashes>>

\* Mutant: a registration clears the baseline-reset flag.
RegisterClearsFlag ==
    /\ position.version < MaxVersion
    /\ \E ready \in Registrations :
         position' = [position EXCEPT
            !.ready = ready,
            !.status = IF ready THEN "active" ELSE "observed_only",
            !.version = @ + 1]
    /\ UNCHANGED <<intent, approval, receipts, refused, chainVars,
                   handlerVars, moves, crashes>>

\* registerAgentWallet on an existing position, under the lock.  An activation
\* without a signer provider throws before anything is saved and is no step.
Register ==
    /\ position.version < MaxVersion
    /\ \E ready \in Registrations, activate \in BOOLEAN :
         position' = [position EXCEPT
            !.ready = ready,
            !.status = IF @ = "needs_baseline_reset" THEN @
                       ELSE IF ~ready THEN "observed_only"
                       ELSE IF @ = "observed_only" /\ activate THEN "active"
                       ELSE @,
            !.version = @ + 1]
    /\ UNCHANGED <<intent, approval, receipts, refused, chainVars,
                   handlerVars, moves, crashes>>

-----------------------------------------------------------------------------
(* The chain, the clock and failures.                                       *)

\* Shares the vault program mints for a deposit, and the USDC it then takes:
\* whole shares only, so the effective deposit is at most the amount.
MintedShares(amount) == MulDivFloor(amount, RateScale, rate)

\* The intent's transaction executes.
Land(f) ==
    LET i       == intent[f]
        deposit == i.kind = "deposit"
        minted  == MintedShares(i.amount)
        after   == IF deposit THEN chainShares + minted ELSE chainShares - i.shares
        value   == ComputePositionValue(after, rate)
        gross   == ComputePositionValue(i.shares, rate)
    IN  /\ IF deposit THEN minted > 0 ELSE i.shares <= chainShares
        /\ Include(f, "landed")
        /\ chainShares' = after
        /\ delta' = [delta EXCEPT ![f] =
                       IF deposit THEN MulDivCeil(minted, rate, RateScale)
                       ELSE ClampToZero(NetOf(gross, PenaltyBps, PenaltyLamports))]
        /\ principal' =
             CASE deposit -> principal + ComputePositionValue(minted, rate)
               [] i.kind = "normal" -> MinBigInt(principal, value)
               [] i.kind = "yield_realize" -> principal
        /\ UNCHANGED <<ledgerVars, rate, handlerVars, moves, crashes>>

\* It is included and fails: nothing moves but the sponsor's fee.
Revert(f) ==
    /\ Include(f, "reverted")
    /\ UNCHANGED <<ledgerVars, chainShares, rate, delta, principal,
                   handlerVars, moves, crashes>>

\* Intents whose transaction somebody still asks the chain about.
Watched == {f \in Flows : \/ intent[f].status \in {"prepared", "submitted"}
                          \/ \E w \in Workers : job[w] = f}

\* Blocks go by.
Block(f) ==
    /\ f \in Watched
    /\ Index(f) \/ CloseWindow(f) \/ PassMargin(f)
    /\ UNCHANGED <<ledgerVars, chainShares, rate, delta, principal,
                   handlerVars, moves, crashes>>

\* The vault earns yield.
Accrue ==
    /\ rate < MaxRate
    /\ rate' = rate + 1
    /\ UNCHANGED <<ledgerVars, txVars, chainShares, delta, principal,
                   handlerVars, moves, crashes>>

\* The wallet's shares move without the relayer: what arrives is principal,
\* what leaves is taken from the yield first.
ExternalMove(d) ==
    LET after == chainShares + d
    IN  /\ moves < MaxMoves
        /\ after >= 0
        /\ MovesInFlight \/
             \A f \in Flows : intent[f].status \notin {"prepared", "submitted"}
        /\ chainShares' = after
        /\ principal' = IF d >= 0
                          THEN principal + ComputePositionValue(d, rate)
                          ELSE MinBigInt(principal,
                                         ComputePositionValue(after, rate))
        /\ moves' = moves + 1
        /\ UNCHANGED <<ledgerVars, txVars, rate, delta, handlerVars, crashes>>

\* expiresAt of a prepared intent passes.
Lapse(f) ==
    /\ intent[f].status = "prepared"
    /\ ~intent[f].lapsed
    /\ intent' = [intent EXCEPT ![f].lapsed = TRUE]
    /\ UNCHANGED <<position, approval, receipts, refused, chainVars,
                   handlerVars, moves, crashes>>

\* expiresAtMs of an approval passes.
LapseApproval(a) ==
    /\ approval[a].status \in {"pending", "approved"}
    /\ ~approval[a].lapsed
    /\ approval' = [approval EXCEPT ![a].lapsed = TRUE]
    /\ UNCHANGED <<position, intent, receipts, refused, chainVars,
                   handlerVars, moves, crashes>>

\* The process dies, or an RPC call outside the lock throws: the handler is
\* gone, the ledger keeps what was committed.
Crash(w) ==
    /\ pc[w] # "idle"
    /\ crashes < MaxCrashes
    /\ crashes' = crashes + 1
    /\ Done(w)
    /\ UNCHANGED <<ledgerVars, chainVars, moves>>

-----------------------------------------------------------------------------
Init ==
    /\ TxInit
    /\ rate = InitialRate
    /\ chainShares \in InitialShares
    /\ principal = ComputePositionValue(chainShares, rate)
    /\ position = [status |-> "active", ready |-> TRUE, shares |-> chainShares,
                   basis |-> principal, feeDebt |-> 0,
                   established |-> chainShares > 0, version |-> 1]
    /\ intent = [f \in Flows |->
                   [status |-> "absent", kind |-> "deposit", amount |-> 0,
                    shares |-> 0, approval |-> NoApproval, lapsed |-> FALSE]]
    /\ approval = [a \in Approvals |->
                     [status |-> "none", kind |-> "deposit", amount |-> 0,
                      lapsed |-> FALSE]]
    /\ receipts = [f \in Flows |-> 0]
    /\ delta = [f \in Flows |-> 0]
    /\ refused = FALSE
    /\ moves = 0
    /\ crashes = 0
    /\ pc = [w \in Workers |-> "idle"]
    /\ job = [w \in Workers |-> NoFlow]
    /\ resubmit = [w \in Workers |-> FALSE]
    /\ snap = [w \in Workers |-> NoSnapshot]

\* The awaits of a handler that is under way.
Step(w) ==
    \/ Simulate(w) \/ Send(w) \/ Wait(w) \/ Confirm(w)
    \/ Lookup(w) \/ CheckHeight(w) \/ FinalLookup(w) \/ Resend(w) \/ WriteOff(w)
    \/ FinalizeLate(w) \/ FinalizeReverted(w)
    \/ FinalizeUnclassified(w) \/ FinalizeReceipt(w)
    \/ SyncChain(w) \/ SyncApply(w)

Next ==
    \/ \E f \in Flows : Prepare(f) \/ RefusePrepare(f) \/ Expire(f)
    \/ \E a \in Approvals : RequestApproval(a) \/ DecideApproval(a)
    \/ \E w \in Workers, f \in Flows : Submit(w, f) \/ Status(w, f)
    \/ \E w \in Workers : Step(w) \/ SyncStart(w) \/ Crash(w)
    \/ \E f \in Flows : Land(f) \/ Revert(f) \/ Block(f) \/ Lapse(f)
    \/ \E a \in Approvals : LapseApproval(a)
    \/ \E d \in Moves : ExternalMove(d)
    \/ Register \/ Accrue

Spec == Init /\ [][Next]_vars

(***************************************************************************)
(* Fairness: promises settle, so a handler that is under way takes its     *)
(* next step; the chain produces blocks; and the client polls the status   *)
(* of a submitted intent.  Nothing in the server retries a flow by itself. *)
(* The poll is strongly fair because the number of handlers is bounded in  *)
(* the model and not in the server: a busy pool must not starve it.        *)
(***************************************************************************)
Fairness ==
    /\ \A w \in Workers : WF_vars(Step(w))
    /\ \A f \in Flows : /\ WF_vars(Block(f))
                        /\ SF_vars(\E w \in Workers : Status(w, f))

FairSpec == Spec /\ Fairness

-----------------------------------------------------------------------------
(* Safety.                                                                  *)

(***************************************************************************)
(* At most one deposit or withdrawal of the position is pending, whatever  *)
(* prepares, submits and expiries interleave: the confirmed deltas of a    *)
(* flow are attributed to the ledger baseline, so two must never overlap.  *)
(***************************************************************************)
OneInFlight == Cardinality(PendingFlows) <= 1

(***************************************************************************)
(* A transaction that is on chain, or still will be, is never recorded as  *)
(* failed_not_submitted: reconcileFlow writes off only after a lookup made *)
(* past the blockhash margin.  The client would otherwise repeat the       *)
(* operation and move the money twice.                                     *)
(***************************************************************************)
LandedNeverWrittenOff ==
    \A f \in Flows : intent[f].status = "failed_not_submitted" => ~OnChain(f)

(***************************************************************************)
(* Only a transaction that executed is booked, and it is booked once, no   *)
(* matter how many submit and status handlers saw it confirmed.            *)
(***************************************************************************)
BookedOnce ==
    \A f \in Flows :
        /\ receipts[f] = (IF intent[f].status = "confirmed" THEN 1 ELSE 0)
        /\ receipts[f] > 0 => tx[f] = "landed"

\* No flow awaits its receipt and the ledger shows the shares on chain: the
\* states in which a spendable yield may be computed.
Settled == SubmittedFlows = {} /\ SharesMatch

(***************************************************************************)
(* Unknown value is never treated as yield: in a settled state the basis   *)
(* covers all the principal that is invested, so the yield computed from   *)
(* it was really earned (syncFromChain, syncWalletPosition and the two     *)
(* finalizations each keep their part of this).                            *)
(***************************************************************************)
PrincipalCovered == Settled => position.basis >= principal

(***************************************************************************)
(* No movement is counted twice: in a settled state the basis exceeds the  *)
(* position's value by at most one unit of dust for each flow and each     *)
(* movement outside Subly, what is lost when a cost is rounded up to whole *)
(* units.  A sync that booked the shares of a deposit whose receipt is     *)
(* still to come would break it.                                           *)
(***************************************************************************)
NoPhantomPrincipal ==
    Settled => position.basis <=
                 ChainValue + Cardinality({f \in Flows : delta[f] > 0}) + moves

(***************************************************************************)
(* The deposited principal is never spent: every execution of a            *)
(* yield_realize transaction leaves at least the principal in the vault,   *)
(* although its budget was checked when it was prepared and the shares it  *)
(* burns are rounded up.                                                   *)
(***************************************************************************)
PrincipalNeverSpent == ChainValue >= principal

(***************************************************************************)
(* An owner approval authorizes one executed operation.                    *)
(***************************************************************************)
ApprovalSingleUse ==
    \A a \in Approvals :
        Cardinality({f \in Flows : intent[f].approval = a /\ tx[f] = "landed"}) <= 1

(***************************************************************************)
(* After a prepare was refused because the shares moved, the position      *)
(* stays flagged until a conservative reset.                               *)
(***************************************************************************)
RefusalIsRecorded == refused => position.status = "needs_baseline_reset"

(***************************************************************************)
(* The inductive invariant behind the control properties: what a handler   *)
(* knows about its intent's transaction at each await, what the ledger's   *)
(* statuses say about the chain, and that pending intents are unique.      *)
(***************************************************************************)
HasJob ==
    \A w \in Workers :
        pc[w] \in {"finalize"} \cup Reconciling \cup Sending => job[w] \in Flows

HandlerKnows ==
    \A w \in Workers :
        /\ pc[w] = "finalize" => visible[job[w]]
        /\ pc[w] = "final_lookup" => window[job[w]] = "expired"
        /\ pc[w] = "write_off" => window[job[w]] = "expired" /\ ~OnChain(job[w])

StatusSays ==
    \A f \in Flows :
        /\ visible[f] => OnChain(f)
        /\ window[f] = "expired" /\ OnChain(f) => visible[f]
        /\ intent[f].status = "failed_not_submitted" =>
              window[f] = "expired" /\ ~OnChain(f)
        /\ intent[f].status \in {"confirmed", "failed"} => OnChain(f)

PendingUnique ==
    \A f, g \in Flows : Pending(intent[f]) /\ Pending(intent[g]) => f = g

ControlInv ==
    HasJob /\ HandlerKnows /\ StatusSays /\ PendingUnique /\ BookedOnce

-----------------------------------------------------------------------------
(* What a step may never do.                                                *)

(***************************************************************************)
(* A terminal intent never changes: late handlers that still hold an       *)
(* outcome for it leave the ledger alone.                                  *)
(***************************************************************************)
TerminalIsFinal ==
    [][\A f \in Flows : intent[f].status \in Terminal => intent'[f] = intent[f]]_vars

-----------------------------------------------------------------------------
(* The contract with the callers.                                           *)

\* A prepared intent that has lapsed can only expire.
ReportedStatus(i) ==
    IF i.status = "prepared" /\ i.lapsed THEN "expired" ELSE i.status

ExecutedEffect(t) ==
    CASE t = "landed" -> "moved" [] t = "reverted" -> "reverted" [] OTHER -> "none"

Contract == INSTANCE FlowContract
              WITH flow   <- [f \in Flows |-> ReportedStatus(intent[f])],
                   effect <- [f \in Flows |-> ExecutedEffect(tx[f])]

(***************************************************************************)
(* Whatever handlers, crashes, lost sends and late lookups do, callers see *)
(* the simple life of FlowContract: one open intent, executed at most once *)
(* and only after it was submitted, and a final status that tells the      *)
(* truth about the chain.                                                  *)
(***************************************************************************)
ImplementsContract == Contract!ContractSpec

-----------------------------------------------------------------------------
(* Liveness.                                                                *)

(***************************************************************************)
(* A submitted intent always reaches a terminal status, so the position is *)
(* never locked for good: whatever is lost or crashes, the lookup past the *)
(* blockhash margin decides.                                               *)
(***************************************************************************)
SubmittedResolves ==
    \A f \in Flows :
        intent[f].status = "submitted" ~> intent[f].status \in Terminal
=============================================================================
