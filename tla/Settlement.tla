----------------------------- MODULE Settlement -----------------------------
(***************************************************************************)
(* x402 payments of one wallet settled straight out of its vault position  *)
(* (src/domain/payment-service.ts, src/domain/position-maintenance.ts and  *)
(* src/domain/kamino-settlement-submitter.ts).  A payment is prepared      *)
(* against the spendable yield and reserves it; its settlement transaction *)
(* redeems shares and pays the seller; the seller's retries of /settle and *)
(* the operator's recovery run finish what a handler left behind.          *)
(*                                                                         *)
(* As in VaultFlow, a section under the wallet-vault lock is one action    *)
(* and every await outside it another.  A payload that does not verify     *)
(* changes nothing and is left out.                                        *)
(***************************************************************************)
EXTENDS Budget, SolanaTx, FiniteSets, FiniteSetsExt

CONSTANTS
    Workers,            \* handlers of /settle and of the recovery run
    NoPayment, NoRequest, \* null
    SellerRequests,     \* (seller, sellerRequestId)
    PaymentAmount,      \* amountRawUsdc of every request
    PayPenaltyBps, PayPenaltyLamports,
    FeeEstimate,        \* estimatedFeeDebtRawUsdc
    Fees,               \* what the landed fee may be converted to
    ShareMargin,        \* SHARES_TO_REDEEM_MARGIN
    SafetyBuffer, Capacity,
    StartShares, StartBasis, StartRate, LastRate,
    Exits,              \* bound: shares withdrawn outside Subly
    PromptReads,        \* the two reads of a reconciliation are close together
    KeepsOnThrow,       \* InMemoryLedger (TRUE) or PostgresLedger (FALSE)
    LastVersion,        \* bound on syncs and refusals
    MaxFaults           \* bound on crashes and failed RPC calls

Payments == Txs         \* one settlement transaction per payment

ASSUME SettlementAssumption ==
    /\ NoPayment \notin Txs /\ IsFiniteSet(Txs)
    /\ NoRequest \notin SellerRequests
    /\ {PaymentAmount, PayPenaltyBps, PayPenaltyLamports, FeeEstimate,
        ShareMargin, SafetyBuffer, Capacity, StartShares, StartBasis, LastRate,
        Exits, LastVersion, MaxFaults} \subseteq Nat
    /\ PaymentAmount > 0
    /\ PayPenaltyBps < FullBps
    /\ Fees \subseteq Nat
    /\ StartRate \in 1 .. LastRate
    /\ StartBasis <= ComputePositionValue(StartShares, StartRate)
    /\ PromptReads \in BOOLEAN
    /\ KeepsOnThrow \in BOOLEAN

VARIABLES
    wallet,     \* the WalletPosition row
    payment,    \* payment[p]: the PaymentIntent rows
    held, now,  \* the wallet's shares and the vault's rate, on chain
    exits, faults,
    at,         \* at[w]: the await a handler is at
    on,         \* on[w]: the payment it works on
    outcome,    \* outcome[w]: the SettlementSubmissionResult it carries
    seen        \* seen[w]: what a chain sync has read

rows    == <<wallet, payment>>
chain   == <<tx, visible, window, held, now>>
locals  == <<at, on, outcome, seen>>
allVars == <<rows, chain, locals, exits, faults>>

-----------------------------------------------------------------------------
(* Types.                                                                   *)

FailedStatuses == {"expired", "failed", "failed_not_submitted"}
TerminalStatuses == FailedStatuses \cup {"settled"}
LiveStatuses == {"prepared", "submission_prepared", "submitted"}

PaymentIntent ==
    [status : {"absent"} \cup LiveStatuses \cup TerminalStatuses,
     request : SellerRequests \cup {NoRequest},
     withdraw : Nat,        \* requiredWithdrawRawUsdc
     reservation : Nat, shares : Nat,
     lapsed : BOOLEAN]      \* expiresAt <= now

WalletRow ==
    [status : {"active", "needs_baseline_reset"},
     shares : Nat, basis : Nat, reserved : Nat, feeDebt : Nat, version : Nat]

Submitting  == {"s_lookup", "s_simulate", "s_mark", "s_send", "s_wait",
                "s_confirm", "s_apply"}
Reconciling == {"r_lookup", "r_height", "r_resend", "r_apply"}
Awaits == {"idle", "pending", "sync"} \cup Submitting \cup Reconciling

NothingSeen == [version |-> 0, shares |-> 0, rate |-> 0, force |-> FALSE]

SettlementTypeOK ==
    /\ TxTypeOK
    /\ wallet \in WalletRow
    /\ payment \in [Payments -> PaymentIntent]
    /\ held \in Nat
    /\ now \in Nat \ {0}
    /\ exits \in Nat
    /\ faults \in Nat
    /\ at \in [Workers -> Awaits]
    /\ on \in [Workers -> Payments \cup {NoPayment}]
    /\ outcome \in [Workers -> {"none", "chain", "not_submitted"}]
    /\ seen \in [Workers -> [version : Nat, shares : Nat, rate : Nat,
                             force : BOOLEAN]]

-----------------------------------------------------------------------------
(* Reading the ledger.                                                      *)

\* paymentHoldsSettlementReservation.
Holding == {p \in Payments : payment[p].status \in LiveStatuses}

\* activeSubmittedPayments.
Submitted == {p \in Payments :
                payment[p].status \in {"submission_prepared", "submitted"}}

\* paymentIntentExpired, of payments that are still prepared.
Stale == {p \in Payments : payment[p].status = "prepared" /\ payment[p].lapsed}

ReservationsOf(S) ==
    SumFunctionOnSet([p \in Payments |-> payment[p].reservation], S)
SharesOf(S) == SumFunctionOnSet([p \in Payments |-> payment[p].shares], S)

\* activeWithdrawReservedRawUsdc.
ActiveWithdrawReserved ==
    SumFunctionOnSet([p \in Payments |-> payment[p].withdraw], Holding \ Stale)

\* Mutant: the reservation of an expired payment is kept.
ExpiredKeepingReservation == wallet

\* The position row once expirePreparedPaymentsForLockedPosition has released
\* what the stale payments had reserved.
ExpiredWallet ==
    IF Stale = {} THEN wallet
    ELSE [wallet EXCEPT !.reserved = ClampToZero(@ - ReservationsOf(Stale)),
                        !.version = @ + 1]

ExpiredPayments ==
    [p \in Payments |-> IF p \in Stale THEN [payment[p] EXCEPT !.status = "expired"]
                        ELSE payment[p]]

-----------------------------------------------------------------------------
(* preparePayment, under the seller-request lock and the wallet-vault lock. *)

\* quoteSettlementWithdraw.
RequiredWithdraw ==
    GrossWithdrawForNetTarget(PaymentAmount, PayPenaltyBps, PayPenaltyLamports)

\* Mutant: the budget forgets what other payments have reserved.
BudgetOfUnreserved(row) ==
    [shares |-> held, rate |-> now, basis |-> row.basis, reserved |-> 0,
     feeDebt |-> row.feeDebt, buffer |-> SafetyBuffer, capacity |-> Capacity]

\* workingPosition: ledger accounting, with the quote's shares and rate.
BudgetOf(row) ==
    [shares |-> held, rate |-> now, basis |-> row.basis,
     reserved |-> row.reserved, feeDebt |-> row.feeDebt,
     buffer |-> SafetyBuffer, capacity |-> Capacity]

Accepted(row) ==
    EvaluatePaymentBudget(BudgetOf(row), RequiredWithdraw, FeeEstimate,
                          ActiveWithdrawReserved) = "ok"

\* Mutant: a request that was answered before is prepared again.
OpenToAnyone(r) == TRUE

\* findPaymentBySellerRequest: live and settled payments answer the request.
Open(r) ==
    \A p \in Payments :
        payment[p].request = r /\ payment[p].status # "absent" =>
            \/ payment[p].status \in FailedStatuses
            \/ p \in Stale

(***************************************************************************)
(* A payment is prepared under a fresh paymentId.  The transaction burns   *)
(* the shares of the quote, or up to the margin more if the probe of its   *)
(* output fell short.                                                      *)
(***************************************************************************)
PreparePayment(p, r) ==
    LET row   == ExpiredWallet
        exact == SharesToRedeem(RequiredWithdraw, now)
    IN  /\ payment[p].status = "absent"
        /\ Open(r)
        /\ row.status = "active"
        /\ held = row.shares
        /\ Accepted(row)
        /\ \E burned \in exact .. exact + ShareMargin :
             /\ burned <= held
             /\ payment' = [ExpiredPayments EXCEPT ![p] =
                  [status |-> "prepared", request |-> r,
                   withdraw |-> RequiredWithdraw,
                   reservation |-> RequiredWithdraw + FeeEstimate,
                   shares |-> burned, lapsed |-> FALSE]]
        /\ wallet' = [row EXCEPT
                        !.reserved = @ + RequiredWithdraw + FeeEstimate,
                        !.version = @ + 2]
        /\ UNCHANGED <<chain, locals, exits, faults>>

(***************************************************************************)
(* The quote does not match the ledger, or the budget refuses: the call    *)
(* throws.  InMemoryLedger keeps what was saved before the throw.          *)
(***************************************************************************)
RefusePayment(p, r) ==
    LET row == ExpiredWallet
    IN  /\ payment[p].status = "absent"
        /\ Open(r)
        /\ row.status = "active"
        /\ wallet.version < LastVersion
        /\ KeepsOnThrow
        /\ \/ held # row.shares /\ wallet' = [row EXCEPT
                !.status = "needs_baseline_reset", !.version = @ + 1]
           \/ /\ held = row.shares /\ ~Accepted(row)
              /\ wallet' = [row EXCEPT !.version = @ + 1]
        /\ payment' = ExpiredPayments
        /\ UNCHANGED <<chain, locals, exits, faults>>

(***************************************************************************)
(* prepareWithdrawal of vault-flow-service.ts, refused because the shares  *)
(* moved: it read the position before it expired the stale payments, and   *)
(* saves that copy back with the flag.                                     *)
(***************************************************************************)
RefuseWithdrawal ==
    /\ Submitted = {}
    /\ Holding \subseteq Stale
    /\ held # wallet.shares
    /\ wallet.version < LastVersion
    /\ KeepsOnThrow
    /\ payment' = ExpiredPayments
    /\ wallet' = [wallet EXCEPT !.status = "needs_baseline_reset",
                                !.version = @ + 1]
    /\ UNCHANGED <<chain, locals, exits, faults>>

\* getBudget, or any prepare that gets no further.
ExpirePrepared ==
    /\ Stale # {}
    /\ payment' = ExpiredPayments
    /\ wallet' = ExpiredWallet
    /\ UNCHANGED <<chain, locals, exits, faults>>

\* verifyPaymentPayload or settlePaymentPayload on a stale payment.
ExpireOne(p) ==
    /\ p \in Stale
    /\ payment' = [payment EXCEPT ![p].status = "expired"]
    /\ wallet' = [wallet EXCEPT
                    !.reserved = ClampToZero(@ - payment[p].reservation),
                    !.version = @ + 1]
    /\ UNCHANGED <<chain, locals, exits, faults>>

-----------------------------------------------------------------------------
(* settlePaymentPayload and recoverPendingSettlements.                      *)

Move(w, label) == at' = [at EXCEPT ![w] = label]

Reply(w) ==
    /\ at' = [at EXCEPT ![w] = "idle"]
    /\ on' = [on EXCEPT ![w] = NoPayment]
    /\ outcome' = [outcome EXCEPT ![w] = "none"]
    /\ seen' = [seen EXCEPT ![w] = NothingSeen]

\* A prepared payment: the signed bytes are stored, then submitted.
SettlePrepared(w, p) ==
    /\ at[w] = "idle"
    /\ payment[p].status = "prepared"
    /\ ~payment[p].lapsed
    /\ payment' = [payment EXCEPT ![p].status = "submission_prepared"]
    /\ Move(w, "s_lookup")
    /\ on' = [on EXCEPT ![w] = p]
    /\ UNCHANGED <<wallet, chain, outcome, seen, exits, faults>>

\* A retry, or the recovery run: the path is chosen by the status read here.
Settle(w, p) ==
    /\ at[w] = "idle"
    /\ p \in Submitted
    /\ Move(w, IF payment[p].status = "submitted" THEN "r_lookup" ELSE "s_lookup")
    /\ on' = [on EXCEPT ![w] = p]
    /\ UNCHANGED <<rows, chain, outcome, seen, exits, faults>>

-----------------------------------------------------------------------------
(* submitPaymentSettlement.                                                 *)

Onward(w, label) ==
    /\ Move(w, label)
    /\ UNCHANGED <<rows, chain, on, outcome, seen, exits, faults>>

Carry(w, result, label) ==
    /\ Move(w, label)
    /\ outcome' = [outcome EXCEPT ![w] = result]
    /\ UNCHANGED <<rows, chain, on, seen, exits, faults>>

\* A retried submission may already be on chain.
SubmitLookup(w) ==
    /\ at[w] = "s_lookup"
    /\ IF Found(on[w]) THEN Carry(w, "chain", "s_apply")
       ELSE Onward(w, "s_simulate")

\* A failing simulation ends the submission.
SubmitSimulate(w) ==
    /\ at[w] = "s_simulate"
    /\ \/ Onward(w, "s_mark")
       \/ Carry(w, "not_submitted", "s_apply")

\* Mutant: nothing is recorded before the broadcast.
MarkNothing(w) ==
    /\ at[w] = "s_mark"
    /\ Onward(w, "s_send")

\* onBeforeSend = markPaymentSubmittedBeforeSend, under the lock.
MarkSubmitted(w) ==
    /\ at[w] = "s_mark"
    /\ payment' = [payment EXCEPT ![on[w]].status =
                     IF @ = "submission_prepared" THEN "submitted" ELSE @]
    /\ Move(w, "s_send")
    /\ UNCHANGED <<wallet, chain, on, outcome, seen, exits, faults>>

\* A send error is ambiguous: the node may have taken the bytes.
SubmitSend(w) ==
    /\ at[w] = "s_send"
    /\ \/ Broadcast(on[w]) /\ (Move(w, "s_wait") \/ Move(w, "pending"))
       \/ UNCHANGED tx /\ Move(w, "pending")
    /\ UNCHANGED <<rows, visible, window, held, now, on, outcome, seen,
                   exits, faults>>

\* waitForConfirmation.
SubmitWait(w) ==
    /\ at[w] = "s_wait"
    /\ \/ OnChain(on[w]) /\ Onward(w, "s_confirm")
       \/ /\ ~Found(on[w])
          /\ HeightPastMargin(on[w])
          /\ Carry(w, "not_submitted", "s_apply")
       \/ Onward(w, "pending")

\* finalizeFromChain.
SubmitConfirm(w) ==
    /\ at[w] = "s_confirm"
    /\ IF Found(on[w]) THEN Carry(w, "chain", "s_apply") ELSE Onward(w, "pending")

-----------------------------------------------------------------------------
(* reconcilePaymentSettlement.                                              *)

ReconcileLookup(w) ==
    /\ at[w] = "r_lookup"
    /\ IF Found(on[w]) THEN Carry(w, "chain", "r_apply")
       ELSE Onward(w, "r_height")

\* Mutant: an expired blockhash is never noticed.
ReconcileForever(w) ==
    /\ at[w] = "r_height"
    /\ Onward(w, "r_resend")

\* The absence seen by the lookup is final once the blockhash has expired.
ReconcileHeight(w) ==
    /\ at[w] = "r_height"
    /\ IF HeightPastMargin(on[w]) THEN Carry(w, "not_submitted", "r_apply")
       ELSE Onward(w, "r_resend")

\* Best-effort resend of the stored bytes.
ReconcileResend(w) ==
    /\ at[w] = "r_resend"
    /\ Broadcast(on[w]) \/ UNCHANGED tx
    /\ Move(w, "pending")
    /\ UNCHANGED <<rows, visible, window, held, now, on, outcome, seen,
                   exits, faults>>

-----------------------------------------------------------------------------
(* The outcome is recorded, under the lock.                                 *)

\* Mutant: an outcome is recorded without re-reading the payment.
AnyPayment(p) == TRUE

\* terminalSettlementResponseForStoredState is null.
NotTerminal(p) == payment[p].status \in LiveStatuses

\* recordPendingSubmission.
RecordPending(w) ==
    /\ at[w] = "pending"
    /\ payment' = [payment EXCEPT ![on[w]].status =
                     IF NotTerminal(on[w]) THEN "submitted" ELSE @]
    /\ Reply(w)
    /\ UNCHANGED <<wallet, chain, exits, faults>>

\* Mutant: a settlement leaves the ledger's shares alone.
AppliedWithoutShares(row, p, result, fee) ==
    [row EXCEPT !.reserved = ClampToZero(@ - payment[p].reservation),
                !.feeDebt = @ + fee, !.version = @ + 1]

\* Mutant: the fee is taken off the fee debt instead of added to it.
AppliedFeeCredited(row, p, result, fee) ==
    [row EXCEPT !.reserved = ClampToZero(@ - payment[p].reservation),
                !.feeDebt = @ - fee, !.version = @ + 1]

\* applySettlementResultToPosition.
Applied(row, p, result, fee) ==
    LET i     == payment[p]
        known == result = "settled" /\ i.shares <= row.shares
    IN  [row EXCEPT
           !.reserved = ClampToZero(@ - i.reservation),
           !.feeDebt = @ + fee,
           !.status = IF fee > FeeEstimate \/ (result = "settled" /\ ~known)
                        THEN "needs_baseline_reset" ELSE @,
           !.shares = IF known THEN @ - i.shares ELSE @,
           !.version = @ + 1]

\* mapConfirmedTransaction, or the absence of a transaction.
ResultOf(w) ==
    IF outcome[w] = "not_submitted" THEN "failed_not_submitted"
    ELSE IF tx[on[w]] = "landed" THEN "settled" ELSE "failed"

\* finalizeSubmittedPayment.
Finalize(w) ==
    /\ at[w] \in {"s_apply", "r_apply"}
    /\ NotTerminal(on[w])
    /\ \E fee \in IF outcome[w] = "chain" THEN Fees \cup {FeeEstimate} ELSE {0} :
         wallet' = Applied(wallet, on[w], ResultOf(w), fee)
    /\ payment' = [payment EXCEPT ![on[w]].status = ResultOf(w)]
    /\ Reply(w)
    /\ UNCHANGED <<chain, exits, faults>>

\* Somebody else recorded a terminal outcome first.
AlreadyTerminal(w) ==
    /\ at[w] \in {"s_apply", "r_apply"}
    /\ ~NotTerminal(on[w])
    /\ Reply(w)
    /\ UNCHANGED <<rows, chain, exits, faults>>

-----------------------------------------------------------------------------
(* syncFromChain and the payments part of syncWalletPosition.  Shares only  *)
(* ever leave the wallet here, so no cost basis is looked up.               *)

SyncRead(w) ==
    /\ at[w] = "idle"
    /\ wallet.version < LastVersion
    /\ \E force \in BOOLEAN :
         seen' = [seen EXCEPT ![w] =
                    [version |-> wallet.version, shares |-> held, rate |-> now,
                     force |-> force \/ held # wallet.shares]]
    /\ Move(w, "sync")
    /\ UNCHANGED <<rows, chain, on, outcome, exits, faults>>

\* Mutant: a reset does not wait for submitted payments.
ResetAnyTime(s) == s.version = wallet.version

\* A stale snapshot is refused, and a reset while payments are submitted.
MaySync(s) ==
    /\ s.version = wallet.version
    /\ s.force => Submitted = {}

\* A conservative reset expires every prepared payment and turns the whole
\* position into principal.
SyncWrite(w) ==
    LET s == seen[w]
    IN  /\ at[w] = "sync"
        /\ IF ~MaySync(s) THEN UNCHANGED rows
           ELSE /\ payment' = [p \in Payments |->
                     IF s.force /\ payment[p].status = "prepared"
                       THEN [payment[p] EXCEPT !.status = "expired"]
                       ELSE payment[p]]
                /\ wallet' = [wallet EXCEPT
                     !.shares = s.shares,
                     !.basis = IF s.force
                                 THEN ComputePositionValue(s.shares, s.rate)
                                 ELSE @,
                     !.reserved = IF s.force THEN 0 ELSE @,
                     !.status = IF s.force THEN "active" ELSE @,
                     !.version = @ + 1]
        /\ Reply(w)
        /\ UNCHANGED <<chain, exits, faults>>

-----------------------------------------------------------------------------
(* The chain, the clock and failures.                                       *)

\* The settlement executes: the seller is paid the amount, or all of it fails.
PayOrRevert(p) ==
    /\ \/ /\ payment[p].shares <= held
          /\ Include(p, "landed")
          /\ held' = held - payment[p].shares
       \/ Include(p, "reverted") /\ UNCHANGED held
    /\ UNCHANGED <<rows, now, locals, exits, faults>>

\* Blocks go by.  PromptReads: not thirty-two of them between the lookup of a
\* reconciliation and its reading of the block height.
Blocks(p) ==
    /\ payment[p].status \in LiveStatuses \/ \E w \in Workers : on[w] = p
    /\ \/ Index(p) \/ CloseWindow(p)
       \/ /\ PassMargin(p)
          /\ PromptReads => \A w \in Workers : ~(at[w] = "r_height" /\ on[w] = p)
    /\ UNCHANGED <<rows, held, now, locals, exits, faults>>

\* The vault earns yield.
Earn ==
    /\ now < LastRate
    /\ now' = now + 1
    /\ UNCHANGED <<rows, txVars, held, locals, exits, faults>>

\* The owner withdraws a share outside Subly.
Exit ==
    /\ exits < Exits
    /\ held > 0
    /\ held' = held - 1
    /\ exits' = exits + 1
    /\ UNCHANGED <<rows, txVars, now, locals, faults>>

\* expiresAt of a prepared payment passes.
PaymentLapse(p) ==
    /\ payment[p].status = "prepared"
    /\ ~payment[p].lapsed
    /\ payment' = [payment EXCEPT ![p].lapsed = TRUE]
    /\ UNCHANGED <<wallet, chain, locals, exits, faults>>

\* An RPC call throws: recordAmbiguousSubmission.
CallFails(w) ==
    /\ at[w] \in {"s_lookup", "s_simulate", "s_wait", "s_confirm",
                  "r_lookup", "r_height"}
    /\ faults < MaxFaults
    /\ faults' = faults + 1
    /\ Move(w, "pending")
    /\ UNCHANGED <<rows, chain, on, outcome, seen, exits>>

\* The process dies: the ledger keeps what was committed.
Die(w) ==
    /\ at[w] # "idle"
    /\ faults < MaxFaults
    /\ faults' = faults + 1
    /\ Reply(w)
    /\ UNCHANGED <<rows, chain, exits>>

-----------------------------------------------------------------------------
SettlementInit ==
    /\ TxInit
    /\ held = StartShares
    /\ now = StartRate
    /\ wallet = [status |-> "active", shares |-> StartShares,
                 basis |-> StartBasis, reserved |-> 0, feeDebt |-> 0,
                 version |-> 1]
    /\ payment = [p \in Payments |->
                    [status |-> "absent", request |-> NoRequest, withdraw |-> 0,
                     reservation |-> 0, shares |-> 0, lapsed |-> FALSE]]
    /\ exits = 0
    /\ faults = 0
    /\ at = [w \in Workers |-> "idle"]
    /\ on = [w \in Workers |-> NoPayment]
    /\ outcome = [w \in Workers |-> "none"]
    /\ seen = [w \in Workers |-> NothingSeen]

\* The awaits of a handler that is under way.
Advance(w) ==
    \/ SubmitLookup(w) \/ SubmitSimulate(w) \/ MarkSubmitted(w)
    \/ SubmitSend(w) \/ SubmitWait(w) \/ SubmitConfirm(w)
    \/ ReconcileLookup(w) \/ ReconcileHeight(w) \/ ReconcileResend(w)
    \/ RecordPending(w) \/ Finalize(w) \/ AlreadyTerminal(w)
    \/ SyncWrite(w)

SettlementNext ==
    \/ \E p \in Payments, r \in SellerRequests :
         PreparePayment(p, r) \/ RefusePayment(p, r)
    \/ RefuseWithdrawal \/ ExpirePrepared
    \/ \E p \in Payments : ExpireOne(p) \/ PaymentLapse(p)
    \/ \E w \in Workers, p \in Payments : SettlePrepared(w, p) \/ Settle(w, p)
    \/ \E w \in Workers : Advance(w) \/ SyncRead(w) \/ CallFails(w) \/ Die(w)
    \/ \E p \in Payments : PayOrRevert(p) \/ Blocks(p)
    \/ Earn \/ Exit

SettlementSpec == SettlementInit /\ [][SettlementNext]_allVars

(***************************************************************************)
(* Fairness: promises settle, blocks are produced, and the seller retries  *)
(* /settle (or the operator runs the recovery) until the payment is        *)
(* terminal.  The retry is strongly fair because only the model bounds the *)
(* number of handlers.                                                     *)
(***************************************************************************)
FairSettlementSpec ==
    /\ SettlementSpec
    /\ \A w \in Workers : WF_allVars(Advance(w))
    /\ \A p \in Payments : /\ WF_allVars(Blocks(p))
                           /\ SF_allVars(\E w \in Workers : Settle(w, p))

-----------------------------------------------------------------------------
(* Safety.                                                                  *)

(***************************************************************************)
(* A seller request is paid at most once, although it may be prepared      *)
(* again under a fresh paymentId after every terminal failure              *)
(* (preparePayment).                                                       *)
(***************************************************************************)
RequestPaidOnce ==
    \A r \in SellerRequests :
        Cardinality({p \in Payments : payment[p].request = r
                                        /\ tx[p] = "landed"}) <= 1

(***************************************************************************)
(* Terminal failures never moved USDC to the seller, and never will: what  *)
(* preparePayment relies on when it reopens a request.                     *)
(***************************************************************************)
FailedNeverPaid ==
    \A p \in Payments : payment[p].status \in FailedStatuses => tx[p] # "landed"

(***************************************************************************)
(* What the position has reserved is exactly what the live payments hold:  *)
(* no expiry, settlement, write-off or reset leaks a reservation or        *)
(* releases one twice.                                                     *)
(***************************************************************************)
ReservedExact == wallet.reserved = ReservationsOf(Holding)

\* Payments whose transaction executed and is not booked yet.
Unbooked == {p \in Holding : tx[p] = "landed"}

\* The ledger shows the shares on chain and those on their way out.
LedgerAgrees == wallet.shares = held + SharesOf(Unbooked)

(***************************************************************************)
(* The ledger follows the chain share by share: unless the owner took some *)
(* out, it differs from the chain by what landed and is still unbooked.    *)
(***************************************************************************)
LedgerFollowsChain == exits = 0 => LedgerAgrees

(***************************************************************************)
(* The live payments can all land, in any order and at any later rate, and *)
(* the principal is still there: each was prepared against a budget that   *)
(* counts the reservations of the others, and what a payment reserves      *)
(* covers the shares it burns, rounding and margin included.               *)
(***************************************************************************)
PrincipalReserved ==
    LedgerAgrees =>
        LET left == held - SharesOf(Holding \ Unbooked)
        IN  left >= 0 /\ ComputePositionValue(left, now) >= wallet.basis

-----------------------------------------------------------------------------
(* What a step may never do.                                                *)

(***************************************************************************)
(* A terminal payment keeps its status, whatever outcome a slower handler  *)
(* still carries.                                                          *)
(***************************************************************************)
TerminalPaymentIsFinal ==
    [][\A p \in Payments :
         payment[p].status \in TerminalStatuses => payment'[p] = payment[p]]_allVars

-----------------------------------------------------------------------------
(* Liveness.                                                                *)

(***************************************************************************)
(* A payment whose bytes were stored reaches a terminal status, so its     *)
(* reservation is released and the wallet can be reset or withdrawn from.  *)
(***************************************************************************)
PaymentResolves ==
    \A p \in Payments :
        p \in Submitted ~> payment[p].status \in TerminalStatuses
=============================================================================
