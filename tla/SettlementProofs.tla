-------------------------- MODULE SettlementProofs --------------------------
(***************************************************************************)
(* Proofs about Settlement for any number of payments, seller requests and *)
(* handlers, any amounts, and any sequence of crashes and failed calls.    *)
(***************************************************************************)
EXTENDS Settlement, BudgetProofs, SumProofs

Idling == {"idle", "sync"}

\* A handler works on a payment whose bytes were stored, and carries an
\* outcome only to record it.
WorkOK ==
    \A w \in Workers :
        /\ at[w] \in Idling => on[w] = NoPayment
        /\ at[w] \notin Idling =>
             /\ on[w] \in Payments
             /\ payment[on[w]].status \notin {"absent", "prepared", "expired"}
        /\ at[w] \in {"s_apply", "r_apply"} <=> outcome[w] # "none"
        /\ at[w] \in {"s_send", "s_wait", "s_confirm"} \cup Reconciling =>
             payment[on[w]].status # "submission_prepared"
        /\ outcome[w] = "chain" => OnChain(on[w])

\* What is on the wire was recorded as submitted first, and a receipt is
\* indexed before the margin passes.
SentOK ==
    \A p \in Payments :
        /\ payment[p].status \in {"absent", "prepared", "expired", "submission_prepared"}
             => tx[p] = "unsent"
        /\ visible[p] => OnChain(p)
        /\ window[p] = "expired" /\ OnChain(p) => visible[p]
        /\ payment[p].status = "absent" => payment[p].request = NoRequest

\* At most one payment of a request has not failed.
OneAnswer ==
    \A p, q \in Payments :
        /\ payment[p].request = payment[q].request
        /\ payment[p].status \notin {"absent"} \cup FailedStatuses
        /\ payment[q].status \notin {"absent"} \cup FailedStatuses
        => p = q

SettlementShape == SettlementTypeOK /\ WorkOK /\ SentOK /\ OneAnswer

\* The transaction has not landed and never will.
NeverLands(p) == \/ tx[p] \in {"unsent", "reverted"}
                 \/ window[p] # "open" /\ tx[p] = "wire"

\* With one handler at a time, a payment under way is live, nothing was sent
\* before it was marked, and a write-off is true.
AloneOK ==
    \A w \in Workers :
        /\ at[w] \notin Idling => payment[on[w]].status \in LiveStatuses
        /\ at[w] \in {"s_lookup", "s_simulate", "s_mark"} =>
             payment[on[w]].status = "submission_prepared"
        /\ outcome[w] = "not_submitted" => NeverLands(on[w])
        /\ at[w] = "r_height" /\ window[on[w]] = "expired" => ~OnChain(on[w])

FailedDead ==
    \A p \in Payments : payment[p].status \in FailedStatuses => NeverLands(p)

\* A snapshot that is still current and forces no reset shows the ledger's
\* shares.
SnapshotFresh ==
    \A w \in Workers :
        at[w] = "sync" /\ seen[w].version = wallet.version /\ ~seen[w].force =>
            seen[w].shares = wallet.shares

\* Versions only rise.
VersionsOK == \A w \in Workers : seen[w].version <= wallet.version

\* No reservation is lost.
ReservedCovers == wallet.reserved >= ReservationsOf(Holding)

\* Rates only rise.
RatesOK == /\ StartRate <= now /\ now <= LastRate
           /\ \A w \in Workers : seen[w].rate <= now

\* What a live payment reserves covers the shares it burns at any rate.
ShareCost == \A p \in Holding :
    payment[p].shares * LastRate <= payment[p].reservation * RateScale

\* The shares no live payment will burn are worth the principal.
FreeShares == wallet.shares - SharesOf(Holding)
PrincipalKept ==
    FreeShares >= 0 /\ ComputePositionValue(FreeShares, now) >= wallet.basis

-----------------------------------------------------------------------------
(* Types.                                                                   *)

USE DEF Payments

\* The constants, as the proofs use them.
LEMMA ConstantTypes ==
    /\ PaymentAmount \in Nat /\ FeeEstimate \in Nat /\ ShareMargin \in Nat
    /\ SafetyBuffer \in Nat /\ Capacity \in Nat /\ StartShares \in Nat
    /\ StartBasis \in Nat /\ StartRate \in Nat \ {0} /\ LastRate \in Nat
    /\ RequiredWithdraw \in Nat /\ Fees \subseteq Nat /\ IsFiniteSet(Payments)
    /\ NoPayment \notin Payments
<1>1. RequiredWithdraw \in Nat
  BY SettlementAssumption, GrossWithdrawIsFloor DEF RequiredWithdraw
<1> QED  BY <1>1, SettlementAssumption

\* The sums over payments are naturals.
LEMMA SumTypes ==
    ASSUME SettlementTypeOK, NEW S \in SUBSET Payments
    PROVE  ReservationsOf(S) \in Nat /\ SharesOf(S) \in Nat
<1> DEFINE res == [p \in Payments |-> payment[p].reservation]
           sh  == [p \in Payments |-> payment[p].shares]
<1>1. IsFiniteSet(S)
  BY ConstantTypes, FS_Subset
<1>2. \A p \in S : res[p] \in Nat /\ sh[p] \in Nat
  BY DEF SettlementTypeOK, PaymentIntent
<1>3. ReservationsOf(S) = Sum(res, S) /\ SharesOf(S) = Sum(sh, S)
  BY DEF ReservationsOf, SharesOf, Sum
<1> HIDE DEF res, sh
<1> QED  BY <1>1, <1>2, <1>3, SumMonotone

Statuses == {"absent"} \cup LiveStatuses \cup TerminalStatuses

\* A payment whose status changes, or whose time runs out, is a payment.
LEMMA PaymentFields ==
    ASSUME payment \in [Payments -> PaymentIntent], NEW p
    PROVE  /\ \A s \in Statuses :
                [payment EXCEPT ![p].status = s] \in [Payments -> PaymentIntent]
           /\ [payment EXCEPT ![p].lapsed = TRUE] \in [Payments -> PaymentIntent]
<1>1. ASSUME NEW q \in Payments, NEW s \in Statuses
      PROVE  /\ [payment[q] EXCEPT !.status = s] \in PaymentIntent
             /\ [payment[q] EXCEPT !.lapsed = TRUE] \in PaymentIntent
  BY DEF PaymentIntent, Statuses
<1>2. "absent" \in Statuses
  BY DEF Statuses
<1> QED  BY <1>1, <1>2

\* The rows that expiry and settlement compute are rows.
LEMMA RowTypes ==
    ASSUME SettlementTypeOK
    PROVE  /\ ExpiredWallet \in WalletRow
           /\ ExpiredPayments \in [Payments -> PaymentIntent]
           /\ \A p \in Payments :
                ClampToZero(wallet.reserved - payment[p].reservation) \in Nat
           /\ \A p \in Payments, fee \in Nat : \A result :
                Applied(wallet, p, result, fee) \in WalletRow
<1> USE DEF WalletRow, PaymentIntent
<1>0. wallet \in WalletRow /\ payment \in [Payments -> PaymentIntent]
  BY DEF SettlementTypeOK
<1>1. ExpiredWallet \in WalletRow
  <2>1. ReservationsOf(Stale) \in Nat
    BY SumTypes DEF Stale
  <2>2. PICK c \in Nat, v \in Nat :
          /\ c = ClampToZero(wallet.reserved - ReservationsOf(Stale))
          /\ v = wallet.version + 1
    BY <1>0, <2>1 DEF ClampToZero
  <2>3. [wallet EXCEPT !.reserved = c, !.version = v] \in WalletRow
    BY <1>0
  <2> QED  BY <1>0, <2>2, <2>3 DEF ExpiredWallet
<1>2. ExpiredPayments \in [Payments -> PaymentIntent]
  BY <1>0 DEF ExpiredPayments, TerminalStatuses, FailedStatuses
<1>3. \A p \in Payments : ClampToZero(wallet.reserved - payment[p].reservation) \in Nat
  BY <1>0 DEF ClampToZero
<1>4. ASSUME NEW p \in Payments, NEW result, NEW fee \in Nat
      PROVE  Applied(wallet, p, result, fee) \in WalletRow
  <2>1. PICK c \in Nat : c = ClampToZero(wallet.reserved - payment[p].reservation)
    BY <1>3
  <2>2. PICK s \in Nat :
          s = IF result = "settled" /\ payment[p].shares <= wallet.shares
                THEN wallet.shares - payment[p].shares ELSE wallet.shares
    BY <1>0
  <2>3. PICK st \in {"active", "needs_baseline_reset"} :
          st = IF \/ fee > FeeEstimate
                  \/ result = "settled"
                       /\ ~(result = "settled" /\ payment[p].shares <= wallet.shares)
                 THEN "needs_baseline_reset" ELSE wallet.status
    BY <1>0
  <2>4. PICK v \in Nat, d \in Nat : v = wallet.version + 1 /\ d = wallet.feeDebt + fee
    BY <1>0
  <2>5. [wallet EXCEPT !.reserved = c, !.feeDebt = d, !.status = st, !.shares = s,
                       !.version = v] \in WalletRow
    BY <1>0
  <2> QED  BY <2>1, <2>2, <2>3, <2>4, <2>5 DEF Applied
<1> QED  BY <1>1, <1>2, <1>3, <1>4

USE DEF rows, chain, locals, txVars

\* A handler that answers leaves well-typed state.
LEMMA ReplyTypes ==
    ASSUME SettlementTypeOK, NEW w \in Workers, Reply(w)
    PROVE  /\ at' \in [Workers -> Awaits]
           /\ on' \in [Workers -> Payments \cup {NoPayment}]
           /\ outcome' \in [Workers -> {"none", "chain", "not_submitted"}]
           /\ seen' \in [Workers -> [version : Nat, shares : Nat, rate : Nat,
                                     force : BOOLEAN]]
BY DEF SettlementTypeOK, Reply, Awaits, NothingSeen

\* Preparing, refusing and expiring payments.
LEMMA TypeOfPrepares ==
    ASSUME SettlementTypeOK,
           \/ \E p \in Payments, r \in SellerRequests :
                PreparePayment(p, r) \/ RefusePayment(p, r)
           \/ RefuseWithdrawal \/ ExpirePrepared
           \/ \E p \in Payments : ExpireOne(p) \/ PaymentLapse(p)
    PROVE  SettlementTypeOK'
<1>0. /\ wallet \in WalletRow /\ payment \in [Payments -> PaymentIntent]
      /\ ExpiredWallet \in WalletRow /\ ExpiredPayments \in [Payments -> PaymentIntent]
  BY RowTypes DEF SettlementTypeOK
<1>1. SUFFICES wallet' \in WalletRow /\ payment' \in [Payments -> PaymentIntent]
  BY DEF SettlementTypeOK, TxTypeOK, PreparePayment, RefusePayment, RefuseWithdrawal,
         ExpirePrepared, ExpireOne, PaymentLapse
<1>2. CASE \E p \in Payments, r \in SellerRequests : PreparePayment(p, r)
  <2>1. PICK p \in Payments, r \in SellerRequests : PreparePayment(p, r)
    BY <1>2
  <2>2. SharesToRedeem(RequiredWithdraw, now) \in Nat
    <3>1. PICK n \in Nat, d \in Nat \ {0} : n = RequiredWithdraw * RateScale /\ d = now
      BY ConstantTypes, RateScaleAssumption DEF SettlementTypeOK
    <3> QED  BY <3>1, CeilDivBounds DEF SharesToRedeem
  <2>3. PICK burned \in Nat :
          payment' = [ExpiredPayments EXCEPT ![p] =
                  [status |-> "prepared", request |-> r,
                   withdraw |-> RequiredWithdraw,
                   reservation |-> RequiredWithdraw + FeeEstimate,
                   shares |-> burned, lapsed |-> FALSE]]
    <3>1. PICK exact \in Nat : exact = SharesToRedeem(RequiredWithdraw, now)
      BY <2>2
    <3>2. \A burned \in exact .. exact + ShareMargin : burned \in Nat
      BY ConstantTypes
    <3> QED  BY <2>1, <3>1, <3>2 DEF PreparePayment
  <2>4. payment' \in [Payments -> PaymentIntent]
    BY <1>0, <2>3, ConstantTypes DEF PaymentIntent, LiveStatuses
  <2>5. wallet' \in WalletRow
    <3>1. PICK c \in Nat, v \in Nat :
            /\ c = ExpiredWallet.reserved + RequiredWithdraw + FeeEstimate
            /\ v = ExpiredWallet.version + 2
      BY <1>0, ConstantTypes DEF WalletRow
    <3>2. wallet' = [ExpiredWallet EXCEPT !.reserved = c, !.version = v]
      BY <2>1, <3>1 DEF PreparePayment
    <3> QED  BY <1>0, <3>2 DEF WalletRow
  <2> QED  BY <2>4, <2>5
<1>3. CASE \/ \E p \in Payments, r \in SellerRequests : RefusePayment(p, r)
           \/ RefuseWithdrawal \/ ExpirePrepared
  <2>1. payment' = ExpiredPayments
    BY <1>3 DEF RefusePayment, RefuseWithdrawal, ExpirePrepared
  <2>2. PICK v \in Nat, u \in Nat :
          v = ExpiredWallet.version + 1 /\ u = wallet.version + 1
    BY <1>0 DEF WalletRow
  <2>3. \/ wallet' = ExpiredWallet
        \/ wallet' = [ExpiredWallet EXCEPT !.version = v]
        \/ wallet' = [ExpiredWallet EXCEPT !.status = "needs_baseline_reset", !.version = v]
        \/ wallet' = [wallet EXCEPT !.status = "needs_baseline_reset", !.version = u]
    BY <1>3, <2>2 DEF RefusePayment, RefuseWithdrawal, ExpirePrepared
  <2> QED  BY <1>0, <2>1, <2>3 DEF WalletRow
<1>4. CASE \E p \in Payments : ExpireOne(p) \/ PaymentLapse(p)
  <2>1. PICK p \in Payments : ExpireOne(p) \/ PaymentLapse(p)
    BY <1>4
  <2>2. PICK c \in Nat, v \in Nat :
          /\ c = ClampToZero(wallet.reserved - payment[p].reservation)
          /\ v = wallet.version + 1
    <3>1. ClampToZero(wallet.reserved - payment[p].reservation) \in Nat
      BY RowTypes
    <3>2. wallet.version + 1 \in Nat
      BY <1>0 DEF WalletRow
    <3> QED  BY <3>1, <3>2
  <2>3. wallet' \in WalletRow
    <3>1. wallet' = wallet \/ wallet' = [wallet EXCEPT !.reserved = c, !.version = v]
      BY <2>1, <2>2 DEF ExpireOne, PaymentLapse
    <3> QED  BY <1>0, <3>1 DEF WalletRow
  <2>4. payment' \in [Payments -> PaymentIntent]
    <3>1. \/ payment' = [payment EXCEPT ![p].status = "expired"]
          \/ payment' = [payment EXCEPT ![p].lapsed = TRUE]
      BY <2>1 DEF ExpireOne, PaymentLapse
    <3>2. "expired" \in Statuses
      BY DEF Statuses, TerminalStatuses, FailedStatuses
    <3>3. /\ [payment EXCEPT ![p].status = "expired"] \in [Payments -> PaymentIntent]
          /\ [payment EXCEPT ![p].lapsed = TRUE] \in [Payments -> PaymentIntent]
      BY <1>0, <3>2, PaymentFields
    <3> QED  BY <3>1, <3>3
  <2> QED  BY <2>3, <2>4
<1> QED  BY <1>2, <1>3, <1>4

\* The steps of a handler that write no rows.
LEMMA TypeOfAwaits ==
    ASSUME SettlementTypeOK, NEW w \in Workers,
           \/ SubmitLookup(w) \/ SubmitSimulate(w)
           \/ SubmitSend(w) \/ SubmitWait(w) \/ SubmitConfirm(w)
           \/ ReconcileLookup(w) \/ ReconcileHeight(w) \/ ReconcileResend(w)
           \/ CallFails(w)
    PROVE  SettlementTypeOK'
<1>1. \/ /\ \E label \in Awaits : Move(w, label)
         /\ UNCHANGED <<rows, chain, on, outcome, seen, exits, faults>>
      \/ \E label \in Awaits, result \in {"chain", "not_submitted"} :
           Carry(w, result, label)
      \/ /\ \E label \in Awaits : Move(w, label)
         /\ tx' = tx \/ Broadcast(on[w])
         /\ UNCHANGED <<rows, visible, window, held, now, on, outcome, seen, exits, faults>>
      \/ /\ Move(w, "pending") /\ faults' = faults + 1
         /\ UNCHANGED <<rows, chain, on, outcome, seen, exits>>
  BY DEF SubmitLookup, SubmitSimulate, SubmitSend, SubmitWait, SubmitConfirm,
         ReconcileLookup, ReconcileHeight, ReconcileResend, CallFails, Onward,
         Awaits, Submitting, Reconciling
<1>2. \A label \in Awaits : Move(w, label) => at' \in [Workers -> Awaits]
  BY DEF Move, SettlementTypeOK
<1>3. "pending" \in Awaits
  BY DEF Awaits
<1>4. Broadcast(on[w]) => tx' \in [Txs -> TxStates]
  BY DEF Broadcast, SettlementTypeOK, TxTypeOK, TxStates
<1> QED
  BY <1>1, <1>2, <1>3, <1>4 DEF Carry, SettlementTypeOK, TxTypeOK

\* A handler starts, records what it found, or gives up.
LEMMA TypeOfRecords ==
    ASSUME SettlementTypeOK, WorkOK, NEW w \in Workers,
           \/ \E p \in Payments : SettlePrepared(w, p) \/ Settle(w, p)
           \/ MarkSubmitted(w) \/ RecordPending(w) \/ Finalize(w)
           \/ AlreadyTerminal(w) \/ SyncRead(w) \/ Die(w)
    PROVE  SettlementTypeOK'
<1>0. /\ wallet \in WalletRow /\ payment \in [Payments -> PaymentIntent]
      /\ {"submission_prepared", "submitted", "settled", "failed",
          "failed_not_submitted"} \subseteq Statuses
      /\ {"s_lookup", "r_lookup", "s_send", "sync"} \subseteq Awaits
      /\ \A p \in Payments : payment[p].status \in Statuses
      /\ TxTypeOK /\ at \in [Workers -> Awaits]
      /\ on \in [Workers -> Payments \cup {NoPayment}]
      /\ held \in Nat /\ now \in Nat /\ faults \in Nat
  BY DEF SettlementTypeOK, Statuses, LiveStatuses, TerminalStatuses, FailedStatuses,
         Awaits, Submitting, Reconciling, PaymentIntent
<1>1. CASE \E p \in Payments : SettlePrepared(w, p) \/ Settle(w, p)
  <2>1. PICK p \in Payments : SettlePrepared(w, p) \/ Settle(w, p)
    BY <1>1
  <2>2. on' \in [Workers -> Payments \cup {NoPayment}] /\ at' \in [Workers -> Awaits]
    BY <1>0, <2>1 DEF SettlePrepared, Settle, Move
  <2>3. payment' \in [Payments -> PaymentIntent]
    <3>1. \/ payment' = [payment EXCEPT ![p].status = "submission_prepared"]
          \/ payment' = payment
      BY <2>1 DEF SettlePrepared, Settle
    <3>2. [payment EXCEPT ![p].status = "submission_prepared"]
            \in [Payments -> PaymentIntent]
      BY <1>0, PaymentFields
    <3> QED  BY <1>0, <3>1, <3>2
  <2> QED  BY <2>1, <2>2, <2>3 DEF SettlePrepared, Settle, SettlementTypeOK, TxTypeOK
<1>2. CASE MarkSubmitted(w)
  <2>1. at' \in [Workers -> Awaits]
    BY <1>0, <1>2 DEF MarkSubmitted, Move
  <2>2. on[w] \in Payments
    BY <1>2 DEF MarkSubmitted, WorkOK, Idling
  <2>3. PICK s \in Statuses :
          s = IF payment[on[w]].status = "submission_prepared" THEN "submitted"
              ELSE payment[on[w]].status
    BY <1>0, <2>2
  <2>4. payment' = [payment EXCEPT ![on[w]].status = s]
    BY <1>0, <1>2, <2>2, <2>3 DEF MarkSubmitted
  <2>5. payment' \in [Payments -> PaymentIntent]
    BY <1>0, <2>4, PaymentFields
  <2> QED  BY <1>2, <2>1, <2>5 DEF MarkSubmitted, SettlementTypeOK, TxTypeOK
<1>3. CASE RecordPending(w)
  <2>1. on[w] \in Payments
    BY <1>3 DEF RecordPending, WorkOK, Idling
  <2>2. PICK s \in Statuses :
          s = IF NotTerminal(on[w]) THEN "submitted" ELSE payment[on[w]].status
    BY <1>0, <2>1
  <2>3. payment' = [payment EXCEPT ![on[w]].status = s]
    BY <1>0, <1>3, <2>1, <2>2 DEF RecordPending
  <2>4. payment' \in [Payments -> PaymentIntent]
    BY <1>0, <2>3, PaymentFields
  <2>5. Reply(w)
    BY <1>3 DEF RecordPending
  <2> QED  BY <1>3, <2>4, <2>5, ReplyTypes DEF RecordPending, SettlementTypeOK, TxTypeOK
<1>4. CASE Finalize(w)
  <2>1. on[w] \in Payments
    BY <1>4 DEF Finalize, WorkOK, Idling
  <2>2. PICK s \in Statuses : s = ResultOf(w)
    BY <1>0 DEF ResultOf
  <2>3. payment' \in [Payments -> PaymentIntent]
    BY <1>0, <1>4, <2>2, PaymentFields DEF Finalize
  <2>4. PICK fee \in Nat : wallet' = Applied(wallet, on[w], ResultOf(w), fee)
    BY <1>4, ConstantTypes DEF Finalize
  <2>5. wallet' \in WalletRow
    <3>1. PICK p \in Payments : p = on[w]
      BY <2>1
    <3>2. Applied(wallet, p, s, fee) \in WalletRow
      BY RowTypes
    <3> QED  BY <2>2, <2>4, <3>1, <3>2
  <2>6. Reply(w)
    BY <1>4 DEF Finalize
  <2> QED
    BY <1>4, <2>3, <2>5, <2>6, ReplyTypes DEF Finalize, SettlementTypeOK, TxTypeOK
<1>5. CASE AlreadyTerminal(w) \/ Die(w)
  <2>1. Reply(w) /\ UNCHANGED <<rows, chain, exits>>
    BY <1>5 DEF AlreadyTerminal, Die
  <2>2. faults' \in Nat
    BY <1>0, <1>5 DEF AlreadyTerminal, Die
  <2> QED  BY <2>1, <2>2, ReplyTypes DEF SettlementTypeOK, TxTypeOK
<1>6. CASE SyncRead(w)
  <2>1. at' \in [Workers -> Awaits]
    BY <1>0, <1>6 DEF SyncRead, Move
  <2>2. PICK force \in BOOLEAN :
          seen' = [seen EXCEPT ![w] =
                    [version |-> wallet.version, shares |-> held, rate |-> now,
                     force |-> force \/ held # wallet.shares]]
    BY <1>6 DEF SyncRead
  <2>3. PICK f \in BOOLEAN : f = (force \/ held # wallet.shares)
    OBVIOUS
  <2>4. wallet.version \in Nat
    BY <1>0 DEF WalletRow
  <2>5. seen' \in [Workers -> [version : Nat, shares : Nat, rate : Nat, force : BOOLEAN]]
    BY <1>0, <2>2, <2>3, <2>4 DEF SettlementTypeOK
  <2> QED  BY <1>6, <2>1, <2>5 DEF SyncRead, SettlementTypeOK, TxTypeOK
<1> QED  BY <1>1, <1>2, <1>3, <1>4, <1>5, <1>6

\* Types: a sync writes.
LEMMA TypeOfSync ==
    ASSUME SettlementTypeOK, NEW w \in Workers, SyncWrite(w)
    PROVE  SettlementTypeOK'
<1>0. /\ wallet \in WalletRow /\ payment \in [Payments -> PaymentIntent]
      /\ seen[w].version \in Nat /\ seen[w].shares \in Nat /\ seen[w].rate \in Nat
  BY DEF SettlementTypeOK
<1>1. Reply(w)
  BY DEF SyncWrite
<1>2. SUFFICES wallet' \in WalletRow /\ payment' \in [Payments -> PaymentIntent]
  BY <1>1, ReplyTypes DEF SyncWrite, SettlementTypeOK, TxTypeOK
<1>3. CASE ~MaySync(seen[w])
  BY <1>0, <1>3 DEF SyncWrite
<1>4. CASE MaySync(seen[w])
  <2>1. "expired" \in Statuses
    BY DEF Statuses, TerminalStatuses, FailedStatuses
  <2>2. ASSUME NEW p \in Payments PROVE [payment[p] EXCEPT !.status = "expired"] \in PaymentIntent
    BY <1>0, <2>1 DEF PaymentIntent, Statuses
  <2>3. payment' \in [Payments -> PaymentIntent]
    BY <1>0, <1>4, <2>2 DEF SyncWrite
  <2>4. ComputePositionValue(seen[w].shares, seen[w].rate) \in Nat
    BY <1>0, ValueBounds
  <2>5. PICK sh \in Nat, v \in Nat, b \in Nat, r \in Nat,
             st \in {"active", "needs_baseline_reset"} :
          /\ sh = seen[w].shares /\ v = wallet.version + 1
          /\ b = IF seen[w].force
                   THEN ComputePositionValue(seen[w].shares, seen[w].rate)
                   ELSE wallet.basis
          /\ r = IF seen[w].force THEN 0 ELSE wallet.reserved
          /\ st = IF seen[w].force THEN "active" ELSE wallet.status
    <3>1. /\ wallet.version + 1 \in Nat /\ wallet.basis \in Nat /\ wallet.reserved \in Nat
          /\ wallet.status \in {"active", "needs_baseline_reset"}
      BY <1>0 DEF WalletRow
    <3> QED  BY <1>0, <2>4, <3>1
  <2>6. wallet' = [wallet EXCEPT !.shares = sh, !.basis = b, !.reserved = r,
                                 !.status = st, !.version = v]
    BY <1>4, <2>5 DEF SyncWrite
  <2>7. wallet' \in WalletRow
    BY <1>0, <2>6 DEF WalletRow
  <2> QED  BY <2>3, <2>7
<1> QED  BY <1>3, <1>4

\* Types: the chain moves.
LEMMA TypeOfChain ==
    ASSUME SettlementTypeOK,
           \/ \E p \in Payments : PayOrRevert(p) \/ Blocks(p)
           \/ Earn \/ Exit
    PROVE  SettlementTypeOK'
<1> USE DEF SettlementTypeOK, TxTypeOK
<1>1. ASSUME NEW p \in Payments, PayOrRevert(p) PROVE SettlementTypeOK'
  <2>1. tx' \in [Txs -> TxStates]
    BY <1>1 DEF PayOrRevert, Include, TxStates
  <2>2. payment[p].shares \in Nat
    BY DEF PaymentIntent
  <2>3. held' \in Nat
    BY <1>1, <2>2 DEF PayOrRevert
  <2> QED  BY <1>1, <2>1, <2>3 DEF PayOrRevert, Include
<1>2. ASSUME NEW p \in Payments, Blocks(p) PROVE SettlementTypeOK'
  <2>1. visible' \in [Txs -> BOOLEAN] /\ window' \in [Txs -> WindowStates] /\ tx' = tx
    BY <1>2 DEF Blocks, Index, CloseWindow, PassMargin, WindowStates
  <2> QED  BY <1>2, <2>1 DEF Blocks
<1>3. CASE Earn
  BY <1>3 DEF Earn
<1>4. CASE Exit
  BY <1>4 DEF Exit
<1> QED  BY <1>1, <1>2, <1>3, <1>4

\* Every step keeps the types.
LEMMA TypeStep ==
    ASSUME SettlementTypeOK, WorkOK, [SettlementNext]_allVars
    PROVE  SettlementTypeOK'
<1>1. CASE UNCHANGED allVars
  BY <1>1 DEF allVars, SettlementTypeOK, TxTypeOK
<1>2. CASE SettlementNext
  BY <1>2, TypeOfPrepares, TypeOfAwaits, TypeOfRecords, TypeOfSync, TypeOfChain
     DEF SettlementNext, Advance
<1> QED  BY <1>1, <1>2

-----------------------------------------------------------------------------
(* The life of a payment.                                                   *)

\* The steps that write payment rows.
LEMMA PaymentSteps ==
    ASSUME SettlementNext
    PROVE  \/ UNCHANGED payment
           \/ \E p \in Payments, r \in SellerRequests : PreparePayment(p, r)
           \/ payment' = ExpiredPayments
           \/ \E p \in Payments : ExpireOne(p) \/ PaymentLapse(p)
           \/ \E w \in Workers, p \in Payments : SettlePrepared(w, p)
           \/ \E w \in Workers : MarkSubmitted(w) \/ RecordPending(w) \/ Finalize(w)
                                 \/ SyncWrite(w)
BY DEF SettlementNext, Advance, RefusePayment, RefuseWithdrawal, ExpirePrepared, Settle,
       SubmitLookup, SubmitSimulate, SubmitSend, SubmitWait, SubmitConfirm,
       ReconcileLookup, ReconcileHeight, ReconcileResend, AlreadyTerminal, SyncRead,
       CallFails, Die, PayOrRevert, Blocks, Earn, Exit, Onward, Carry

\* Before its bytes are stored, and after it expired unsent.
Early == {"absent", "prepared", "expired"}

\* What is fixed when a payment is prepared.
SameTerms(p) == /\ payment'[p].request = payment[p].request
                /\ payment'[p].reservation = payment[p].reservation
                /\ payment'[p].shares = payment[p].shares

\* One step of a payment: it is prepared, expires unsent, has its bytes
\* stored, is submitted or recorded; its terms never change.
Steps(p) ==
    \/ payment'[p] = payment[p]
    \/ payment[p].status = "absent" /\ payment'[p].status = "prepared"
    \/ /\ payment[p].status = "prepared" /\ SameTerms(p)
       /\ payment'[p].status \in {"prepared", "expired", "submission_prepared"}
    \/ /\ payment[p].status \in {"submission_prepared", "submitted"} /\ SameTerms(p)
       /\ payment'[p].status \in {"submitted", "settled", "failed", "failed_not_submitted"}

\* How the status of a payment changes in a step.
LEMMA StatusStep ==
    ASSUME SettlementShape, [SettlementNext]_allVars, NEW p \in Payments
    PROVE  Steps(p)
<1> USE DEF Steps
<1>0. payment \in [Payments -> PaymentIntent] /\ payment[p] \in PaymentIntent
  BY DEF SettlementShape, SettlementTypeOK
<1>1. CASE UNCHANGED payment
  BY <1>1
<1>2. \A s : [payment[p] EXCEPT !.status = s].status = s
             /\ [payment[p] EXCEPT !.status = s].request = payment[p].request
             /\ [payment[p] EXCEPT !.status = s].reservation = payment[p].reservation
             /\ [payment[p] EXCEPT !.status = s].shares = payment[p].shares
  BY <1>0 DEF PaymentIntent
<1>3. ASSUME payment'[p] = [payment[p] EXCEPT !.status = "expired"],
             payment[p].status = "prepared"
      PROVE  Steps(p)
  BY <1>2, <1>3 DEF SameTerms
<1>4. CASE payment' = ExpiredPayments
  <2>1. payment'[p] = IF p \in Stale THEN [payment[p] EXCEPT !.status = "expired"]
                      ELSE payment[p]
    BY <1>4 DEF ExpiredPayments
  <2> QED  BY <1>3, <2>1 DEF Stale
<1>5. ASSUME NEW q \in Payments, NEW r \in SellerRequests, PreparePayment(q, r)
      PROVE  Steps(p)
  <2>1. CASE p = q
    <3>1. payment[p].status = "absent" /\ payment'[p].status = "prepared"
      BY <1>5, <2>1 DEF PreparePayment, ExpiredPayments
    <3> QED  BY <3>1
  <2>2. CASE p # q
    <3>1. payment'[p] = IF p \in Stale THEN [payment[p] EXCEPT !.status = "expired"]
                        ELSE payment[p]
      BY <1>5, <2>2 DEF PreparePayment, ExpiredPayments
    <3> QED  BY <1>3, <3>1 DEF Stale
  <2> QED  BY <2>1, <2>2
<1>6. ASSUME NEW q \in Payments, ExpireOne(q) PROVE Steps(p)
  <2>1. payment'[p] = IF p = q THEN [payment[p] EXCEPT !.status = "expired"]
                      ELSE payment[p]
    BY <1>0, <1>6 DEF ExpireOne
  <2> QED  BY <1>3, <1>6, <2>1 DEF ExpireOne, Stale
<1>7. ASSUME NEW q \in Payments, PaymentLapse(q) PROVE Steps(p)
  <2>1. payment'[p] = IF p = q THEN [payment[p] EXCEPT !.lapsed = TRUE]
                      ELSE payment[p]
    BY <1>0, <1>7 DEF PaymentLapse
  <2> QED  BY <1>0, <1>7, <2>1 DEF PaymentLapse, SameTerms, PaymentIntent
<1>8. ASSUME NEW w \in Workers, NEW q \in Payments, SettlePrepared(w, q) PROVE Steps(p)
  <2>1. payment'[p] = IF p = q THEN [payment[p] EXCEPT !.status = "submission_prepared"]
                      ELSE payment[p]
    BY <1>0, <1>8 DEF SettlePrepared
  <2> QED  BY <1>2, <1>8, <2>1 DEF SettlePrepared, SameTerms
<1>9. ASSUME NEW w \in Workers, MarkSubmitted(w) PROVE Steps(p)
  <2>1. payment'[p] = IF p = on[w] /\ payment[p].status = "submission_prepared"
                        THEN [payment[p] EXCEPT !.status = "submitted"]
                        ELSE payment[p]
    BY <1>0, <1>9 DEF MarkSubmitted, PaymentIntent
  <2> QED  BY <1>2, <2>1 DEF SameTerms
<1>10. ASSUME NEW w \in Workers, at[w] \notin Idling, NotTerminal(on[w]), p = on[w]
       PROVE  payment[p].status \in {"submission_prepared", "submitted"}
  BY <1>10 DEF SettlementShape, WorkOK, NotTerminal, LiveStatuses
<1>11. ASSUME NEW w \in Workers, RecordPending(w) PROVE Steps(p)
  <2>1. payment'[p] = IF p = on[w] /\ NotTerminal(p)
                        THEN [payment[p] EXCEPT !.status = "submitted"]
                        ELSE payment[p]
    BY <1>0, <1>11 DEF RecordPending, PaymentIntent
  <2> QED  BY <1>2, <1>10, <1>11, <2>1 DEF SameTerms, RecordPending, Idling
<1>12. ASSUME NEW w \in Workers, Finalize(w) PROVE Steps(p)
  <2>1. payment'[p] = IF p = on[w] THEN [payment[p] EXCEPT !.status = ResultOf(w)]
                      ELSE payment[p]
    BY <1>0, <1>12 DEF Finalize
  <2>2. PICK s \in {"settled", "failed", "failed_not_submitted"} : s = ResultOf(w)
    BY DEF ResultOf
  <2>3. at[w] \notin Idling /\ NotTerminal(on[w])
    BY <1>12 DEF Finalize, Idling
  <2> QED  BY <1>2, <1>10, <2>1, <2>2, <2>3 DEF SameTerms
<1>13. ASSUME NEW w \in Workers, SyncWrite(w) PROVE Steps(p)
  <2>1. \/ payment'[p] = payment[p]
        \/ /\ payment[p].status = "prepared"
           /\ payment'[p] = [payment[p] EXCEPT !.status = "expired"]
    BY <1>13 DEF SyncWrite
  <2> QED  BY <1>3, <2>1
<1>14. UNCHANGED payment \/ SettlementNext
  BY DEF allVars
<1>15. CASE SettlementNext
  <2> HIDE DEF Steps
  <2> QED  BY <1>1, <1>4, <1>5, <1>6, <1>7, <1>8, <1>9, <1>11, <1>12, <1>13, <1>15,
              PaymentSteps
<1> QED  BY <1>1, <1>14, <1>15

\* One step of the transactions on chain.
ChainStep(p) ==
    /\ \/ tx'[p] = tx[p]
       \/ /\ tx[p] = "unsent" /\ tx'[p] = "wire" /\ UNCHANGED <<payment, visible, window>>
          /\ \E w \in Workers : at[w] \in {"s_send", "r_resend"} /\ on[w] = p
       \/ /\ tx[p] = "wire" /\ tx'[p] \in {"landed", "reverted"} /\ window[p] = "open"
          /\ UNCHANGED <<payment, visible, window>>
    /\ \/ visible'[p] = visible[p]
       \/ OnChain(p) /\ visible'[p] = TRUE /\ tx' = tx
    /\ \/ window'[p] = window[p]
       \/ /\ window'[p] # "open" /\ tx' = tx /\ visible' = visible
          /\ window'[p] = "expired" =>
               /\ OnChain(p) => visible[p]
               /\ PromptReads => \A w \in Workers : ~(at[w] = "r_height" /\ on[w] = p)

\* How the transaction of a payment changes in a step.
LEMMA TxStep ==
    ASSUME SettlementShape, [SettlementNext]_allVars, NEW p \in Payments
    PROVE  ChainStep(p)
<1> USE DEF SettlementShape, SettlementTypeOK, TxTypeOK
<1>1. CASE UNCHANGED <<tx, visible, window>>
  BY <1>1 DEF ChainStep
<1>2. ASSUME NEW w \in Workers, SubmitSend(w) \/ ReconcileResend(w) PROVE ChainStep(p)
  <2>1. /\ at[w] \in {"s_send", "r_resend"}
        /\ Broadcast(on[w]) \/ UNCHANGED tx
        /\ UNCHANGED <<payment, visible, window>>
    BY <1>2 DEF SubmitSend, ReconcileResend
  <2>2. \/ tx'[p] = tx[p]
        \/ p = on[w] /\ tx[p] = "unsent" /\ tx'[p] = "wire"
    BY <2>1 DEF Broadcast
  <2> QED  BY <2>1, <2>2 DEF ChainStep
<1>3. ASSUME NEW q \in Payments, PayOrRevert(q) PROVE ChainStep(p)
  <2>1. /\ tx[q] = "wire" /\ window[q] = "open" /\ UNCHANGED <<payment, visible, window>>
        /\ \E e \in {"landed", "reverted"} : tx' = [tx EXCEPT ![q] = e]
    BY <1>3 DEF PayOrRevert, Include
  <2> QED  BY <2>1 DEF ChainStep
<1>4. ASSUME NEW q \in Payments, Blocks(q) PROVE ChainStep(p)
  <2>1. CASE Index(q)
    BY <2>1 DEF Index, ChainStep
  <2>2. CASE CloseWindow(q)
    BY <2>2 DEF CloseWindow, ChainStep
  <2>3. CASE PassMargin(q)
    <3>1. PromptReads => \A w \in Workers : ~(at[w] = "r_height" /\ on[w] = q)
      BY <1>4, <2>3 DEF Blocks, Index, CloseWindow, PassMargin
    <3> QED  BY <2>3, <3>1 DEF PassMargin, ChainStep
  <2> QED  BY <1>4, <2>1, <2>2, <2>3 DEF Blocks
<1>5. \/ UNCHANGED <<tx, visible, window>>
      \/ \E w \in Workers : SubmitSend(w) \/ ReconcileResend(w)
      \/ \E q \in Payments : PayOrRevert(q) \/ Blocks(q)
  BY DEF allVars, SettlementNext, Advance, PreparePayment, RefusePayment,
       RefuseWithdrawal, ExpirePrepared, ExpireOne, PaymentLapse, SettlePrepared, Settle,
       SubmitLookup, SubmitSimulate, MarkSubmitted, SubmitWait, SubmitConfirm,
       ReconcileLookup, ReconcileHeight, RecordPending, Finalize, AlreadyTerminal,
       SyncRead, SyncWrite, CallFails, Die, Earn, Exit, Onward, Carry
<1> QED  BY <1>1, <1>2, <1>3, <1>4, <1>5

\* Handlers.
WorkerOK(w) ==
    /\ at[w] \in Idling => on[w] = NoPayment
    /\ at[w] \notin Idling =>
         /\ on[w] \in Payments
         /\ payment[on[w]].status \notin Early
    /\ at[w] \in {"s_apply", "r_apply"} <=> outcome[w] # "none"
    /\ at[w] \in {"s_send", "s_wait", "s_confirm"} \cup Reconciling =>
         payment[on[w]].status # "submission_prepared"
    /\ outcome[w] = "chain" => OnChain(on[w])

\* The invariant of handlers, handler by handler.
LEMMA WorkersOK == WorkOK <=> \A w \in Workers : WorkerOK(w)
BY DEF WorkOK, WorkerOK, Early

\* Payments only move forward.
LEMMA Forward ==
    ASSUME SettlementShape, [SettlementNext]_allVars, NEW p \in Payments
    PROVE  /\ payment[p].status \notin Early => payment'[p].status \notin Early
           /\ payment[p].status \notin Early /\ payment[p].status # "submission_prepared"
                => payment'[p].status # "submission_prepared"
           /\ OnChain(p) => OnChain(p)' /\ tx'[p] = tx[p]
<1>1. Steps(p)
  BY StatusStep
<1>2. OnChain(p) => OnChain(p)' /\ tx'[p] = tx[p]
  BY TxStep DEF ChainStep, OnChain
<1> QED  BY <1>1, <1>2 DEF Steps, Early

\* Whatever the others do, a handler that does not move stays as it should be.
LEMMA Bystander ==
    ASSUME SettlementShape, [SettlementNext]_allVars, NEW w \in Workers,
           at'[w] = at[w], on'[w] = on[w], outcome'[w] = outcome[w]
    PROVE  WorkerOK(w)'
<1>1. WorkerOK(w)
  BY WorkersOK DEF SettlementShape
<1>2. CASE at[w] \in Idling
  BY <1>1, <1>2 DEF WorkerOK, Idling, Reconciling
<1>3. CASE at[w] \notin Idling
  <2>1. PICK p \in Payments : p = on[w] /\ p = on'[w]
    BY <1>1, <1>3 DEF WorkerOK
  <2>2. /\ payment[p].status \notin Early
        /\ at[w] \in {"s_send", "s_wait", "s_confirm"} \cup Reconciling =>
             payment[p].status # "submission_prepared"
        /\ outcome[w] = "chain" => OnChain(p)
        /\ at[w] \in {"s_apply", "r_apply"} <=> outcome[w] # "none"
    BY <1>1, <1>3, <2>1 DEF WorkerOK
  <2>3. /\ payment'[p].status \notin Early
        /\ payment[p].status # "submission_prepared"
             => payment'[p].status # "submission_prepared"
        /\ OnChain(p) => OnChain(p)'
    BY <2>2, Forward
  <2>4. /\ outcome'[w] = "chain" => OnChain(on[w])'
    BY <2>1, <2>2, <2>3 DEF OnChain
  <2> QED  BY <1>3, <2>1, <2>2, <2>3, <2>4 DEF WorkerOK
<1> QED  BY <1>2, <1>3

\* One handler moves; the others do not.
Alters(w) == \A v \in Workers \ {w} :
                at'[v] = at[v] /\ on'[v] = on[v] /\ outcome'[v] = outcome[v]

\* Where one handler moves, the others keep their part.
LEMMA OneMoves ==
    ASSUME SettlementShape, [SettlementNext]_allVars, NEW w \in Workers, Alters(w),
           WorkerOK(w)'
    PROVE  WorkOK'
<1>1. ASSUME NEW v \in Workers PROVE WorkerOK(v)'
  <2>1. CASE v = w
    BY <2>1
  <2>2. CASE v # w
    BY <2>2, Bystander DEF Alters
  <2> QED  BY <2>1, <2>2
<1> QED  BY <1>1 DEF WorkOK, WorkerOK, Early

\* A handler that answers has nothing left to do.
LEMMA IdleWorkerOK ==
    ASSUME SettlementTypeOK, NEW w \in Workers, Reply(w)
    PROVE  WorkerOK(w)' /\ Alters(w)
<1>1. /\ at'[w] = "idle" /\ on'[w] = NoPayment /\ outcome'[w] = "none" /\ Alters(w)
  BY DEF SettlementTypeOK, Reply, Alters
<1> QED  BY <1>1 DEF WorkerOK, Idling, Reconciling

\* A handler goes on with the payment it has.
LEMMA MovesOn ==
    ASSUME SettlementShape, [SettlementNext]_allVars, NEW w \in Workers,
           at[w] \notin Idling, NEW label \in Awaits \ Idling, Move(w, label),
           UNCHANGED on,
           label \in {"s_apply", "r_apply"} <=> outcome'[w] # "none",
           outcome'[w] = "chain" => OnChain(on[w])',
           \A v \in Workers \ {w} : outcome'[v] = outcome[v],
           label \in {"s_send", "s_wait", "s_confirm"} \cup Reconciling =>
             payment'[on[w]].status # "submission_prepared"
    PROVE  WorkOK'
<1>1. at'[w] = label /\ Alters(w)
  BY DEF Move, SettlementShape, SettlementTypeOK, Alters
<1>2. WorkerOK(w)
  BY WorkersOK DEF SettlementShape
<1>3. PICK p \in Payments : p = on[w] /\ p = on'[w] /\ payment[p].status \notin Early
  BY <1>2 DEF WorkerOK
<1>4. payment'[p].status \notin Early
  BY <1>3, Forward
<1>5. outcome'[w] = "chain" => OnChain(on[w])'
  OBVIOUS
<1>6. WorkerOK(w)'
  BY <1>1, <1>3, <1>4, <1>5 DEF WorkerOK
<1> QED  BY <1>1, <1>6, OneMoves

\* Every step keeps what handlers work on.
LEMMA WorkStep ==
    ASSUME SettlementShape, [SettlementNext]_allVars PROVE WorkOK'
<1>0. /\ SettlementTypeOK /\ \A w \in Workers : WorkerOK(w)
      /\ at \in [Workers -> Awaits] /\ on \in [Workers -> Payments \cup {NoPayment}]
      /\ outcome \in [Workers -> {"none", "chain", "not_submitted"}]
      /\ payment \in [Payments -> PaymentIntent]
  BY WorkersOK DEF SettlementShape, SettlementTypeOK
<1>1. CASE UNCHANGED <<at, on, outcome>>
  BY <1>1, Bystander DEF WorkOK, WorkerOK, Early
<1>2. ASSUME NEW w \in Workers, Reply(w) PROVE WorkOK'
  BY <1>0, <1>2, IdleWorkerOK, OneMoves
<1>3. ASSUME NEW w \in Workers, NEW p \in Payments, SettlePrepared(w, p) \/ Settle(w, p)
      PROVE  WorkOK'
  <2>1. PICK label \in {"s_lookup", "r_lookup"} :
          /\ Move(w, label)
          /\ label = "r_lookup" => payment[p].status = "submitted" /\ payment' = payment
    BY <1>3 DEF SettlePrepared, Settle
  <2>2. /\ at'[w] = label /\ on'[w] = p /\ outcome' = outcome /\ at[w] = "idle" /\ Alters(w)
    BY <1>0, <1>3, <2>1 DEF SettlePrepared, Settle, Move, Alters
  <2>3. outcome[w] = "none"
    BY <1>0, <2>2 DEF WorkerOK
  <2>4. payment'[p].status \in {"submission_prepared", "submitted"}
    BY <1>0, <1>3 DEF SettlePrepared, Settle, Submitted, PaymentIntent
  <2>5. WorkerOK(w)'
    BY <2>1, <2>2, <2>3, <2>4 DEF WorkerOK, Idling, Early, Reconciling
  <2> QED  BY <2>2, <2>5, OneMoves
<1>4. ASSUME NEW w \in Workers, SyncRead(w) PROVE WorkOK'
  <2>1. at'[w] = "sync" /\ on' = on /\ outcome' = outcome /\ at[w] = "idle" /\ Alters(w)
    BY <1>0, <1>4 DEF SyncRead, Move, Alters
  <2>2. WorkerOK(w)'
    BY <1>0, <2>1 DEF WorkerOK, Idling, Reconciling
  <2> QED  BY <2>1, <2>2, OneMoves
\* A handler under way: from which label, to which, with which outcome.
<1>5. ASSUME NEW w \in Workers, at[w] \notin Idling \cup {"s_apply", "r_apply"},
             NEW label \in Awaits \ Idling, Move(w, label), UNCHANGED <<on, outcome>>,
             label \notin {"s_apply", "r_apply"},
             label \in {"s_send", "s_wait", "s_confirm"} \cup Reconciling =>
               payment'[on[w]].status # "submission_prepared"
      PROVE  WorkOK'
  <2>1. outcome[w] = "none"
    BY <1>0, <1>5 DEF WorkerOK
  <2> QED  BY <1>5, <2>1, MovesOn
<1>6. ASSUME NEW w \in Workers, at[w] \notin Idling \cup {"s_apply", "r_apply"},
             NEW label \in {"s_apply", "r_apply"}, NEW result \in {"chain", "not_submitted"},
             Carry(w, result, label), result = "chain" => OnChain(on[w]),
             label = "r_apply" => at[w] \in Reconciling
      PROVE  WorkOK'
  <2>1. /\ Move(w, label) /\ UNCHANGED <<on, payment, tx>> /\ outcome'[w] = result
        /\ \A v \in Workers \ {w} : outcome'[v] = outcome[v]
    BY <1>0, <1>6 DEF Carry
  <2>2. label \in Awaits \ Idling
    BY DEF Awaits, Submitting, Reconciling, Idling
  <2>3. label \in Reconciling => payment'[on[w]].status # "submission_prepared"
    BY <1>0, <1>6, <2>1 DEF WorkerOK, Reconciling
  <2>4. outcome'[w] = "chain" => OnChain(on[w])'
    BY <1>6, <2>1 DEF OnChain
  <2>5. label \notin {"s_send", "s_wait", "s_confirm"}
    OBVIOUS
  <2> QED  BY <1>6, <2>1, <2>2, <2>3, <2>4, <2>5, MovesOn
<1>7. ASSUME NEW w \in Workers, at[w] \notin Idling, Found(on[w]) PROVE OnChain(on[w])
  <2>1. PICK p \in Payments : p = on[w]
    BY <1>0, <1>7 DEF WorkerOK
  <2>2. visible[p] => OnChain(p)
    BY DEF SettlementShape, SentOK
  <2> QED  BY <1>7, <2>1, <2>2 DEF Found
<1> DEFINE Labels == {"s_simulate", "s_mark", "s_send", "s_wait", "s_confirm", "pending",
                      "r_height", "r_resend"}
<1>8. /\ Labels \subseteq Awaits \ Idling /\ Labels \cap {"s_apply", "r_apply"} = {}
      /\ {"s_lookup", "s_simulate", "s_mark", "s_send", "s_wait", "s_confirm", "pending",
          "r_lookup", "r_height", "r_resend"} \cap (Idling \cup {"s_apply", "r_apply"}) = {}
      /\ Labels \cap ({"s_send", "s_wait", "s_confirm"} \cup Reconciling)
           = {"s_send", "s_wait", "s_confirm", "r_height", "r_resend"}
      /\ {"r_lookup", "r_height", "r_resend"} \subseteq Reconciling
  BY DEF Awaits, Submitting, Reconciling, Idling
<1>9. ASSUME NEW w \in Workers, NEW label \in Labels, Move(w, label),
             UNCHANGED <<on, outcome, payment>>,
             at[w] \in {"s_lookup", "s_simulate", "s_send", "s_wait", "s_confirm", "pending",
                        "r_lookup", "r_height", "r_resend"},
             label \in {"s_send", "s_wait", "s_confirm", "r_height", "r_resend"} =>
               at[w] \in {"s_send", "s_wait", "s_confirm", "r_lookup", "r_height"}
      PROVE  WorkOK'
  <2>1. label \in {"s_send", "s_wait", "s_confirm"} \cup Reconciling =>
          payment'[on[w]].status # "submission_prepared"
    BY <1>0, <1>8, <1>9 DEF WorkerOK
  <2> HIDE DEF Labels
  <2> QED  BY <1>5, <1>8, <1>9, <2>1
<1>10. CASE \E w \in Workers : SubmitLookup(w) \/ ReconcileLookup(w) \/ SubmitConfirm(w)
  BY <1>6, <1>7, <1>8, <1>9, <1>10 DEF SubmitLookup, ReconcileLookup, SubmitConfirm, Onward,
                                 Carry
<1>11. CASE \E w \in Workers : SubmitSimulate(w) \/ SubmitWait(w) \/ ReconcileHeight(w)
  BY <1>6, <1>8, <1>9, <1>11 DEF SubmitSimulate, SubmitWait, ReconcileHeight, Onward, Carry
<1>12. CASE \E w \in Workers : SubmitSend(w) \/ ReconcileResend(w) \/ CallFails(w)
  BY <1>9, <1>12 DEF SubmitSend, ReconcileResend, CallFails
<1>13. ASSUME NEW w \in Workers, MarkSubmitted(w) PROVE WorkOK'
  <2>1. on[w] \in Payments
    BY <1>0, <1>8, <1>13 DEF MarkSubmitted, WorkerOK
  <2>2. payment'[on[w]].status # "submission_prepared"
    BY <1>0, <1>13, <2>1 DEF MarkSubmitted, PaymentIntent
  <2> QED  BY <1>5, <1>8, <1>13, <2>2 DEF MarkSubmitted
<1>14. CASE \E w \in Workers : RecordPending(w) \/ Finalize(w) \/ AlreadyTerminal(w)
                               \/ SyncWrite(w) \/ Die(w)
  BY <1>2, <1>14 DEF RecordPending, Finalize, AlreadyTerminal, SyncWrite, Die
<1>15. \/ UNCHANGED <<at, on, outcome>>
       \/ \E w \in Workers, p \in Payments : SettlePrepared(w, p) \/ Settle(w, p)
       \/ \E w \in Workers : Advance(w) \/ SyncRead(w) \/ CallFails(w) \/ Die(w)
  BY DEF allVars, SettlementNext, PreparePayment, RefusePayment, RefuseWithdrawal,
         ExpirePrepared, ExpireOne, PaymentLapse, PayOrRevert, Blocks, Earn, Exit
<1> QED
  BY <1>1, <1>3, <1>4, <1>10, <1>11, <1>12, <1>13, <1>14, <1>15 DEF Advance

\* Nothing is sent before it is recorded.
LEMMA SentStep ==
    ASSUME SettlementShape, [SettlementNext]_allVars PROVE SentOK'
<1> SUFFICES ASSUME NEW p \in Payments
             PROVE  /\ payment'[p].status \in Early \cup {"submission_prepared"}
                         => tx'[p] = "unsent"
                    /\ visible'[p] => OnChain(p)'
                    /\ (window'[p] = "expired" /\ OnChain(p)') => visible'[p]
                    /\ payment'[p].status = "absent" => payment'[p].request = NoRequest
  BY DEF SentOK, Early
<1>0. /\ payment[p].status \in Early \cup {"submission_prepared"} => tx[p] = "unsent"
      /\ visible[p] => OnChain(p)
      /\ (window[p] = "expired" /\ OnChain(p)) => visible[p]
      /\ payment[p].status = "absent" => payment[p].request = NoRequest
  BY DEF SettlementShape, SentOK, Early
<1>1. ChainStep(p) /\ Steps(p)
  BY TxStep, StatusStep
<1>2. ASSUME payment'[p].status \in Early \cup {"submission_prepared"}
      PROVE  tx'[p] = "unsent"
  <2>1. payment[p].status \in Early \cup {"submission_prepared"}
    BY <1>2, Forward
  <2>2. tx[p] = "unsent"
    BY <1>0, <2>1
  <2>3. ASSUME NEW w \in Workers, at[w] \in {"s_send", "r_resend"}, on[w] = p
        PROVE  FALSE
    <3>1. WorkerOK(w)
      BY WorkersOK DEF SettlementShape
    <3>2. at[w] \notin Idling /\ at[w] \in {"s_send", "s_wait", "s_confirm"} \cup Reconciling
      BY <2>3 DEF Idling, Reconciling
    <3> QED  BY <2>1, <2>3, <3>1, <3>2 DEF WorkerOK
  <2> QED  BY <1>1, <2>2, <2>3 DEF ChainStep
<1>3. visible'[p] => OnChain(p)'
  <2>1. OnChain(p) => OnChain(p)'
    BY Forward
  <2> QED  BY <1>0, <1>1, <2>1 DEF ChainStep
<1>4. (window'[p] = "expired" /\ OnChain(p)') => visible'[p]
  BY <1>0, <1>1 DEF ChainStep, OnChain
<1>5. payment'[p].status = "absent" => payment'[p].request = NoRequest
  BY <1>0, <1>1 DEF Steps
<1> QED  BY <1>2, <1>3, <1>4, <1>5

\* A request is prepared again only when every earlier answer has failed.
LEMMA AnswerStep ==
    ASSUME SettlementShape, [SettlementNext]_allVars PROVE OneAnswer'
<1> DEFINE Over == {"absent"} \cup FailedStatuses
<1> SUFFICES ASSUME NEW p \in Payments, NEW q \in Payments, p # q,
                    payment'[p].request = payment'[q].request,
                    payment'[p].status \notin Over, payment'[q].status \notin Over
             PROVE  FALSE
  BY DEF OneAnswer
<1>0. payment \in [Payments -> PaymentIntent]
  BY DEF SettlementShape, SettlementTypeOK
<1>1. Steps(p) /\ Steps(q)
  BY StatusStep
<1>2. ASSUME NEW x \in Payments, Steps(x), payment'[x].status \notin Over,
             payment[x].status # "absent"
      PROVE  payment[x].status \notin Over /\ payment'[x].request = payment[x].request
  BY <1>2 DEF Steps, SameTerms, FailedStatuses
<1>3. CASE payment[p].status # "absent" /\ payment[q].status # "absent"
  BY <1>1, <1>2, <1>3 DEF SettlementShape, OneAnswer
\* A payment is new: the other one answered the request already.
<1>4. ASSUME NEW x \in Payments, NEW y \in Payments, x # y, payment[x].status = "absent",
             payment'[x].status \notin Over, payment'[y].status \notin Over,
             payment'[x].request = payment'[y].request, Steps(y)
      PROVE  FALSE
  <2>1. PICK z \in Payments, r \in SellerRequests : PreparePayment(z, r)
    <3>1. payment'[x] # payment[x] /\ SettlementNext
      BY <1>4 DEF allVars
    <3>2. x \notin Stale
      BY <1>4 DEF Stale
    <3>3. ASSUME NEW w \in Workers, MarkSubmitted(w) \/ RecordPending(w) \/ Finalize(w)
          PROVE  payment'[x] = payment[x]
      <4>1. on[w] # x
        BY <1>4, <3>3, WorkersOK
           DEF SettlementShape, WorkerOK, MarkSubmitted, RecordPending, Finalize, Idling, Early
      <4> QED  BY <1>0, <3>3, <4>1 DEF MarkSubmitted, RecordPending, Finalize
    <3>4. ASSUME NEW w \in Workers, SyncWrite(w) PROVE payment'[x] = payment[x]
      BY <1>4, <3>4 DEF SyncWrite
    <3>5. ASSUME NEW z \in Payments,
                 \/ ExpireOne(z) \/ PaymentLapse(z)
                 \/ \E w \in Workers : SettlePrepared(w, z)
          PROVE  payment'[x] = payment[x]
      BY <1>0, <1>4, <3>2, <3>5 DEF ExpireOne, PaymentLapse, SettlePrepared
    <3>6. payment' = ExpiredPayments => payment'[x] = payment[x]
      BY <3>2 DEF ExpiredPayments
    <3> QED  BY <3>1, <3>3, <3>4, <3>5, <3>6, PaymentSteps
  <2>2. /\ payment' = [ExpiredPayments EXCEPT ![z] = payment'[z]]
        /\ payment'[z].request = r /\ Open(r) /\ DOMAIN ExpiredPayments = Payments
        /\ payment[z].status = "absent"
    BY <2>1 DEF PreparePayment, ExpiredPayments
  <2>3. z = x
    <3>1. ASSUME z # x PROVE payment'[x] = payment[x]
      BY <1>4, <2>2, <3>1 DEF ExpiredPayments, Stale
    <3> QED  BY <1>4, <3>1
  <2>4. payment'[y] = IF y \in Stale THEN [payment[y] EXCEPT !.status = "expired"]
                      ELSE payment[y]
    BY <1>4, <2>2, <2>3 DEF ExpiredPayments
  <2>5. y \notin Stale
    <3>1. ASSUME y \in Stale PROVE payment'[y].status = "expired"
      BY <1>0, <2>4, <3>1 DEF PaymentIntent
    <3> QED  BY <1>4, <3>1 DEF FailedStatuses
  <2>6. payment[y].request = r /\ payment[y].status \notin Over
    BY <1>4, <2>2, <2>3, <2>4, <2>5
  <2> QED  BY <2>2, <2>5, <2>6 DEF Open
<1>5. CASE payment[p].status = "absent"
  BY <1>1, <1>4, <1>5
<1>6. CASE payment[q].status = "absent"
  BY <1>1, <1>4, <1>6
<1> QED  BY <1>3, <1>5, <1>6

\* The shape is inductive.
LEMMA ShapeInductive ==
    ASSUME SettlementShape, [SettlementNext]_allVars PROVE SettlementShape'
<1>1. SettlementTypeOK'
  BY TypeStep DEF SettlementShape
<1> QED  BY <1>1, WorkStep, SentStep, AnswerStep DEF SettlementShape

\* It holds initially.
LEMMA ShapeStarts == SettlementInit => SettlementShape
<1> SUFFICES ASSUME SettlementInit PROVE SettlementShape
  OBVIOUS
<1>0. /\ \A p \in Payments : /\ payment[p].status = "absent"
                             /\ payment[p].request = NoRequest
                             /\ tx[p] = "unsent" /\ visible[p] = FALSE
                             /\ window[p] = "open"
      /\ \A w \in Workers : at[w] = "idle" /\ on[w] = NoPayment /\ outcome[w] = "none"
  BY DEF SettlementInit, TxInit
<1>1. SettlementTypeOK
  <2>1. wallet \in WalletRow
    BY ConstantTypes DEF SettlementInit, WalletRow
  <2>2. payment \in [Payments -> PaymentIntent]
    BY DEF SettlementInit, PaymentIntent
  <2>3. TxTypeOK
    BY DEF SettlementInit, TxInit, TxTypeOK, TxStates, WindowStates
  <2>4. seen \in [Workers -> [version : Nat, shares : Nat, rate : Nat, force : BOOLEAN]]
    BY DEF SettlementInit, NothingSeen
  <2>5. /\ held \in Nat /\ now \in Nat \ {0} /\ exits \in Nat /\ faults \in Nat
        /\ at \in [Workers -> Awaits] /\ on \in [Workers -> Payments \cup {NoPayment}]
        /\ outcome \in [Workers -> {"none", "chain", "not_submitted"}]
    BY ConstantTypes DEF SettlementInit, Awaits
  <2> QED  BY <2>1, <2>2, <2>3, <2>4, <2>5 DEF SettlementTypeOK
<1>2. WorkOK
  BY <1>0 DEF WorkOK, Idling, Reconciling
<1>3. SentOK /\ OneAnswer
  BY <1>0 DEF SentOK, OneAnswer, OnChain
<1> QED  BY <1>1, <1>2, <1>3 DEF SettlementShape

\* Types, handlers, transactions and answers, for any number of handlers.
THEOREM ShapeInvariant == SettlementSpec => []SettlementShape
BY ShapeStarts, ShapeInductive, PTL DEF SettlementSpec

(***************************************************************************)
(* Every row, snapshot and outcome keeps its type: no reservation, fee     *)
(* debt or share count of the ledger goes below zero, whatever is settled, *)
(* expired or reset (clampToZero, applySettlementResultToPosition).        *)
(***************************************************************************)
THEOREM SettlementTypeCorrect == SettlementSpec => []SettlementTypeOK
BY ShapeInvariant, PTL DEF SettlementShape

(***************************************************************************)
(* A terminal payment keeps its status, whatever outcome a slower handler  *)
(* still carries (terminalSettlementResponseForStoredState).               *)
(***************************************************************************)
THEOREM TerminalPaymentsAreFinal == SettlementSpec => TerminalPaymentIsFinal
<1>1. ASSUME SettlementShape, [SettlementNext]_allVars, NEW p \in Payments,
             payment[p].status \in TerminalStatuses
      PROVE  payment'[p] = payment[p]
  BY <1>1, StatusStep DEF Steps, TerminalStatuses, FailedStatuses
<1>2. SettlementShape /\ [SettlementNext]_allVars =>
        [\A p \in Payments :
           payment[p].status \in TerminalStatuses => payment'[p] = payment[p]]_allVars
  BY <1>1
<1> QED  BY <1>2, ShapeInvariant, PTL DEF SettlementSpec, TerminalPaymentIsFinal

-----------------------------------------------------------------------------
(* One handler at a time per wallet, as the seller's sequential retries and *)
(* a recovery run without traffic give it.                                  *)

OneHandler == \A v, w \in Workers : v = w

SoleInv == SettlementShape /\ AloneOK /\ FailedDead

\* While no handler moves, stored payments stay as they are.
LEMMA StoredStays ==
    ASSUME SettlementShape, [SettlementNext]_allVars, UNCHANGED <<at, on, outcome>>,
           NEW p \in Payments, payment[p].status \notin Early
    PROVE  payment'[p] = payment[p]
<1>0. payment \in [Payments -> PaymentIntent] /\ at \in [Workers -> Awaits]
  BY DEF SettlementShape, SettlementTypeOK
<1>1. payment[p].status \notin {"absent", "prepared"} /\ p \notin Stale
  BY DEF Early, Stale
<1>2. CASE UNCHANGED payment
  BY <1>2
<1>3. CASE payment' = ExpiredPayments
  BY <1>1, <1>3 DEF ExpiredPayments
<1>4. ASSUME NEW q \in Payments, NEW r \in SellerRequests, PreparePayment(q, r)
      PROVE  payment'[p] = payment[p]
  BY <1>1, <1>4 DEF PreparePayment, ExpiredPayments
<1>5. ASSUME NEW q \in Payments,
             \/ ExpireOne(q) \/ PaymentLapse(q)
             \/ \E w \in Workers : SettlePrepared(w, q)
      PROVE  payment'[p] = payment[p]
  BY <1>0, <1>1, <1>5 DEF ExpireOne, PaymentLapse, SettlePrepared
<1>6. ASSUME NEW w \in Workers,
             MarkSubmitted(w) \/ RecordPending(w) \/ Finalize(w) \/ SyncWrite(w)
      PROVE  FALSE
  BY <1>0, <1>6 DEF MarkSubmitted, RecordPending, Finalize, SyncWrite, Reply, Move
<1>7. UNCHANGED payment \/ SettlementNext
  BY DEF allVars
<1>8. CASE SettlementNext
  BY <1>2, <1>3, <1>4, <1>5, <1>6, <1>8, PaymentSteps
<1> QED  BY <1>2, <1>7, <1>8

\* A transaction that will never land stays so while nobody sends it.
LEMMA NeverLandsStays ==
    ASSUME SettlementShape, [SettlementNext]_allVars, NEW p \in Payments, NeverLands(p),
           \A w \in Workers : ~(at[w] \in {"s_send", "r_resend"} /\ on[w] = p)
    PROVE  NeverLands(p)'
BY TxStep DEF ChainStep, NeverLands

HandlerAlone(w) ==
    /\ at[w] \notin Idling => payment[on[w]].status \in LiveStatuses
    /\ at[w] \in {"s_lookup", "s_simulate", "s_mark"} =>
         payment[on[w]].status = "submission_prepared"
    /\ outcome[w] = "not_submitted" => NeverLands(on[w])
    /\ (at[w] = "r_height" /\ window[on[w]] = "expired") => ~OnChain(on[w])

\* What the sole handler knows survives the steps of everything else.
LEMMA AloneKept ==
    ASSUME SoleInv, [SettlementNext]_allVars, OneHandler, PromptReads = TRUE,
           UNCHANGED <<at, on, outcome>>, NEW w \in Workers
    PROVE  HandlerAlone(w)'
<1>0. WorkerOK(w) /\ HandlerAlone(w) /\ SettlementShape
  BY WorkersOK DEF SoleInv, SettlementShape, AloneOK, HandlerAlone
<1>1. CASE at[w] \in Idling
  BY <1>0, <1>1 DEF WorkerOK, HandlerAlone, Idling
<1>2. CASE at[w] \notin Idling
  <2>1. PICK p \in Payments : p = on[w] /\ p = on'[w] /\ payment[p].status \notin Early
    BY <1>0, <1>2 DEF WorkerOK
  <2>2. payment'[p] = payment[p]
    BY <1>0, <2>1, StoredStays
  <2>3. ASSUME outcome[w] = "not_submitted" PROVE NeverLands(p)'
    <3>1. NeverLands(p) /\ at[w] \in {"s_apply", "r_apply"}
      BY <1>0, <2>1, <2>3 DEF HandlerAlone, WorkerOK
    <3>2. \A v \in Workers : at[v] \notin {"s_send", "r_resend"}
      BY <3>1 DEF OneHandler
    <3> QED  BY <1>0, <3>1, <3>2, NeverLandsStays
  <2>4. ASSUME at[w] = "r_height", window'[p] = "expired" PROVE ~OnChain(p)'
    <3>1. ChainStep(p)
      BY <1>0, TxStep
    <3>2. window[p] = "expired"
      BY <2>1, <2>4, <3>1 DEF ChainStep
    <3>3. ~OnChain(p)
      BY <1>0, <2>1, <2>4, <3>2 DEF HandlerAlone
    <3> QED  BY <3>1, <3>2, <3>3 DEF ChainStep, OnChain
  <2>5. /\ outcome'[w] = "not_submitted" => NeverLands(on[w])'
        /\ (at'[w] = "r_height" /\ window'[on'[w]] = "expired") => ~OnChain(on[w])'
    BY <2>1, <2>3, <2>4 DEF NeverLands, OnChain
  <2> QED  BY <1>0, <1>2, <2>1, <2>2, <2>5 DEF HandlerAlone
<1> QED  BY <1>1, <1>2

\* The steps of the sole handler itself.
LEMMA AloneMoves ==
    ASSUME SoleInv, SettlementNext, NEW w \in Workers,
           \/ Advance(w) \/ SyncRead(w) \/ CallFails(w) \/ Die(w)
           \/ \E p \in Payments : SettlePrepared(w, p) \/ Settle(w, p)
    PROVE  HandlerAlone(w)'
<1>0. /\ WorkerOK(w) /\ HandlerAlone(w) /\ SettlementShape
      /\ at \in [Workers -> Awaits] /\ on \in [Workers -> Payments \cup {NoPayment}]
      /\ outcome \in [Workers -> {"none", "chain", "not_submitted"}]
      /\ payment \in [Payments -> PaymentIntent]
  BY WorkersOK DEF SoleInv, SettlementShape, SettlementTypeOK, AloneOK, HandlerAlone
<1>1. CASE \/ RecordPending(w) \/ Finalize(w) \/ AlreadyTerminal(w) \/ SyncWrite(w)
           \/ Die(w)
  <2>1. at'[w] = "idle" /\ outcome'[w] = "none"
    BY <1>0, <1>1 DEF RecordPending, Finalize, AlreadyTerminal, SyncWrite, Die, Reply
  <2> QED  BY <2>1 DEF HandlerAlone, Idling
<1>2. CASE SyncRead(w)
  <2>1. at'[w] = "sync" /\ outcome'[w] = outcome[w] /\ at[w] = "idle"
    BY <1>0, <1>2 DEF SyncRead, Move
  <2> QED  BY <1>0, <2>1 DEF HandlerAlone, WorkerOK, Idling
<1>3. ASSUME NEW p \in Payments, SettlePrepared(w, p) \/ Settle(w, p)
      PROVE  HandlerAlone(w)'
  <2>1. at[w] = "idle" /\ outcome'[w] = outcome[w] /\ on'[w] = p
        /\ at'[w] \in {"s_lookup", "r_lookup"}
    BY <1>0, <1>3 DEF SettlePrepared, Settle, Move
  <2>2. outcome[w] = "none"
    BY <1>0, <2>1 DEF WorkerOK
  <2>3. /\ payment'[p].status \in {"submission_prepared", "submitted"}
        /\ at'[w] = "s_lookup" => payment'[p].status = "submission_prepared"
    BY <1>0, <1>3 DEF SettlePrepared, Settle, Submitted, Move, PaymentIntent
  <2> QED  BY <2>1, <2>2, <2>3 DEF HandlerAlone, LiveStatuses
<1>4. ASSUME at[w] \notin Idling
      PROVE  \E p \in Payments : p = on[w] /\ payment[p].status \in LiveStatuses
  BY <1>0, <1>4 DEF WorkerOK, HandlerAlone
\* The handler moves on with nothing in hand.
<1>5. ASSUME NEW label, Move(w, label), UNCHANGED <<on, outcome>>,
             at[w] \notin Idling \cup {"s_apply", "r_apply"},
             payment'[on[w]].status \in LiveStatuses,
             label \in {"s_lookup", "s_simulate", "s_mark"} =>
               payment'[on[w]].status = "submission_prepared",
             (label = "r_height" /\ window'[on[w]] = "expired") => ~OnChain(on[w])'
      PROVE  HandlerAlone(w)'
  <2>1. at'[w] = label /\ outcome'[w] = "none" /\ on'[w] = on[w]
    BY <1>0, <1>5 DEF Move, WorkerOK
  <2>2. ~OnChain(on[w])' => tx'[on'[w]] \notin {"landed", "reverted"}
    BY DEF OnChain
  <2> QED  BY <1>5, <2>1, <2>2 DEF HandlerAlone, OnChain
\* It carries an outcome.
<1>6. ASSUME NEW label \in {"s_apply", "r_apply"}, NEW result, Carry(w, result, label),
             at[w] \notin Idling, result = "not_submitted" => NeverLands(on[w])
      PROVE  HandlerAlone(w)'
  <2>1. /\ at'[w] = label /\ outcome'[w] = result /\ on' = on /\ payment' = payment
        /\ tx' = tx /\ window' = window
    BY <1>0, <1>6 DEF Carry, Move
  <2>2. payment[on[w]].status \in LiveStatuses
    BY <1>4, <1>6
  <2>3. result = "not_submitted" => NeverLands(on[w])'
    BY <1>6, <2>1 DEF NeverLands
  <2> QED  BY <2>1, <2>2, <2>3 DEF HandlerAlone
<1>7. CASE SubmitLookup(w)
  <2>1. at[w] \notin Idling \cup {"s_apply", "r_apply"}
        /\ payment[on[w]].status = "submission_prepared"
    BY <1>0, <1>7 DEF SubmitLookup, Idling, HandlerAlone
  <2> QED  BY <1>5, <1>6, <1>7, <2>1 DEF SubmitLookup, Onward, LiveStatuses
<1>8. CASE SubmitSimulate(w)
  <2>1. at[w] \notin Idling \cup {"s_apply", "r_apply"}
        /\ payment[on[w]].status = "submission_prepared"
    BY <1>0, <1>8 DEF SubmitSimulate, Idling, HandlerAlone
  <2>2. NeverLands(on[w])
    BY <1>0, <1>4, <2>1 DEF SettlementShape, SentOK, NeverLands
  <2> QED  BY <1>5, <1>6, <1>8, <2>1, <2>2 DEF SubmitSimulate, Onward, LiveStatuses
<1>9. CASE MarkSubmitted(w)
  <2>1. at[w] \notin Idling \cup {"s_apply", "r_apply"} /\ on[w] \in Payments
    BY <1>0, <1>9 DEF MarkSubmitted, Idling, WorkerOK
  <2>2. payment'[on[w]].status \in LiveStatuses
    BY <1>0, <1>4, <1>9, <2>1 DEF MarkSubmitted, PaymentIntent, LiveStatuses
  <2> QED  BY <1>5, <1>9, <2>1, <2>2 DEF MarkSubmitted
<1>10. CASE SubmitSend(w) \/ ReconcileResend(w) \/ CallFails(w)
  <2>1. /\ at[w] \notin Idling \cup {"s_apply", "r_apply"}
        /\ UNCHANGED <<payment, on, outcome>>
        /\ \E label \in {"s_wait", "pending"} : Move(w, label)
    BY <1>10 DEF SubmitSend, ReconcileResend, CallFails, Idling
  <2> QED  BY <1>4, <1>5, <2>1
\* A receipt that is not found past the margin will never be.
<1>11. ASSUME at[w] \notin Idling, ~Found(on[w]), HeightPastMargin(on[w])
       PROVE  ~OnChain(on[w])
  <2>1. PICK p \in Payments : p = on[w]
    BY <1>4, <1>11
  <2>2. (window[p] = "expired" /\ OnChain(p)) => visible[p]
    BY <1>0 DEF SettlementShape, SentOK
  <2> QED  BY <1>11, <2>1, <2>2 DEF Found, HeightPastMargin
<1>12. ASSUME at[w] \notin Idling, ~OnChain(on[w]), HeightPastMargin(on[w])
       PROVE  NeverLands(on[w])
  <2>1. PICK p \in Payments : p = on[w]
    BY <1>4, <1>12
  <2>2. tx[p] \in TxStates
    BY <1>0 DEF SettlementShape, SettlementTypeOK, TxTypeOK
  <2> QED  BY <1>12, <2>1, <2>2 DEF NeverLands, OnChain, HeightPastMargin, TxStates
<1>13. CASE SubmitWait(w) \/ SubmitConfirm(w)
  <2>1. at[w] \notin Idling \cup {"s_apply", "r_apply"}
    BY <1>13 DEF SubmitWait, SubmitConfirm, Idling
  <2>2. \/ \E label \in {"s_confirm", "pending"} : Onward(w, label)
        \/ Carry(w, "chain", "s_apply")
        \/ Carry(w, "not_submitted", "s_apply") /\ NeverLands(on[w])
    BY <1>11, <1>12, <1>13, <2>1 DEF SubmitWait, SubmitConfirm
  <2>3. ASSUME NEW label \in {"s_confirm", "pending"}, Onward(w, label)
        PROVE  HandlerAlone(w)'
    BY <1>4, <1>5, <2>1, <2>3 DEF Onward
  <2> QED  BY <1>6, <2>1, <2>2, <2>3
<1>14. CASE ReconcileLookup(w)
  <2>1. at[w] \notin Idling \cup {"s_apply", "r_apply"}
    BY <1>14 DEF ReconcileLookup, Idling
  <2>2. CASE Found(on[w])
    BY <1>6, <1>14, <2>1, <2>2 DEF ReconcileLookup
  <2>3. CASE ~Found(on[w])
    <3>1. Onward(w, "r_height")
      BY <1>14, <2>3 DEF ReconcileLookup
    <3>2. (window'[on[w]] = "expired") => ~OnChain(on[w])'
      BY <1>11, <2>1, <2>3, <3>1 DEF Onward, HeightPastMargin, OnChain
    <3> QED  BY <1>4, <1>5, <2>1, <3>1, <3>2 DEF Onward
  <2> QED  BY <2>2, <2>3
<1>15. CASE ReconcileHeight(w)
  <2>1. at[w] \notin Idling \cup {"s_apply", "r_apply"}
    BY <1>15 DEF ReconcileHeight, Idling
  <2>2. CASE HeightPastMargin(on[w])
    <3>1. ~OnChain(on[w])
      BY <1>0, <1>15, <2>2 DEF ReconcileHeight, HandlerAlone, HeightPastMargin
    <3> QED  BY <1>6, <1>12, <1>15, <2>1, <2>2, <3>1 DEF ReconcileHeight
  <2>3. CASE ~HeightPastMargin(on[w])
    <3>1. Onward(w, "r_resend")
      BY <1>15, <2>3 DEF ReconcileHeight
    <3> QED  BY <1>4, <1>5, <2>1, <3>1 DEF Onward
  <2> QED  BY <2>2, <2>3
<1> QED
  BY <1>1, <1>2, <1>3, <1>7, <1>8, <1>9, <1>10, <1>13, <1>14, <1>15 DEF Advance

\* With one prompt handler, write-offs stay true.
LEMMA SoleStep ==
    ASSUME SoleInv, [SettlementNext]_allVars, OneHandler, PromptReads = TRUE
    PROVE  SoleInv'
<1>0. SettlementShape /\ SettlementShape'
  BY ShapeInductive DEF SoleInv
<1>1. ASSUME NEW w \in Workers PROVE HandlerAlone(w)'
  <2>1. CASE UNCHANGED <<at, on, outcome>>
    BY <2>1, AloneKept
  <2>2. CASE ~UNCHANGED <<at, on, outcome>>
    <3>1. \/ \E v \in Workers, p \in Payments : SettlePrepared(v, p) \/ Settle(v, p)
          \/ \E v \in Workers : Advance(v) \/ SyncRead(v) \/ CallFails(v) \/ Die(v)
      BY <2>2
         DEF allVars, SettlementNext, PreparePayment, RefusePayment, RefuseWithdrawal,
             ExpirePrepared, ExpireOne, PaymentLapse, PayOrRevert, Blocks, Earn, Exit
    <3>2. SettlementNext
      BY <2>2 DEF allVars
    <3>3. \A v \in Workers : v = w
      BY DEF OneHandler
    <3> QED  BY <3>1, <3>2, <3>3, AloneMoves
  <2> QED  BY <2>1, <2>2
<1>2. AloneOK'
  BY <1>1 DEF AloneOK, HandlerAlone
<1>3. ASSUME NEW p \in Payments, payment'[p].status \in FailedStatuses
      PROVE  NeverLands(p)'
  <2>1. CASE payment'[p].status = "expired"
    BY <1>0, <2>1 DEF SettlementShape, SentOK, NeverLands
  <2>2. CASE payment[p].status \in FailedStatuses
    <3>1. NeverLands(p)
      BY <2>2 DEF SoleInv, FailedDead
    <3>2. ASSUME NEW w \in Workers, at[w] \in {"s_send", "r_resend"}, on[w] = p
          PROVE  FALSE
      BY <2>2, <3>2 DEF SoleInv, AloneOK, Idling, LiveStatuses, FailedStatuses
    <3> QED  BY <1>0, <3>1, <3>2, NeverLandsStays
  <2>3. CASE payment'[p].status # "expired" /\ payment[p].status \notin FailedStatuses
    <3>1. payment \in [Payments -> PaymentIntent]
      BY <1>0 DEF SettlementShape, SettlementTypeOK
    <3>2. /\ payment'[p].status \in {"failed", "failed_not_submitted"}
          /\ payment'[p] # payment[p]
      BY <1>3, <2>3 DEF FailedStatuses
    <3>3. PICK w \in Workers : Finalize(w)
      <4>1. payment' # ExpiredPayments
        BY <3>1, <3>2 DEF ExpiredPayments, PaymentIntent
      <4>2. ASSUME NEW q \in Payments, NEW r \in SellerRequests, PreparePayment(q, r)
            PROVE  FALSE
        BY <3>1, <3>2, <4>2 DEF PreparePayment, ExpiredPayments, PaymentIntent
      <4>3. ASSUME NEW q \in Payments,
                   \/ ExpireOne(q) \/ PaymentLapse(q)
                   \/ \E w \in Workers : SettlePrepared(w, q)
            PROVE  FALSE
        <5>1. \/ payment' = [payment EXCEPT ![q].status = "expired"]
              \/ payment' = [payment EXCEPT ![q].lapsed = TRUE]
                   /\ payment[q].status = "prepared"
              \/ payment' = [payment EXCEPT ![q].status = "submission_prepared"]
          BY <4>3 DEF ExpireOne, PaymentLapse, SettlePrepared
        <5> QED  BY <3>1, <3>2, <5>1 DEF PaymentIntent
      <4>4. ASSUME NEW w \in Workers, MarkSubmitted(w) \/ RecordPending(w) \/ SyncWrite(w)
            PROVE  FALSE
        <5>1. \/ payment'[p] = payment[p]
              \/ payment'[p].status \in {"submitted", "expired"}
          BY <3>1, <4>4 DEF MarkSubmitted, RecordPending, SyncWrite, PaymentIntent
        <5> QED  BY <3>2, <5>1
      <4>5. SettlementNext
        BY <3>2 DEF allVars
      <4> QED  BY <3>2, <4>1, <4>2, <4>3, <4>4, <4>5, PaymentSteps
    <3>4. /\ p = on[w] /\ payment'[p].status = ResultOf(w) /\ UNCHANGED <<tx, window>>
          /\ at[w] \in {"s_apply", "r_apply"}
      BY <3>1, <3>2, <3>3 DEF Finalize, PaymentIntent
    <3>5. CASE outcome[w] = "not_submitted"
      <4>1. NeverLands(p)
        BY <3>4, <3>5 DEF SoleInv, AloneOK
      <4> QED  BY <3>4, <4>1 DEF NeverLands
    <3>6. CASE outcome[w] # "not_submitted"
      <4>1. outcome[w] = "chain"
        BY <1>0, <3>4, <3>6, WorkersOK DEF SettlementShape, SettlementTypeOK, WorkerOK
      <4>2. OnChain(p)
        BY <1>0, <3>4, <4>1, WorkersOK DEF SettlementShape, WorkerOK
      <4>3. tx[p] = "reverted"
        BY <3>2, <3>4, <4>1, <4>2 DEF ResultOf, OnChain
      <4> QED  BY <3>4, <4>3 DEF NeverLands
    <3> QED  BY <3>5, <3>6
  <2> QED  BY <2>1, <2>2, <2>3
<1> QED  BY <1>0, <1>2, <1>3 DEF SoleInv, FailedDead

\* Initially nothing is under way.
LEMMA SoleStarts == SettlementInit => SoleInv
<1> SUFFICES ASSUME SettlementInit PROVE SoleInv
  OBVIOUS
<1>1. AloneOK /\ FailedDead
  BY DEF SettlementInit, TxInit, AloneOK, FailedDead, NeverLands, Idling
<1> QED  BY <1>1, ShapeStarts DEF SoleInv

\* What the sole handler of a wallet's payments keeps true.
THEOREM SoleInvariant ==
    ASSUME OneHandler, PromptReads = TRUE
    PROVE  SettlementSpec => []SoleInv
<1>1. SoleInv /\ [SettlementNext]_allVars => SoleInv'
  BY SoleStep
<1> QED  BY <1>1, SoleStarts, PTL DEF SettlementSpec

(***************************************************************************)
(* Terminal failures never moved USDC to the seller, for any number of     *)
(* payments and requests and wherever handlers crash, as long as one       *)
(* handler works at a time and reconciles promptly: an expired payment was *)
(* never sent, a failed one reverted, one written off as not submitted can *)
(* no longer land (reconcilePaymentSettlement).                            *)
(***************************************************************************)
THEOREM FailedPaymentsNeverPaid ==
    ASSUME OneHandler, PromptReads = TRUE
    PROVE  SettlementSpec => []FailedNeverPaid
<1>1. SoleInv => FailedNeverPaid
  BY DEF SoleInv, FailedDead, NeverLands, FailedNeverPaid
<1> QED  BY <1>1, SoleInvariant, PTL

(***************************************************************************)
(* A seller request is paid at most once, however often it is prepared     *)
(* again after a failure (findPaymentBySellerRequest, preparePayment).     *)
(***************************************************************************)
THEOREM RequestsPaidOnce ==
    ASSUME OneHandler, PromptReads = TRUE
    PROVE  SettlementSpec => []RequestPaidOnce
<1>1. SoleInv => RequestPaidOnce
  <2> SUFFICES ASSUME SoleInv, NEW r \in SellerRequests
               PROVE  Cardinality({p \in Payments : payment[p].request = r
                                     /\ tx[p] = "landed"}) <= 1
    BY DEF RequestPaidOnce
  <2> DEFINE L == {p \in Payments : payment[p].request = r /\ tx[p] = "landed"}
  <2>1. ASSUME NEW p \in L PROVE payment[p].status \notin {"absent"} \cup FailedStatuses
    BY DEF SoleInv, SettlementShape, SentOK, FailedDead, NeverLands
  <2>2. \A p, q \in L : p = q
    BY <2>1 DEF SoleInv, SettlementShape, OneAnswer
  <2>3. L = {} \/ \E p \in L : L = {p}
    BY <2>2
  <2> HIDE DEF L
  <2>4. Cardinality(L) \in {0, 1}
    BY <2>3, FS_EmptySet, FS_Singleton
  <2>5. Cardinality(L) <= 1
    BY <2>4
  <2> QED  BY <2>5 DEF L
<1> QED  BY <1>1, SoleInvariant, PTL

-----------------------------------------------------------------------------
(* The books: what the position has reserved, and what the live payments    *)
(* hold.                                                                    *)

Reserves(rowsOf, S) == Sum([p \in Payments |-> rowsOf[p].reservation], S)
Burns(rowsOf, S)    == Sum([p \in Payments |-> rowsOf[p].shares], S)

\* The sums of the model as sums over payments, now and next.
LEMMA BookSums ==
    /\ \A S : ReservationsOf(S) = Reserves(payment, S) /\ SharesOf(S) = Burns(payment, S)
    /\ (ReservationsOf(Holding))' = Reserves(payment', Holding')
    /\ (SharesOf(Holding))' = Burns(payment', Holding')
    /\ (SharesOf(Unbooked))' = Burns(payment', Unbooked')
BY DEF ReservationsOf, SharesOf, Reserves, Burns, Sum

\* Payments can be counted in two parts.
LEMMA BookParts ==
    ASSUME NEW pay \in [Payments -> PaymentIntent], NEW S \in SUBSET Payments,
           NEW T \in SUBSET S
    PROVE  /\ Reserves(pay, S) \in Nat /\ Reserves(pay, T) \in Nat
           /\ Reserves(pay, S \ T) \in Nat
           /\ Reserves(pay, S) = Reserves(pay, T) + Reserves(pay, S \ T)
           /\ Burns(pay, S) \in Nat /\ Burns(pay, T) \in Nat /\ Burns(pay, S \ T) \in Nat
           /\ Burns(pay, S) = Burns(pay, T) + Burns(pay, S \ T)
<1> DEFINE res == [p \in Payments |-> pay[p].reservation]
           sh  == [p \in Payments |-> pay[p].shares]
<1>1. IsFiniteSet(S) /\ S \ T \in SUBSET S
  BY ConstantTypes, FS_Subset
<1>2. \A p \in S : res[p] \in Nat /\ sh[p] \in Nat
  BY DEF PaymentIntent
<1> HIDE DEF res, sh
<1>3. (\A p \in S : res[p] \in Int) /\ (\A p \in S : sh[p] \in Int)
  BY <1>2
<1>4. /\ Sum(res, S) \in Nat /\ Sum(res, T) \in Nat /\ Sum(res, S \ T) \in Nat
      /\ Sum(sh, S) \in Nat /\ Sum(sh, T) \in Nat /\ Sum(sh, S \ T) \in Nat
  BY <1>1, <1>2, SumMonotone
<1>5. Sum(res, S) = Sum(res, T) + Sum(res, S \ T)
  BY <1>1, <1>3, SumSplit
<1>6. Sum(sh, S) = Sum(sh, T) + Sum(sh, S \ T)
  BY <1>1, <1>3, SumSplit
<1> QED  BY <1>4, <1>5, <1>6 DEF Reserves, Burns, res, sh

\* One payment, or none.
LEMMA BookOne ==
    ASSUME NEW pay \in [Payments -> PaymentIntent]
    PROVE  /\ Reserves(pay, {}) = 0 /\ Burns(pay, {}) = 0
           /\ \A p \in Payments : /\ Reserves(pay, {p}) = pay[p].reservation
                                  /\ Burns(pay, {p}) = pay[p].shares
<1>1. Reserves(pay, {}) = 0 /\ Burns(pay, {}) = 0
  BY SumEmpty DEF Reserves, Burns
<1>2. ASSUME NEW p \in Payments
      PROVE  Reserves(pay, {p}) = pay[p].reservation /\ Burns(pay, {p}) = pay[p].shares
  <2> DEFINE res == [q \in Payments |-> pay[q].reservation]
             sh  == [q \in Payments |-> pay[q].shares]
  <2>1. /\ res[p] = pay[p].reservation /\ sh[p] = pay[p].shares
        /\ res[p] \in Int /\ sh[p] \in Int
    BY DEF PaymentIntent
  <2>2. {} \cup {p} = {p} /\ IsFiniteSet({}) /\ p \notin {}
    BY FS_EmptySet
  <2>3. /\ \A y \in {} \cup {p} : res[y] \in Int
        /\ \A y \in {} \cup {p} : sh[y] \in Int
    BY <2>1
  <2> HIDE DEF res, sh
  <2>4. Sum(res, {p}) = Sum(res, {}) + res[p] /\ Sum(sh, {p}) = Sum(sh, {}) + sh[p]
    <3>1. Sum(res, {} \cup {p}) = Sum(res, {}) + res[p]
      BY <2>2, <2>3, SumAdd
    <3>2. Sum(sh, {} \cup {p}) = Sum(sh, {}) + sh[p]
      BY <2>2, <2>3, SumAdd
    <3> QED  BY <2>2, <3>1, <3>2
  <2>5. Sum(res, {p}) = res[p] /\ Sum(sh, {p}) = sh[p]
    BY <2>1, <2>4, SumEmpty
  <2> QED  BY <2>1, <2>5 DEF Reserves, Burns, res, sh
<1> QED  BY <1>1, <1>2

\* Payments that keep their terms keep their sums.
LEMMA BookKept ==
    ASSUME NEW pay \in [Payments -> PaymentIntent], NEW new, NEW S \in SUBSET Payments,
           \A p \in S : /\ new[p].reservation = pay[p].reservation
                        /\ new[p].shares = pay[p].shares
    PROVE  Reserves(new, S) = Reserves(pay, S) /\ Burns(new, S) = Burns(pay, S)
<1> DEFINE res(f) == [p \in Payments |-> f[p].reservation]
           sh(f)  == [p \in Payments |-> f[p].shares]
<1>1. IsFiniteSet(S)
  BY ConstantTypes, FS_Subset
<1>2. /\ \A p \in S : res(pay)[p] = res(new)[p]
      /\ \A p \in S : sh(pay)[p] = sh(new)[p]
      /\ \A p \in S : res(pay)[p] \in Int
      /\ \A p \in S : sh(pay)[p] \in Int
  BY DEF PaymentIntent
<1> HIDE DEF res, sh
<1>3. Sum(res(pay), S) = Sum(res(new), S)
  BY <1>1, <1>2, SumSame
<1>4. Sum(sh(pay), S) = Sum(sh(new), S)
  BY <1>1, <1>2, SumSame
<1> QED  BY <1>3, <1>4 DEF Reserves, Burns, res, sh

-----------------------------------------------------------------------------
(* What a step does to the books.                                           *)

\* The row's books after the step.
Books(reserved, shares, basis) ==
    /\ wallet'.reserved = reserved
    /\ wallet'.shares = shares
    /\ wallet'.basis = basis

\* The live payments are the same.
BooksStill == Holding' = Holding /\ Books(wallet.reserved, wallet.shares, wallet.basis)

\* Prepared payments expire and their reservations are released; only a
\* refused withdrawal, saved by an in-memory ledger, keeps them.
BooksFree(S) ==
    /\ S \in SUBSET Holding
    /\ \A p \in S : payment[p].status = "prepared"
    /\ Holding' = Holding \ S
    /\ \/ Books(ClampToZero(wallet.reserved - Reserves(payment, S)),
                wallet.shares, wallet.basis)
       \/ KeepsOnThrow /\ Books(wallet.reserved, wallet.shares, wallet.basis)
    /\ UNCHANGED <<chain, locals, exits>>

\* Stale payments expire, and another one is prepared.
BooksTake(p, r) ==
    /\ PreparePayment(p, r)
    /\ p \notin Holding
    /\ Stale \in SUBSET Holding
    /\ Holding' = (Holding \ Stale) \cup {p}
    /\ wallet'.shares = wallet.shares
    /\ wallet'.basis = wallet.basis
    /\ wallet'.reserved = ClampToZero(wallet.reserved - Reserves(payment, Stale))
                            + (RequiredWithdraw + FeeEstimate)
    /\ payment'[p].reservation = RequiredWithdraw + FeeEstimate

\* The outcome of p is recorded.
BooksClose(w, p) ==
    /\ Finalize(w)
    /\ p = on[w]
    /\ p \in Holding
    /\ Holding' = Holding \ {p}
    /\ Books(ClampToZero(wallet.reserved - payment[p].reservation),
             IF ResultOf(w) = "settled" /\ payment[p].shares <= wallet.shares
               THEN wallet.shares - payment[p].shares ELSE wallet.shares,
             wallet.basis)

\* A snapshot is written; a reset starts the books afresh.
BooksReset(w) ==
    /\ SyncWrite(w) /\ MaySync(seen[w]) /\ seen[w].force
    /\ Holding' = {}
    /\ Books(0, seen[w].shares, ComputePositionValue(seen[w].shares, seen[w].rate))

BooksRefresh(w) ==
    /\ SyncWrite(w) /\ MaySync(seen[w]) /\ ~seen[w].force
    /\ Holding' = Holding
    /\ Books(wallet.reserved, seen[w].shares, wallet.basis)

\* Which payments are live after the step.
LEMMA LiveAfter ==
    ASSUME SettlementShape, [SettlementNext]_allVars
    PROVE  /\ Holding' = {p \in Payments : payment'[p].status \in LiveStatuses}
           /\ \A p \in Holding : /\ payment'[p].reservation = payment[p].reservation
                                 /\ payment'[p].shares = payment[p].shares
           /\ payment \in [Payments -> PaymentIntent]
           /\ payment' \in [Payments -> PaymentIntent]
           /\ wallet \in WalletRow /\ wallet' \in WalletRow
<1>1. Holding' = {p \in Payments : payment'[p].status \in LiveStatuses}
  BY DEF Holding
<1>2. ASSUME NEW p \in Holding
      PROVE  /\ payment'[p].reservation = payment[p].reservation
             /\ payment'[p].shares = payment[p].shares
  <2>1. p \in Payments /\ payment[p].status # "absent"
    BY DEF Holding, LiveStatuses
  <2>2. Steps(p)
    BY <2>1, StatusStep
  <2> QED  BY <2>1, <2>2 DEF Steps, SameTerms
<1>3. SettlementTypeOK /\ SettlementTypeOK'
  BY ShapeInductive DEF SettlementShape
<1> QED  BY <1>1, <1>2, <1>3 DEF SettlementTypeOK

\* What expiring stale payments does to the books.
LEMMA ExpiredBooks ==
    ASSUME SettlementShape
    PROVE  /\ Stale \in SUBSET Holding
           /\ \A p \in Stale : payment[p].status = "prepared"
           /\ ExpiredWallet.shares = wallet.shares
           /\ ExpiredWallet.basis = wallet.basis
           /\ ExpiredWallet.feeDebt = wallet.feeDebt
           /\ ExpiredWallet.reserved = ClampToZero(wallet.reserved - Reserves(payment, Stale))
           /\ \A p \in Payments : ExpiredPayments[p].status \in LiveStatuses
                                    <=> p \in Holding \ Stale
<1>1. wallet \in WalletRow /\ payment \in [Payments -> PaymentIntent]
  BY DEF SettlementShape, SettlementTypeOK
<1>2. Stale \in SUBSET Holding /\ \A p \in Stale : payment[p].status = "prepared"
  BY DEF Stale, Holding, LiveStatuses
<1>3. /\ ExpiredWallet.shares = wallet.shares /\ ExpiredWallet.basis = wallet.basis
      /\ ExpiredWallet.feeDebt = wallet.feeDebt
  BY <1>1 DEF ExpiredWallet, WalletRow
<1>4. ExpiredWallet.reserved = ClampToZero(wallet.reserved - Reserves(payment, Stale))
  <2>1. CASE Stale = {}
    <3>1. Reserves(payment, Stale) = 0 /\ ExpiredWallet = wallet
      BY <1>1, <2>1, BookOne DEF ExpiredWallet
    <3> QED  BY <1>1, <3>1 DEF ClampToZero, WalletRow
  <2>2. CASE Stale # {}
    <3>1. ReservationsOf(Stale) = Reserves(payment, Stale)
      BY BookSums
    <3>2. ExpiredWallet.reserved = ClampToZero(wallet.reserved - ReservationsOf(Stale))
      BY <1>1, <2>2 DEF ExpiredWallet, WalletRow
    <3> QED  BY <3>1, <3>2
  <2> QED  BY <2>1, <2>2
<1>5. ASSUME NEW p \in Payments
      PROVE  ExpiredPayments[p].status \in LiveStatuses <=> p \in Holding \ Stale
  BY <1>1 DEF ExpiredPayments, Holding, LiveStatuses, PaymentIntent
<1> QED  BY <1>2, <1>3, <1>4, <1>5

\* Payments that change their status while they live.
LEMMA LiveStays ==
    ASSUME SettlementShape, SettlementNext,
           \/ UNCHANGED payment
           \/ \E p \in Payments : PaymentLapse(p)
           \/ \E w \in Workers, p \in Payments : SettlePrepared(w, p)
           \/ \E w \in Workers : MarkSubmitted(w) \/ RecordPending(w)
    PROVE  Holding' = Holding
<1>0. payment \in [Payments -> PaymentIntent]
      /\ Holding' = {p \in Payments : payment'[p].status \in LiveStatuses}
  BY LiveAfter
<1>1. SUFFICES ASSUME NEW p \in Payments
               PROVE  payment'[p].status \in LiveStatuses <=> payment[p].status \in LiveStatuses
  BY <1>0 DEF Holding
<1>2. CASE UNCHANGED payment
  BY <1>2
<1>3. CASE \E q \in Payments : PaymentLapse(q)
  BY <1>0, <1>3 DEF PaymentLapse, PaymentIntent
<1>4. CASE \E w \in Workers, q \in Payments : SettlePrepared(w, q)
  BY <1>0, <1>4 DEF SettlePrepared, PaymentIntent, LiveStatuses
<1>5. CASE \E w \in Workers : MarkSubmitted(w) \/ RecordPending(w)
  BY <1>0, <1>5 DEF MarkSubmitted, RecordPending, NotTerminal, PaymentIntent, LiveStatuses
<1> QED  BY <1>2, <1>3, <1>4, <1>5

\* The steps that give up reservations.
LEMMA FreeSteps ==
    ASSUME SettlementShape, SettlementNext,
           \/ \E p \in Payments, r \in SellerRequests : RefusePayment(p, r)
           \/ RefuseWithdrawal \/ ExpirePrepared
           \/ \E p \in Payments : ExpireOne(p)
    PROVE  \E S \in SUBSET Payments : BooksFree(S)
<1>0. /\ payment \in [Payments -> PaymentIntent] /\ wallet \in WalletRow
      /\ Holding' = {p \in Payments : payment'[p].status \in LiveStatuses}
      /\ Holding \subseteq Payments
  BY LiveAfter DEF Holding
<1>1. ASSUME payment' = ExpiredPayments PROVE Holding' = Holding \ Stale
  BY <1>0, <1>1, ExpiredBooks DEF Holding
<1>2. /\ ExpiredWallet \in WalletRow /\ Stale \in SUBSET Payments
  BY RowTypes DEF SettlementShape, Stale
<1>3. CASE (\E p \in Payments, r \in SellerRequests : RefusePayment(p, r)) \/ ExpirePrepared
  <2>1. payment' = ExpiredPayments /\ UNCHANGED <<chain, locals, exits>>
    BY <1>3 DEF RefusePayment, ExpirePrepared
  <2>2. Books(ExpiredWallet.reserved, ExpiredWallet.shares, ExpiredWallet.basis)
    BY <1>2, <1>3 DEF RefusePayment, ExpirePrepared, Books, WalletRow
  <2>3. BooksFree(Stale)
    BY <1>1, <2>1, <2>2, ExpiredBooks DEF BooksFree
  <2> QED  BY <1>2, <2>3
<1>4. CASE RefuseWithdrawal
  <2>1. payment' = ExpiredPayments /\ UNCHANGED <<chain, locals, exits>> /\ KeepsOnThrow
    BY <1>4 DEF RefuseWithdrawal
  <2>2. Books(wallet.reserved, wallet.shares, wallet.basis)
    BY <1>0, <1>4 DEF RefuseWithdrawal, Books, WalletRow
  <2>3. BooksFree(Stale)
    BY <1>1, <2>1, <2>2, ExpiredBooks DEF BooksFree
  <2> QED  BY <1>2, <2>3
<1>5. CASE \E p \in Payments : ExpireOne(p)
  <2>1. PICK p \in Payments : ExpireOne(p)
    BY <1>5
  <2>2. /\ p \in Stale /\ p \in Holding /\ payment[p].status = "prepared"
    BY <2>1, ExpiredBooks DEF ExpireOne
  <2>3. Holding' = Holding \ {p}
    <3>1. payment' = [payment EXCEPT ![p].status = "expired"]
      BY <2>1 DEF ExpireOne
    <3>2. \A q \in Payments : payment'[q].status = IF q = p THEN "expired"
                                                   ELSE payment[q].status
      BY <1>0, <3>1 DEF PaymentIntent
    <3>3. "expired" \notin LiveStatuses
      BY DEF LiveStatuses
    <3> QED  BY <1>0, <3>2, <3>3 DEF Holding
  <2>4. Reserves(payment, {p}) = payment[p].reservation
    BY <1>0, BookOne
  <2>5. Books(ClampToZero(wallet.reserved - payment[p].reservation),
              wallet.shares, wallet.basis)
    <3>1. wallet' = [wallet EXCEPT
                       !.reserved = ClampToZero(wallet.reserved - payment[p].reservation),
                       !.version = wallet.version + 1]
      BY <1>0, <2>1 DEF ExpireOne, WalletRow
    <3> QED  BY <1>0, <3>1 DEF Books, WalletRow
  <2>6. UNCHANGED <<chain, locals, exits>>
    BY <2>1 DEF ExpireOne
  <2>7. BooksFree({p})
    BY <2>2, <2>3, <2>4, <2>5, <2>6 DEF BooksFree
  <2> QED  BY <2>7
<1> QED  BY <1>3, <1>4, <1>5

\* The step that takes a reservation.
LEMMA TakeStep ==
    ASSUME SettlementShape, SettlementNext, NEW p \in Payments, NEW r \in SellerRequests,
           PreparePayment(p, r)
    PROVE  BooksTake(p, r)
<1>0. /\ payment \in [Payments -> PaymentIntent] /\ wallet \in WalletRow
      /\ Holding' = {q \in Payments : payment'[q].status \in LiveStatuses}
      /\ ExpiredWallet \in WalletRow /\ ExpiredPayments \in [Payments -> PaymentIntent]
  BY LiveAfter, RowTypes DEF SettlementShape
<1>1. p \notin Holding
  BY DEF PreparePayment, Holding, LiveStatuses
<1>2. /\ payment'[p].status = "prepared"
      /\ payment'[p].reservation = RequiredWithdraw + FeeEstimate
      /\ \A q \in Payments \ {p} : payment'[q] = ExpiredPayments[q]
  BY <1>0 DEF PreparePayment
<1>3. Holding' = (Holding \ Stale) \cup {p}
  <2>1. "prepared" \in LiveStatuses
    BY DEF LiveStatuses
  <2>2. \A q \in Payments : payment'[q].status \in LiveStatuses
                              <=> q \in (Holding \ Stale) \cup {p}
    BY <1>2, <2>1, ExpiredBooks
  <2> QED  BY <1>0, <2>2 DEF Holding
<1>4. wallet' = [ExpiredWallet EXCEPT
                   !.reserved = ExpiredWallet.reserved + RequiredWithdraw + FeeEstimate,
                   !.version = ExpiredWallet.version + 2]
  BY <1>0 DEF PreparePayment, WalletRow
<1>5. /\ wallet'.shares = ExpiredWallet.shares /\ wallet'.basis = ExpiredWallet.basis
      /\ wallet'.reserved = ExpiredWallet.reserved + RequiredWithdraw + FeeEstimate
  BY <1>0, <1>4 DEF WalletRow
<1>6. wallet'.reserved = ExpiredWallet.reserved + (RequiredWithdraw + FeeEstimate)
  BY <1>0, <1>5, ConstantTypes DEF WalletRow
<1> QED  BY <1>1, <1>2, <1>3, <1>5, <1>6, ExpiredBooks DEF BooksTake

\* The step that books an outcome.
LEMMA CloseStep ==
    ASSUME SettlementShape, SettlementNext, NEW w \in Workers, Finalize(w)
    PROVE  \E p \in Payments : BooksClose(w, p)
<1>0. /\ payment \in [Payments -> PaymentIntent] /\ wallet \in WalletRow
      /\ Holding' = {q \in Payments : payment'[q].status \in LiveStatuses}
  BY LiveAfter
<1>1. PICK p \in Payments : p = on[w]
  BY WorkersOK DEF SettlementShape, WorkerOK, Finalize, Idling
<1>2. p \in Holding
  BY <1>1 DEF Finalize, NotTerminal, Holding
<1>3. Holding' = Holding \ {p}
  <2>1. PICK s \in {"settled", "failed", "failed_not_submitted"} : s = ResultOf(w)
    BY DEF ResultOf
  <2>2. payment' = [payment EXCEPT ![p].status = s]
    BY <1>1, <2>1 DEF Finalize
  <2>3. \A q \in Payments : payment'[q].status = IF q = p THEN s ELSE payment[q].status
    BY <1>0, <2>2 DEF PaymentIntent
  <2>4. s \notin LiveStatuses
    BY DEF LiveStatuses
  <2> QED  BY <1>0, <2>3, <2>4 DEF Holding
<1>4. PICK fee : wallet' = Applied(wallet, p, ResultOf(w), fee)
  BY <1>1 DEF Finalize
<1>5. Books(ClampToZero(wallet.reserved - payment[p].reservation),
            IF ResultOf(w) = "settled" /\ payment[p].shares <= wallet.shares
              THEN wallet.shares - payment[p].shares ELSE wallet.shares,
            wallet.basis)
  <2> DEFINE result == ResultOf(w)
  <2> HIDE DEF result
  <2>1. wallet' = Applied(wallet, p, result, fee)
    BY <1>4 DEF result
  <2>2. /\ wallet'.reserved = ClampToZero(wallet.reserved - payment[p].reservation)
        /\ wallet'.shares = IF result = "settled" /\ payment[p].shares <= wallet.shares
                              THEN wallet.shares - payment[p].shares ELSE wallet.shares
        /\ wallet'.basis = wallet.basis
    BY <1>0, <2>1 DEF Applied, WalletRow
  <2> QED  BY <2>2 DEF Books, result
<1> QED  BY <1>1, <1>2, <1>3, <1>5 DEF BooksClose

\* What a sync does to the books.
LEMMA SyncStep ==
    ASSUME SettlementShape, SettlementNext, NEW w \in Workers, SyncWrite(w)
    PROVE  BooksStill \/ BooksReset(w) \/ BooksRefresh(w)
<1>0. /\ payment \in [Payments -> PaymentIntent] /\ wallet \in WalletRow
      /\ Holding' = {q \in Payments : payment'[q].status \in LiveStatuses}
      /\ seen[w].force \in BOOLEAN
  BY LiveAfter DEF SettlementShape, SettlementTypeOK
<1>1. CASE ~MaySync(seen[w])
  <2>1. UNCHANGED <<wallet, payment>>
    BY <1>1 DEF SyncWrite
  <2> QED  BY <2>1 DEF BooksStill, Books, Holding
<1>2. CASE MaySync(seen[w]) /\ seen[w].force
  <2>1. Submitted = {}
    BY <1>2 DEF MaySync
  <2>2. \A q \in Payments : payment'[q] =
          IF payment[q].status = "prepared" THEN [payment[q] EXCEPT !.status = "expired"]
          ELSE payment[q]
    BY <1>2 DEF SyncWrite
  <2>3. \A q \in Payments : payment'[q].status \notin LiveStatuses
    BY <1>0, <2>1, <2>2 DEF Submitted, LiveStatuses, PaymentIntent
  <2>4. wallet'.reserved = 0 /\ wallet'.shares = seen[w].shares
        /\ wallet'.basis = ComputePositionValue(seen[w].shares, seen[w].rate)
    BY <1>0, <1>2 DEF SyncWrite, WalletRow
  <2> QED  BY <1>0, <1>2, <2>3, <2>4 DEF BooksReset, Books
<1>3. CASE MaySync(seen[w]) /\ ~seen[w].force
  <2>1. \A q \in Payments : payment'[q] = payment[q]
    BY <1>3 DEF SyncWrite
  <2>2. Holding' = Holding
    BY <1>0, <2>1 DEF Holding
  <2>3. /\ wallet'.reserved = wallet.reserved /\ wallet'.shares = seen[w].shares
        /\ wallet'.basis = wallet.basis
    BY <1>0, <1>3 DEF SyncWrite, WalletRow
  <2> QED  BY <1>3, <2>2, <2>3 DEF BooksRefresh, Books
<1> QED  BY <1>0, <1>1, <1>2, <1>3

\* Every step is one of these on the books.
LEMMA BooksStep ==
    ASSUME SettlementShape, [SettlementNext]_allVars
    PROVE  \/ BooksStill
           \/ \E S \in SUBSET Payments : BooksFree(S)
           \/ \E p \in Payments, r \in SellerRequests : BooksTake(p, r)
           \/ \E w \in Workers, p \in Payments : BooksClose(w, p)
           \/ \E w \in Workers : BooksReset(w) \/ BooksRefresh(w)
<1>1. CASE UNCHANGED allVars
  BY <1>1 DEF allVars, BooksStill, Books, Holding
<1>2. CASE SettlementNext
  <2>1. \/ \E p \in Payments, r \in SellerRequests : PreparePayment(p, r)
        \/ \/ \E p \in Payments, r \in SellerRequests : RefusePayment(p, r)
           \/ RefuseWithdrawal \/ ExpirePrepared
           \/ \E p \in Payments : ExpireOne(p)
        \/ \E w \in Workers : Finalize(w) \/ SyncWrite(w)
        \/ /\ UNCHANGED wallet
           /\ \/ UNCHANGED payment
              \/ \E p \in Payments : PaymentLapse(p)
              \/ \E w \in Workers, p \in Payments : SettlePrepared(w, p)
              \/ \E w \in Workers : MarkSubmitted(w) \/ RecordPending(w)
    BY <1>2 DEF SettlementNext, Advance, PaymentLapse, SettlePrepared, MarkSubmitted,
       RecordPending, Settle, SubmitLookup, SubmitSimulate, SubmitSend, SubmitWait,
       SubmitConfirm, ReconcileLookup, ReconcileHeight, ReconcileResend, AlreadyTerminal,
       SyncRead, CallFails, Die, PayOrRevert, Blocks, Earn, Exit, Onward, Carry
  <2>2. CASE /\ UNCHANGED wallet
             /\ \/ UNCHANGED payment
                \/ \E p \in Payments : PaymentLapse(p)
                \/ \E w \in Workers, p \in Payments : SettlePrepared(w, p)
                \/ \E w \in Workers : MarkSubmitted(w) \/ RecordPending(w)
    BY <1>2, <2>2, LiveStays DEF BooksStill, Books
  <2> QED  BY <1>2, <2>1, <2>2, FreeSteps, TakeStep, CloseStep, SyncStep
<1> QED  BY <1>1, <1>2

\* The live payments of before, counted after the step.
LEMMA BooksKept ==
    ASSUME SettlementShape, [SettlementNext]_allVars, NEW S \in SUBSET Holding
    PROVE  /\ Reserves(payment', S) = Reserves(payment, S)
           /\ Burns(payment', S) = Burns(payment, S)
           /\ Reserves(payment, S) \in Nat /\ Reserves(payment, Holding) \in Nat
           /\ Reserves(payment, Holding \ S) = Reserves(payment, Holding) - Reserves(payment, S)
           /\ Reserves(payment, S) <= Reserves(payment, Holding)
           /\ Burns(payment, S) \in Nat /\ Burns(payment, Holding) \in Nat
           /\ Burns(payment, Holding \ S) = Burns(payment, Holding) - Burns(payment, S)
           /\ Burns(payment, S) <= Burns(payment, Holding)
<1>0. /\ payment \in [Payments -> PaymentIntent]
      /\ S \in SUBSET Payments /\ Holding \in SUBSET Payments
      /\ \A p \in S : /\ payment'[p].reservation = payment[p].reservation
                      /\ payment'[p].shares = payment[p].shares
  BY LiveAfter DEF Holding
<1>1. /\ Reserves(payment', S) = Reserves(payment, S)
      /\ Burns(payment', S) = Burns(payment, S)
  BY <1>0, BookKept
<1>2. /\ Reserves(payment, Holding) \in Nat /\ Reserves(payment, S) \in Nat
      /\ Reserves(payment, Holding \ S) \in Nat
      /\ Reserves(payment, Holding) = Reserves(payment, S) + Reserves(payment, Holding \ S)
      /\ Burns(payment, Holding) \in Nat /\ Burns(payment, S) \in Nat
      /\ Burns(payment, Holding \ S) \in Nat
      /\ Burns(payment, Holding) = Burns(payment, S) + Burns(payment, Holding \ S)
  BY <1>0, BookParts
<1> QED  BY <1>1, <1>2

\* The books of the stale payments closed and one payment opened.
LEMMA TakenSums ==
    ASSUME SettlementShape, [SettlementNext]_allVars, NEW p \in Payments,
           NEW r \in SellerRequests, BooksTake(p, r)
    PROVE  /\ Reserves(payment', Holding') =
                Reserves(payment, Holding) - Reserves(payment, Stale)
                  + (RequiredWithdraw + FeeEstimate)
           /\ Burns(payment', Holding') =
                Burns(payment, Holding) - Burns(payment, Stale) + payment'[p].shares
           /\ payment'[p].shares \in Nat
           /\ Reserves(payment', Holding') \in Nat /\ Burns(payment', Holding') \in Nat
<1> DEFINE L == Holding \ Stale
           H == L \cup {p}
           pay == payment'
<1>1. /\ pay \in [Payments -> PaymentIntent] /\ Stale \in SUBSET Holding
      /\ Holding' = H /\ p \notin L /\ Holding \in SUBSET Payments
      /\ pay[p].reservation = RequiredWithdraw + FeeEstimate
  BY LiveAfter DEF BooksTake, Holding
<1>2. pay[p].shares \in Nat /\ pay[p].reservation \in Nat
  BY <1>1 DEF PaymentIntent
<1>3. H \in SUBSET Payments /\ L \in SUBSET H /\ H \ L = {p} /\ L \in SUBSET Holding
  BY <1>1
<1>4. /\ Reserves(pay, H) = Reserves(pay, L) + Reserves(pay, {p})
      /\ Burns(pay, H) = Burns(pay, L) + Burns(pay, {p})
      /\ Reserves(pay, H) \in Nat /\ Burns(pay, H) \in Nat
  <2> HIDE DEF L, H, pay
  <2>1. /\ Reserves(pay, H) = Reserves(pay, L) + Reserves(pay, H \ L)
        /\ Burns(pay, H) = Burns(pay, L) + Burns(pay, H \ L)
        /\ Reserves(pay, H) \in Nat /\ Burns(pay, H) \in Nat
    BY <1>1, <1>3, BookParts
  <2> QED  BY <1>3, <2>1
<1>5. Reserves(pay, {p}) = pay[p].reservation /\ Burns(pay, {p}) = pay[p].shares
  <2> HIDE DEF pay
  <2> QED  BY <1>1, BookOne
<1>6. /\ Reserves(pay, L) = Reserves(payment, L) /\ Burns(pay, L) = Burns(payment, L)
  <2> HIDE DEF L
  <2> QED  BY <1>3, BooksKept
<1>7. /\ Reserves(payment, L) = Reserves(payment, Holding) - Reserves(payment, Stale)
      /\ Burns(payment, L) = Burns(payment, Holding) - Burns(payment, Stale)
  BY <1>1, BooksKept
<1> HIDE DEF L, H
<1> QED  BY <1>1, <1>2, <1>4, <1>5, <1>6, <1>7

\* Every step keeps the reservations.
LEMMA ReservedStep ==
    ASSUME SettlementShape, [SettlementNext]_allVars
    PROVE  /\ ReservedCovers => ReservedCovers'
           /\ ~KeepsOnThrow => (ReservedExact => ReservedExact')
<1> DEFINE h == Reserves(payment, Holding)
           hh == Reserves(payment', Holding')
           res == wallet.reserved
           rr == wallet'.reserved
<1>0. /\ ReservedCovers <=> res >= h
      /\ ReservedExact <=> res = h
      /\ ReservedCovers' <=> rr >= hh
      /\ ReservedExact' <=> rr = hh
  BY BookSums DEF ReservedCovers, ReservedExact
<1>1. res \in Nat /\ h \in Nat /\ Holding \in SUBSET Payments /\ Holding \in SUBSET Holding
      /\ payment' \in [Payments -> PaymentIntent]
      /\ KeepsOnThrow \in BOOLEAN
  BY LiveAfter, BooksKept, SettlementAssumption DEF Holding, WalletRow
<1>2. SUFFICES /\ res >= h => rr >= hh
               /\ ~KeepsOnThrow => (res = h => rr = hh)
  BY <1>0
<1>3. CASE BooksStill
  <2>1. rr = res /\ hh = h
    BY <1>1, <1>3, BooksKept DEF BooksStill, Books
  <2> QED  BY <2>1
<1>4. CASE \E S \in SUBSET Payments : BooksFree(S)
  <2>1. PICK S \in SUBSET Payments : BooksFree(S)
    BY <1>4
  <2>2. S \in SUBSET Holding /\ Holding' = Holding \ S /\ Holding \ S \in SUBSET Holding
    BY <2>1 DEF BooksFree
  <2> DEFINE f == Reserves(payment, S)
  <2>3. f \in Nat /\ hh = h - f /\ f <= h
    BY <2>2, BooksKept
  <2>4. rr = ClampToZero(res - f) \/ (KeepsOnThrow /\ rr = res)
    BY <2>1 DEF BooksFree, Books
  <2> HIDE DEF f, h, hh, res, rr
  <2> QED  BY <1>1, <2>3, <2>4 DEF ClampToZero
<1>5. CASE \E p \in Payments, r \in SellerRequests : BooksTake(p, r)
  <2>1. PICK p \in Payments, r \in SellerRequests : BooksTake(p, r)
    BY <1>5
  <2> DEFINE f == Reserves(payment, Stale)
             n == RequiredWithdraw + FeeEstimate
  <2>2. hh = h - f + n
    BY <2>1, TakenSums
  <2>3. rr = ClampToZero(res - f) + n /\ Stale \in SUBSET Holding
    BY <2>1 DEF BooksTake
  <2>4. f \in Nat /\ f <= h
    BY <2>3, BooksKept
  <2>5. n \in Nat
    BY ConstantTypes
  <2> HIDE DEF f, n, h, hh, res, rr
  <2> QED  BY <1>1, <2>2, <2>3, <2>4, <2>5 DEF ClampToZero
<1>6. CASE \E w \in Workers, p \in Payments : BooksClose(w, p)
  <2>1. PICK w \in Workers, p \in Payments : BooksClose(w, p)
    BY <1>6
  <2> DEFINE f == payment[p].reservation
  <2>2. {p} \in SUBSET Holding /\ Holding' = Holding \ {p} /\ Holding \ {p} \in SUBSET Holding
    BY <2>1 DEF BooksClose
  <2>3. Reserves(payment, {p}) = f
    BY LiveAfter, BookOne
  <2>4. f \in Nat /\ hh = h - f /\ f <= h
    BY <2>2, <2>3, BooksKept
  <2>5. rr = ClampToZero(res - f)
    BY <2>1 DEF BooksClose, Books
  <2> HIDE DEF f, h, hh, res, rr
  <2> QED  BY <1>1, <2>4, <2>5 DEF ClampToZero
<1>7. CASE \E w \in Workers : BooksReset(w)
  <2>1. Holding' = {} /\ rr = 0
    BY <1>7 DEF BooksReset, Books
  <2>2. Reserves(payment', {}) = 0
    <3> DEFINE pay == payment'
    <3> HIDE DEF pay
    <3>1. Reserves(pay, {}) = 0
      BY <1>1, BookOne DEF pay
    <3> QED  BY <3>1 DEF pay
  <2>3. hh = 0
    BY <2>1, <2>2
  <2> HIDE DEF hh, rr
  <2> QED  BY <2>1, <2>3
<1>8. CASE \E w \in Workers : BooksRefresh(w)
  <2>1. rr = res /\ hh = h
    BY <1>1, <1>8, BooksKept DEF BooksRefresh, Books
  <2> QED  BY <2>1
<1> QED  BY <1>3, <1>4, <1>5, <1>6, <1>7, <1>8, BooksStep

\* Initially nothing is reserved.
LEMMA ReservedStarts == SettlementInit => ReservedExact /\ ReservedCovers
<1> SUFFICES ASSUME SettlementInit PROVE wallet.reserved = 0 /\ ReservationsOf(Holding) = 0
  BY DEF ReservedExact, ReservedCovers
<1>1. wallet.reserved = 0 /\ Holding = {}
  BY DEF SettlementInit, Holding, LiveStatuses
<1>2. ReservationsOf({}) = 0
  BY SumEmpty DEF ReservationsOf, Sum
<1> QED  BY <1>1, <1>2

(***************************************************************************)
(* What the position has reserved is exactly what the live payments hold,  *)
(* for any number of payments and concurrent handlers: no expiry,          *)
(* settlement, write-off or reset leaks a reservation or releases one      *)
(* twice.  A ledger that rolls back what a call saved before it threw      *)
(* (PostgresLedger) is all it takes.                                       *)
(***************************************************************************)
THEOREM ReservationsExact ==
    ASSUME KeepsOnThrow = FALSE PROVE SettlementSpec => []ReservedExact
<1>1. SettlementShape /\ ReservedExact /\ [SettlementNext]_allVars => ReservedExact'
  BY ReservedStep
<1> QED  BY <1>1, ReservedStarts, ShapeInvariant, PTL DEF SettlementSpec

-----------------------------------------------------------------------------
(* Snapshots of the chain.                                                  *)

\* Whoever writes the row bumps its version.
LEMMA VersionStep ==
    ASSUME SettlementShape, [SettlementNext]_allVars
    PROVE  /\ wallet.version \in Nat /\ wallet'.version \in Nat
           /\ wallet' = wallet \/ wallet'.version > wallet.version
<1>0. /\ wallet \in WalletRow /\ wallet' \in WalletRow /\ ExpiredWallet \in WalletRow
      /\ wallet.version \in Nat /\ wallet'.version \in Nat /\ ExpiredWallet.version \in Nat
      /\ payment \in [Payments -> PaymentIntent]
  BY LiveAfter, RowTypes DEF SettlementShape, WalletRow
<1>1. ExpiredWallet = wallet \/ ExpiredWallet.version = wallet.version + 1
  BY <1>0 DEF ExpiredWallet, WalletRow
<1>2. ASSUME NEW p \in Payments, NEW r \in SellerRequests,
             PreparePayment(p, r) \/ RefusePayment(p, r)
      PROVE  wallet'.version > wallet.version
  <2>1. wallet'.version \in {ExpiredWallet.version + 1, ExpiredWallet.version + 2}
    BY <1>0, <1>2 DEF PreparePayment, RefusePayment, WalletRow
  <2> QED  BY <1>0, <1>1, <2>1
<1>3. CASE RefuseWithdrawal \/ ExpirePrepared
  <2>1. wallet' = ExpiredWallet \/ wallet'.version = wallet.version + 1
    BY <1>0, <1>3 DEF RefuseWithdrawal, ExpirePrepared, WalletRow
  <2> QED  BY <1>0, <1>1, <2>1
<1>4. ASSUME NEW p \in Payments, ExpireOne(p) PROVE wallet'.version > wallet.version
  <2>1. wallet'.version = wallet.version + 1
    BY <1>0, <1>4 DEF ExpireOne, WalletRow
  <2> QED  BY <1>0, <2>1
<1>5. ASSUME NEW w \in Workers, Finalize(w) PROVE wallet'.version > wallet.version
  <2>1. PICK fee : wallet' = Applied(wallet, on[w], ResultOf(w), fee)
    BY <1>5 DEF Finalize
  <2>2. wallet'.version = wallet.version + 1
    BY <1>0, <2>1 DEF Applied, WalletRow
  <2> QED  BY <1>0, <2>2
<1>6. ASSUME NEW w \in Workers, SyncWrite(w)
      PROVE  wallet' = wallet \/ wallet'.version > wallet.version
  <2>1. wallet' = wallet \/ wallet'.version = wallet.version + 1
    BY <1>0, <1>6 DEF SyncWrite, WalletRow
  <2> QED  BY <1>0, <2>1
<1>7. \/ UNCHANGED wallet
      \/ \E p \in Payments, r \in SellerRequests : PreparePayment(p, r) \/ RefusePayment(p, r)
      \/ RefuseWithdrawal \/ ExpirePrepared
      \/ \E p \in Payments : ExpireOne(p)
      \/ \E w \in Workers : Finalize(w) \/ SyncWrite(w)
  BY DEF allVars, SettlementNext, Advance, PaymentLapse, SettlePrepared, MarkSubmitted,
     RecordPending, Settle, SubmitLookup, SubmitSimulate, SubmitSend, SubmitWait,
     SubmitConfirm, ReconcileLookup, ReconcileHeight, ReconcileResend, AlreadyTerminal,
     SyncRead, CallFails, Die, PayOrRevert, Blocks, Earn, Exit, Onward, Carry
<1> QED  BY <1>0, <1>2, <1>3, <1>4, <1>5, <1>6, <1>7

\* A snapshot is kept, dropped or taken.
Takes(w) ==
    /\ SyncRead(w)
    /\ seen'[w].version = wallet.version /\ seen'[w].shares = held /\ seen'[w].rate = now
    /\ ~seen'[w].force => held = wallet.shares

\* A handler keeps its snapshot, drops it or takes a new one.
LEMMA SeenStep ==
    ASSUME SettlementShape, [SettlementNext]_allVars, NEW w \in Workers
    PROVE  \/ seen'[w] = seen[w] /\ (at'[w] = "sync" => at[w] = "sync")
           \/ seen'[w] = NothingSeen /\ at'[w] # "sync"
           \/ Takes(w)
<1>0. /\ at \in [Workers -> Awaits]
      /\ seen \in [Workers -> [version : Nat, shares : Nat, rate : Nat, force : BOOLEAN]]
  BY DEF SettlementShape, SettlementTypeOK
<1>1. CASE UNCHANGED <<at, seen>>
  BY <1>1
<1>2. ASSUME NEW v \in Workers, NEW label, label # "sync", Move(v, label), UNCHANGED seen
      PROVE  seen'[w] = seen[w] /\ (at'[w] = "sync" => at[w] = "sync")
  BY <1>0, <1>2 DEF Move
<1>3. ASSUME NEW v \in Workers, Reply(v)
      PROVE  \/ seen'[w] = seen[w] /\ at'[w] = at[w]
             \/ seen'[w] = NothingSeen /\ at'[w] # "sync"
  BY <1>0, <1>3 DEF Reply
<1>4. ASSUME NEW v \in Workers, SyncRead(v)
      PROVE  \/ seen'[w] = seen[w] /\ at'[w] = at[w]
             \/ Takes(w)
  <2>1. CASE v # w
    BY <1>0, <1>4, <2>1 DEF SyncRead, Move
  <2>2. CASE v = w
    <3>1. PICK force \in BOOLEAN :
            seen'[w] = [version |-> wallet.version, shares |-> held, rate |-> now,
                        force |-> force \/ held # wallet.shares]
      BY <1>0, <1>4, <2>2 DEF SyncRead
    <3>2. PICK f \in BOOLEAN : f = (force \/ held # wallet.shares)
      OBVIOUS
    <3>3. /\ seen'[w].version = wallet.version /\ seen'[w].shares = held
          /\ seen'[w].rate = now /\ seen'[w].force = f
      BY <3>1, <3>2
    <3> QED  BY <1>4, <2>2, <3>2, <3>3 DEF Takes
  <2> QED  BY <2>1, <2>2
<1>5. \/ UNCHANGED <<at, seen>>
      \/ \E v \in Workers : SyncRead(v) \/ Reply(v)
      \/ \E v \in Workers, label \in Awaits \ {"sync"} : Move(v, label) /\ UNCHANGED seen
  <2>1. CASE UNCHANGED allVars
    BY <2>1 DEF allVars
  <2>2. CASE \/ \E p \in Payments, r \in SellerRequests :
                  PreparePayment(p, r) \/ RefusePayment(p, r)
             \/ RefuseWithdrawal \/ ExpirePrepared
             \/ \E p \in Payments : ExpireOne(p) \/ PaymentLapse(p)
             \/ \E p \in Payments : PayOrRevert(p) \/ Blocks(p)
             \/ Earn \/ Exit
    BY <2>2 DEF PreparePayment, RefusePayment, RefuseWithdrawal, ExpirePrepared,
         ExpireOne, PaymentLapse, PayOrRevert, Blocks, Earn, Exit
  <2>3. CASE \E v \in Workers, p \in Payments : SettlePrepared(v, p) \/ Settle(v, p)
    BY <2>3 DEF SettlePrepared, Settle, Awaits, Submitting, Reconciling
  <2>4. CASE \E v \in Workers : SyncRead(v) \/ RecordPending(v) \/ Finalize(v)
                  \/ AlreadyTerminal(v) \/ SyncWrite(v) \/ Die(v)
    BY <2>4 DEF RecordPending, Finalize, AlreadyTerminal, SyncWrite, Die
  <2>5. CASE \E v \in Workers :
               \/ SubmitLookup(v) \/ SubmitSimulate(v) \/ MarkSubmitted(v)
               \/ SubmitSend(v) \/ SubmitWait(v) \/ SubmitConfirm(v)
               \/ ReconcileLookup(v) \/ ReconcileHeight(v) \/ ReconcileResend(v)
               \/ CallFails(v)
    BY <2>5 DEF SubmitLookup, SubmitSimulate, MarkSubmitted, SubmitSend, SubmitWait,
         SubmitConfirm, ReconcileLookup, ReconcileHeight, ReconcileResend, CallFails,
         Onward, Carry, Awaits, Submitting, Reconciling
  <2> QED  BY <2>1, <2>2, <2>3, <2>4, <2>5 DEF SettlementNext, Advance
<1> QED  BY <1>1, <1>2, <1>3, <1>4, <1>5

\* Every step keeps what is known of snapshots.
LEMMA SnapshotStep ==
    ASSUME SettlementShape, VersionsOK, SnapshotFresh, [SettlementNext]_allVars
    PROVE  VersionsOK' /\ SnapshotFresh'
<1>1. ASSUME NEW w \in Workers
      PROVE  /\ seen'[w].version <= wallet'.version
             /\ (at'[w] = "sync" /\ seen'[w].version = wallet'.version /\ ~seen'[w].force) =>
                  seen'[w].shares = wallet'.shares
  <2>1. /\ wallet.version \in Nat /\ wallet'.version \in Nat
        /\ wallet' = wallet \/ wallet'.version > wallet.version
    BY VersionStep
  <2>2. /\ seen[w].version \in Nat /\ seen[w].version <= wallet.version
        /\ (at[w] = "sync" /\ seen[w].version = wallet.version /\ ~seen[w].force) =>
             seen[w].shares = wallet.shares
    BY DEF SettlementShape, SettlementTypeOK, VersionsOK, SnapshotFresh
  <2>3. CASE seen'[w] = seen[w] /\ (at'[w] = "sync" => at[w] = "sync")
    <3>1. CASE wallet' = wallet
      BY <2>2, <2>3, <3>1
    <3>2. CASE wallet'.version > wallet.version
      BY <2>1, <2>2, <2>3, <3>2
    <3> QED  BY <2>1, <3>1, <3>2
  <2>4. CASE seen'[w] = NothingSeen /\ at'[w] # "sync"
    <3>1. seen'[w].version = 0
      BY <2>4 DEF NothingSeen
    <3> QED  BY <2>1, <2>4, <3>1
  <2>5. CASE Takes(w)
    <3>1. wallet' = wallet
      BY <2>5 DEF Takes, SyncRead
    <3> QED  BY <2>1, <2>5, <3>1 DEF Takes
  <2> QED  BY <2>3, <2>4, <2>5, SeenStep
<1> QED  BY <1>1 DEF VersionsOK, SnapshotFresh

-----------------------------------------------------------------------------
(* The principal.                                                           *)

(***************************************************************************)
(* The fee estimate a payment reserves pays for rounding its shares up,    *)
(* for the margin of the probe and for the rise of the rate until it lands *)
(* (FeeEstimate against SHARES_TO_REDEEM_MARGIN).                          *)
(***************************************************************************)
FeeCoversMargin ==
    (SharesToRedeem(RequiredWithdraw, StartRate) + ShareMargin) * LastRate
      <= (RequiredWithdraw + FeeEstimate) * RateScale

PrincipalInv ==
    /\ SettlementShape
    /\ ReservedCovers
    /\ VersionsOK
    /\ SnapshotFresh
    /\ RatesOK
    /\ ShareCost
    /\ PrincipalKept

\* More shares, or a higher rate, are worth no less.
LEMMA ValueMonotone ==
    ASSUME NEW s \in Nat, NEW t \in Nat, NEW r \in Nat, NEW q \in Nat, s <= t, r <= q
    PROVE  ComputePositionValue(s, r) <= ComputePositionValue(t, q)
<1> DEFINE v == ComputePositionValue(s, r)
<1>1. v \in Nat /\ RateScale * v <= s * r
  BY ValueBounds
<1>2. s * r <= t * q /\ t * q \in Int /\ s * r \in Int
  <2>1. s * r <= t * r /\ t * r <= t * q
    OBVIOUS
  <2>2. s * r \in Int /\ t * r \in Int /\ t * q \in Int
    OBVIOUS
  <2> QED  BY <2>1, <2>2
<1> HIDE DEF v
<1>3. RateScale * v <= t * q
  BY <1>1, <1>2, RateScaleAssumption
<1>4. v <= (t * q) \div RateScale
  BY <1>1, <1>2, <1>3, RateScaleAssumption, DivGE
<1> QED  BY <1>4 DEF v, ComputePositionValue, MulDivFloor

\* At a higher rate fewer shares are burned.
LEMMA SharesAntitone ==
    ASSUME NEW n \in Nat, NEW r \in Nat \ {0}, NEW q \in Nat \ {0}, r <= q
    PROVE  /\ SharesToRedeem(n, r) \in Nat /\ SharesToRedeem(n, q) \in Nat
           /\ SharesToRedeem(n, q) <= SharesToRedeem(n, r)
<1> DEFINE k == n * RateScale
           a == CeilDiv(k, r)
           b == CeilDiv(k, q)
<1>1. k \in Nat
  BY RateScaleAssumption
<1>2. a \in Nat /\ k <= r * a /\ b \in Nat /\ q * b < k + q
  <2> HIDE DEF k
  <2> QED  BY <1>1, CeilDivBounds
<1> HIDE DEF k, a, b
<1>3. r * a <= q * a
  BY <1>2
<1>4. q * b < q * (a + 1)
  BY <1>1, <1>2, <1>3
<1>5. b < a + 1
  BY <1>2, <1>4, Cancel
<1>6. b <= a
  BY <1>2, <1>5
<1> QED  BY <1>2, <1>6 DEF SharesToRedeem, k, a, b

\* What is left when covered shares are burned is worth the basis.
LEMMA LeftCovers ==
    ASSUME NEW s \in Nat, NEW burned \in Nat, NEW b \in Nat, NEW res \in Nat,
           NEW rate \in Nat \ {0}, b + res <= ComputePositionValue(s, rate),
           burned * rate <= res * RateScale
    PROVE  s - burned >= 0 /\ ComputePositionValue(s - burned, rate) >= b
<1> DEFINE v == ComputePositionValue(s, rate)
           K == RateScale
<1>1. v \in Nat /\ K * v <= s * rate /\ K \in Nat \ {0}
  BY ValueBounds, RateScaleAssumption
<1>2. b + res <= v /\ burned * rate <= res * K
  OBVIOUS
<1> HIDE DEF v, K
<1>3. K * (b + res) <= s * rate
  <2>1. K * (b + res) <= K * v
    BY <1>1, <1>2
  <2>2. K * (b + res) \in Int /\ K * v \in Int /\ s * rate \in Int
    BY <1>1
  <2> QED  BY <1>1, <2>1, <2>2
<1>4. K * b <= (s - burned) * rate
  <2>1. /\ K * (b + res) = K * b + res * K /\ (s - burned) * rate = s * rate - burned * rate
    BY <1>1
  <2>2. K * b \in Int /\ res * K \in Int /\ s * rate \in Int /\ burned * rate \in Int
    BY <1>1
  <2> QED  BY <1>2, <1>3, <2>1, <2>2
<1>5. s - burned >= 0
  <2>1. ASSUME s < burned PROVE FALSE
    <3>1. s * rate < burned * rate
      BY <2>1
    <3>2. K * b >= 0
      BY <1>1
    <3>3. (s - burned) * rate = s * rate - burned * rate
      OBVIOUS
    <3> QED  BY <1>1, <1>4, <3>1, <3>2, <3>3
  <2> QED  BY <2>1
<1>6. b <= ((s - burned) * rate) \div K
  <2>1. PICK n \in Int : n = (s - burned) * rate
    OBVIOUS
  <2>2. K * b <= n /\ K \in Nat \ {0} /\ b \in Int
    BY <1>1, <1>4, <2>1
  <2>3. b <= n \div K
    BY <2>2, DivGE
  <2> QED  BY <2>1, <2>3
<1> QED  BY <1>5, <1>6 DEF ComputePositionValue, MulDivFloor, K

\* The rate stays or rises by itself.
LEMMA RateStep ==
    ASSUME SettlementShape, RatesOK, [SettlementNext]_allVars
    PROVE  /\ RatesOK' /\ now' \in Nat \ {0} /\ now <= now'
           /\ now' = now \/ (UNCHANGED rows)
<1>0. /\ now \in Nat \ {0} /\ LastRate \in Nat /\ StartRate \in Nat
      /\ StartRate <= now /\ now <= LastRate /\ \A w \in Workers : seen[w].rate <= now
      /\ \A w \in Workers : seen[w].rate \in Nat
  BY ConstantTypes DEF SettlementShape, SettlementTypeOK, RatesOK
<1>1. now' = now \/ Earn
  BY DEF allVars, SettlementNext, Advance, PreparePayment, RefusePayment,
     RefuseWithdrawal, ExpirePrepared, ExpireOne, PaymentLapse, SettlePrepared,
     MarkSubmitted, Finalize, SyncWrite,
     RecordPending, Settle, SubmitLookup, SubmitSimulate, SubmitSend, SubmitWait,
     SubmitConfirm, ReconcileLookup, ReconcileHeight, ReconcileResend, AlreadyTerminal,
     SyncRead, CallFails, Die, PayOrRevert, Blocks, Exit, Onward, Carry
<1>2. /\ now' \in Nat \ {0} /\ now <= now' /\ now' <= LastRate /\ StartRate <= now'
      /\ now' = now \/ UNCHANGED rows
  BY <1>0, <1>1 DEF Earn
<1>3. ASSUME NEW w \in Workers PROVE seen'[w].rate <= now'
  <2>1. seen'[w].rate \in {seen[w].rate, 0, now}
    BY SeenStep DEF Takes, NothingSeen
  <2>2. seen[w].rate <= now'
    BY <1>0, <1>2
  <2>3. 0 <= now' /\ now <= now'
    BY <1>2
  <2> QED  BY <2>1, <2>2, <2>3
<1> QED  BY <1>2, <1>3 DEF RatesOK

\* The shares of payments cost no more than they reserve.
LEMMA BurnsCovered ==
    ASSUME NEW pay \in [Payments -> PaymentIntent], NEW S \in SUBSET Payments,
           NEW rate \in Nat, rate <= LastRate,
           \A p \in S : pay[p].shares * LastRate <= pay[p].reservation * RateScale
    PROVE  Burns(pay, S) * rate <= Reserves(pay, S) * RateScale
<1> DEFINE res == [p \in Payments |-> pay[p].reservation]
           sh  == [p \in Payments |-> pay[p].shares]
<1>0. LastRate \in Nat /\ RateScale \in Nat
  BY ConstantTypes, RateScaleAssumption
<1>1. Burns(pay, S) \in Nat /\ Reserves(pay, S) \in Nat
  BY BookParts
<1>2. IsFiniteSet(S)
  BY ConstantTypes, FS_Subset
<1>3. \A p \in S : /\ sh[p] \in Int /\ res[p] \in Int
                   /\ sh[p] * LastRate <= res[p] * RateScale
  BY DEF PaymentIntent
<1>4. Sum(sh, S) * LastRate <= Sum(res, S) * RateScale
  <2> HIDE DEF sh, res
  <2> QED  BY <1>0, <1>2, <1>3, SumScaled
<1> DEFINE a == Burns(pay, S)
           b == Reserves(pay, S)
<1>5. a * LastRate <= b * RateScale
  BY <1>4 DEF Burns, Reserves
<1> HIDE DEF a, b
<1>6. a \in Nat /\ b \in Nat
  BY <1>1 DEF a, b
<1>7. a * rate <= a * LastRate
  BY <1>0, <1>6
<1>8. a * rate \in Int /\ a * LastRate \in Int /\ b * RateScale \in Int
  BY <1>0, <1>6
<1>9. a * rate <= b * RateScale
  BY <1>5, <1>7, <1>8
<1> QED  BY <1>9 DEF a, b

\* A payment is prepared with a reservation that covers its shares.
LEMMA CostStep ==
    ASSUME SettlementShape, RatesOK, ShareCost, FeeCoversMargin, [SettlementNext]_allVars
    PROVE  ShareCost'
<1>0. /\ Holding' = {p \in Payments : payment'[p].status \in LiveStatuses}
      /\ \A p \in Holding : /\ payment'[p].reservation = payment[p].reservation
                            /\ payment'[p].shares = payment[p].shares
  BY LiveAfter
<1>1. SUFFICES ASSUME NEW p \in Payments, p \in Holding'
               PROVE  payment'[p].shares * LastRate <= payment'[p].reservation * RateScale
  BY <1>0 DEF ShareCost
<1>2. CASE p \in Holding
  BY <1>0, <1>2 DEF ShareCost
<1>3. CASE p \notin Holding
  <2>1. PICK q \in Payments, r \in SellerRequests : BooksTake(q, r)
    <3>1. ~BooksStill /\ \A S \in SUBSET Payments : ~BooksFree(S)
      BY <1>1, <1>3 DEF BooksStill, BooksFree
    <3>2. \A w \in Workers : ~BooksReset(w) /\ ~BooksRefresh(w)
      BY <1>1, <1>3 DEF BooksReset, BooksRefresh
    <3>3. \A w \in Workers, q \in Payments : ~BooksClose(w, q)
      BY <1>1, <1>3 DEF BooksClose
    <3> QED  BY <3>1, <3>2, <3>3, BooksStep
  <2>2. p = q /\ payment'[p].reservation = RequiredWithdraw + FeeEstimate
    BY <1>1, <1>3, <2>1 DEF BooksTake
  <2> DEFINE exact == SharesToRedeem(RequiredWithdraw, now)
             first == SharesToRedeem(RequiredWithdraw, StartRate)
  <2>3. exact \in Nat /\ first \in Nat /\ exact <= first
    <3>1. /\ now \in Nat \ {0} /\ StartRate \in Nat \ {0} /\ StartRate <= now
          /\ RequiredWithdraw \in Nat
      BY ConstantTypes DEF SettlementShape, SettlementTypeOK, RatesOK
    <3> QED  BY <3>1, SharesAntitone
  <2>4. PICK burned \in exact .. exact + ShareMargin : payment'[p].shares = burned
    <3>1. ExpiredPayments \in [Payments -> PaymentIntent]
      BY RowTypes DEF SettlementShape
    <3>2. PreparePayment(p, r)
      BY <2>1, <2>2 DEF BooksTake
    <3> QED  BY <3>1, <3>2 DEF PreparePayment
  <2> HIDE DEF exact
  <2>5. (first + ShareMargin) * LastRate <= (RequiredWithdraw + FeeEstimate) * RateScale
    BY DEF FeeCoversMargin
  <2> HIDE DEF first
  <2>6. /\ ShareMargin \in Nat /\ LastRate \in Nat /\ RateScale \in Nat
        /\ RequiredWithdraw \in Nat /\ FeeEstimate \in Nat
    BY ConstantTypes, RateScaleAssumption
  <2>7. burned \in Nat /\ burned <= first + ShareMargin
    BY <2>3, <2>4, <2>6
  <2>8. burned * LastRate <= (first + ShareMargin) * LastRate
    BY <2>3, <2>6, <2>7
  <2>9. /\ burned * LastRate \in Int /\ (first + ShareMargin) * LastRate \in Int
        /\ (RequiredWithdraw + FeeEstimate) * RateScale \in Int
    BY <2>3, <2>6, <2>7
  <2>10. burned * LastRate <= (RequiredWithdraw + FeeEstimate) * RateScale
    BY <2>5, <2>8, <2>9
  <2> QED  BY <2>2, <2>4, <2>10
<1> QED  BY <1>2, <1>3

\* The principal is kept, by a step that leaves more free shares or as many.
LEMMA KeptByMore ==
    ASSUME NEW s \in Int, NEW t \in Int, NEW r \in Nat, NEW q \in Nat, NEW b \in Nat,
           s >= 0, s <= t, r <= q, ComputePositionValue(s, r) >= b
    PROVE  t >= 0 /\ ComputePositionValue(t, q) >= b
<1>1. s \in Nat /\ t \in Nat
  OBVIOUS
<1>2. ComputePositionValue(s, r) <= ComputePositionValue(t, q)
  BY <1>1, ValueMonotone
<1>3. ComputePositionValue(s, r) \in Nat /\ ComputePositionValue(t, q) \in Nat
  BY <1>1, ValueBounds
<1> QED  BY <1>1, <1>2, <1>3

\* Preparing a payment keeps the principal: the budget counts what the other
\* payments have reserved.
LEMMA TakeKeepsPrincipal ==
    ASSUME PrincipalInv, FeeCoversMargin, [SettlementNext]_allVars, NEW p \in Payments,
           NEW r \in SellerRequests, BooksTake(p, r)
    PROVE  PrincipalKept'
<1>0. SettlementShape /\ ReservedCovers /\ RatesOK /\ ShareCost
  BY DEF PrincipalInv
<1>1. SettlementShape' /\ ReservedCovers' /\ RatesOK' /\ ShareCost'
  BY <1>0, ShapeInductive, ReservedStep, RateStep, CostStep
<1> DEFINE row == ExpiredWallet
           pos == BudgetOf(row)
           rr == wallet'.reserved
           hh == Reserves(payment', Holding')
           bb == Burns(payment', Holding')
<1>2. /\ row \in WalletRow /\ wallet \in WalletRow /\ wallet' \in WalletRow
      /\ held \in Nat /\ now \in Nat \ {0}
  BY <1>0, LiveAfter, RowTypes DEF SettlementShape, SettlementTypeOK
<1>3. /\ held = row.shares /\ Accepted(row) /\ now' = now
  BY DEF BooksTake, PreparePayment
<1>4. /\ row.shares = wallet.shares /\ row.basis = wallet.basis
      /\ row.reserved + (RequiredWithdraw + FeeEstimate) = rr
      /\ wallet'.shares = wallet.shares /\ wallet'.basis = wallet.basis
  BY <1>0, ExpiredBooks DEF BooksTake
<1>5. /\ pos \in BudgetPositions /\ pos.basis = row.basis /\ pos.reserved = row.reserved
      /\ pos.feeDebt = row.feeDebt /\ pos.shares = held /\ pos.rate = now
      /\ pos.buffer = SafetyBuffer
  BY <1>2, ConstantTypes DEF BudgetOf, BudgetPositions, WalletRow
<1>6. ActiveWithdrawReserved \in Nat
  <2> DEFINE wd == [q \in Payments |-> payment[q].withdraw]
             S == Holding \ Stale
  <2>1. IsFiniteSet(S)
    BY ConstantTypes, FS_Subset DEF Holding
  <2>2. \A q \in S : wd[q] \in Nat
    BY <1>0 DEF Holding, SettlementShape, SettlementTypeOK, PaymentIntent
  <2>3. ActiveWithdrawReserved = Sum(wd, S)
    BY DEF ActiveWithdrawReserved, Sum
  <2> HIDE DEF wd, S
  <2> QED  BY <2>1, <2>2, <2>3, SumMonotone
<1>7. pos.basis + pos.buffer + pos.reserved + pos.feeDebt + FeeEstimate + RequiredWithdraw
        <= ComputePositionValue(pos.shares, pos.rate)
  <2>1. EvaluatePaymentBudget(pos, RequiredWithdraw, FeeEstimate, ActiveWithdrawReserved)
          = "ok"
    BY <1>3 DEF Accepted
  <2>2. RequiredWithdraw \in Nat /\ FeeEstimate \in Nat
    BY ConstantTypes
  <2> HIDE DEF pos
  <2> QED  BY <1>5, <1>6, <2>1, <2>2, AcceptedMeansCovered
<1>8. wallet.basis + rr <= ComputePositionValue(wallet.shares, now)
  <2>1. /\ row.basis + SafetyBuffer + row.reserved + row.feeDebt + FeeEstimate
             + RequiredWithdraw <= ComputePositionValue(wallet.shares, now)
    BY <1>3, <1>4, <1>5, <1>7
  <2>2. /\ row.basis \in Nat /\ row.reserved \in Nat /\ row.feeDebt \in Nat
        /\ RequiredWithdraw \in Nat /\ FeeEstimate \in Nat /\ SafetyBuffer \in Nat
        /\ wallet.shares \in Nat
    BY <1>2, ConstantTypes DEF WalletRow
  <2>3. ComputePositionValue(wallet.shares, now) \in Nat
    BY <1>2, <2>2, ValueBounds
  <2> HIDE DEF row, rr
  <2> QED  BY <1>4, <2>1, <2>2, <2>3
<1>9. hh \in Nat /\ bb \in Nat /\ rr \in Nat /\ rr >= hh
  <2>1. rr >= hh
    BY <1>1, BookSums DEF ReservedCovers
  <2>2. rr \in Nat
    BY <1>2 DEF WalletRow
  <2>3. hh \in Nat /\ bb \in Nat
    BY <1>0, TakenSums
  <2> QED  BY <2>1, <2>2, <2>3
<1>10. bb * now <= hh * RateScale
  <2> DEFINE pay == payment'
             S == Holding'
  <2>1. /\ pay \in [Payments -> PaymentIntent] /\ S \in SUBSET Payments
        /\ \A q \in S : pay[q].shares * LastRate <= pay[q].reservation * RateScale
        /\ now <= LastRate
    BY <1>0, <1>1, LiveAfter DEF ShareCost, RatesOK
  <2> HIDE DEF pay, S
  <2>2. Burns(pay, S) * now <= Reserves(pay, S) * RateScale
    BY <1>2, <2>1, BurnsCovered
  <2> QED  BY <2>2 DEF pay, S
<1>11. /\ wallet.shares - bb >= 0
       /\ ComputePositionValue(wallet.shares - bb, now) >= wallet.basis
  <2>1. wallet.shares \in Nat /\ wallet.basis \in Nat
    BY <1>2 DEF WalletRow
  <2>2. ComputePositionValue(wallet.shares, now) \in Nat
    BY <1>2, <2>1, ValueBounds
  <2> HIDE DEF rr, hh, bb
  <2>3. wallet.basis + hh <= ComputePositionValue(wallet.shares, now)
    BY <1>8, <1>9, <2>1, <2>2
  <2> QED  BY <1>2, <1>9, <1>10, <2>1, <2>3, LeftCovers
<1>12. FreeShares' = wallet.shares - bb
  BY <1>4, BookSums DEF FreeShares
<1> HIDE DEF bb
<1> QED  BY <1>3, <1>4, <1>11, <1>12 DEF PrincipalKept, ComputePositionValue, MulDivFloor

\* Every step keeps the principal.
LEMMA PrincipalStep ==
    ASSUME PrincipalInv, FeeCoversMargin, [SettlementNext]_allVars
    PROVE  PrincipalInv'
<1>0. /\ SettlementShape /\ ReservedCovers /\ RatesOK /\ ShareCost /\ VersionsOK
      /\ SnapshotFresh /\ PrincipalKept
  BY DEF PrincipalInv
<1>1. /\ SettlementShape' /\ ReservedCovers' /\ RatesOK' /\ ShareCost' /\ VersionsOK'
      /\ SnapshotFresh' /\ now <= now' /\ now' \in Nat \ {0} /\ now \in Nat
  BY <1>0, ShapeInductive, ReservedStep, RateStep, CostStep, SnapshotStep
     DEF SettlementShape, SettlementTypeOK
<1> SUFFICES PrincipalKept'
  BY <1>1 DEF PrincipalInv
<1> DEFINE h == Burns(payment, Holding)
           hh == Burns(payment', Holding')
           s == wallet.shares
           ss == wallet'.shares
           b == wallet.basis
<1>2. /\ s \in Nat /\ b \in Nat /\ h \in Nat /\ ss \in Nat /\ Holding \in SUBSET Payments
      /\ payment \in [Payments -> PaymentIntent] /\ payment' \in [Payments -> PaymentIntent]
      /\ Holding \in SUBSET Holding
  BY <1>0, LiveAfter, BooksKept DEF WalletRow, Holding
<1>3. s - h >= 0 /\ ComputePositionValue(s - h, now) >= b
  BY <1>0, BookSums DEF PrincipalKept, FreeShares
<1>4. PrincipalKept' <=> /\ ss - hh >= 0
                         /\ ComputePositionValue(ss - hh, now') >= wallet'.basis
  BY BookSums DEF PrincipalKept, FreeShares, ComputePositionValue, MulDivFloor
<1>5. ASSUME s - h <= ss - hh, hh \in Nat, wallet'.basis = b PROVE PrincipalKept'
  <2>1. s - h \in Int /\ ss - hh \in Int
    BY <1>2, <1>5
  <2> DEFINE x == s - h
             y == ss - hh
  <2>2. x \in Int /\ y \in Int /\ x >= 0 /\ x <= y /\ ComputePositionValue(x, now) >= b
    BY <1>3, <1>5, <2>1
  <2> DEFINE q == now'
  <2>3. q \in Nat /\ now <= q
    BY <1>1
  <2> HIDE DEF x, y, h, hh, s, ss, b, q
  <2>4. y >= 0 /\ ComputePositionValue(y, q) >= b
    BY <1>1, <1>2, <2>2, <2>3, KeptByMore
  <2> QED  BY <1>4, <1>5, <2>4 DEF y, q
<1>6. CASE BooksStill
  <2>1. ss = s /\ hh = h /\ wallet'.basis = b
    BY <1>0, <1>2, <1>6, BooksKept DEF BooksStill, Books
  <2> HIDE DEF s, ss, h, hh, b
  <2> QED  BY <1>2, <1>5, <2>1
<1>7. CASE \E S \in SUBSET Payments : BooksFree(S)
  <2>1. PICK S \in SUBSET Payments : BooksFree(S)
    BY <1>7
  <2>2. S \in SUBSET Holding /\ Holding' = Holding \ S /\ Holding \ S \in SUBSET Holding
    BY <2>1 DEF BooksFree
  <2>3. hh \in Nat /\ hh <= h
    BY <1>0, <2>2, BooksKept
  <2>4. ss = s /\ wallet'.basis = b
    BY <2>1 DEF BooksFree, Books
  <2> HIDE DEF s, ss, h, hh, b
  <2> QED  BY <1>2, <1>5, <2>3, <2>4
<1>8. CASE \E p \in Payments, r \in SellerRequests : BooksTake(p, r)
  BY <1>8, TakeKeepsPrincipal
<1>9. CASE \E w \in Workers, p \in Payments : BooksClose(w, p)
  <2>1. PICK w \in Workers, p \in Payments : BooksClose(w, p)
    BY <1>9
  <2> DEFINE f == payment[p].shares
  <2>2. {p} \in SUBSET Holding /\ Holding' = Holding \ {p} /\ Holding \ {p} \in SUBSET Holding
    BY <2>1 DEF BooksClose
  <2>3. Burns(payment, {p}) = f
    BY <1>2, BookOne
  <2>4. f \in Nat /\ hh = h - f /\ f <= h
    BY <1>0, <2>2, <2>3, BooksKept
  <2>5. (ss = s \/ ss = s - f) /\ wallet'.basis = b
    BY <2>1 DEF BooksClose, Books
  <2> HIDE DEF f, s, ss, h, hh, b
  <2> QED  BY <1>2, <1>5, <2>4, <2>5
<1>10. CASE \E w \in Workers : BooksReset(w)
  <2>1. PICK w \in Workers : BooksReset(w)
    BY <1>10
  <2>2. /\ Holding' = {} /\ ss = seen[w].shares /\ now' = now
        /\ wallet'.basis = ComputePositionValue(ss, seen[w].rate)
    BY <2>1 DEF BooksReset, Books, SyncWrite
  <2>3. hh = 0
    <3> DEFINE pay == payment'
    <3> HIDE DEF pay
    <3>1. Burns(pay, {}) = 0
      BY <1>2, BookOne DEF pay
    <3> QED  BY <2>2, <3>1 DEF pay
  <2>4. seen[w].rate \in Nat /\ seen[w].rate <= now
    BY <1>0 DEF SettlementShape, SettlementTypeOK, RatesOK
  <2> HIDE DEF ss, hh
  <2>5. ComputePositionValue(ss, seen[w].rate) <= ComputePositionValue(ss, now)
    BY <1>1, <1>2, <2>4, ValueMonotone
  <2>6. ComputePositionValue(ss, seen[w].rate) \in Nat /\ ComputePositionValue(ss, now) \in Nat
    BY <1>1, <1>2, <2>4, ValueBounds
  <2>7. ss - hh = ss /\ ss >= 0
    BY <1>2, <2>3
  <2> QED  BY <1>4, <2>2, <2>5, <2>6, <2>7
<1>11. CASE \E w \in Workers : BooksRefresh(w)
  <2>1. PICK w \in Workers : BooksRefresh(w)
    BY <1>11
  <2>2. /\ hh = h /\ wallet'.basis = b
    BY <1>0, <1>2, <2>1, BooksKept DEF BooksRefresh, Books
  <2>3. ss = s
    BY <1>0, <2>1 DEF BooksRefresh, Books, SyncWrite, MaySync, SnapshotFresh
  <2> HIDE DEF s, ss, h, hh, b
  <2> QED  BY <1>2, <1>5, <2>2, <2>3
<1> QED  BY <1>0, <1>6, <1>7, <1>8, <1>9, <1>10, <1>11, BooksStep

\* Initially the position covers it.
LEMMA PrincipalStarts == SettlementInit => PrincipalInv
<1> SUFFICES ASSUME SettlementInit PROVE PrincipalInv
  OBVIOUS
<1>1. SettlementShape /\ ReservedCovers
  BY ShapeStarts, ReservedStarts
<1>2. Holding = {}
  BY DEF SettlementInit, Holding, LiveStatuses
<1>3. /\ \A w \in Workers : seen[w].version = 0 /\ seen[w].rate = 0 /\ at[w] = "idle"
      /\ wallet.version = 1 /\ wallet.shares = StartShares /\ wallet.basis = StartBasis
      /\ now = StartRate
  BY DEF SettlementInit, NothingSeen
<1>4. VersionsOK /\ SnapshotFresh /\ ShareCost
  BY <1>2, <1>3 DEF VersionsOK, SnapshotFresh, ShareCost
<1>5. RatesOK
  <2>1. StartRate \in 1 .. LastRate /\ LastRate \in Nat
    BY SettlementAssumption
  <2> QED  BY <1>3, <2>1 DEF RatesOK
<1>6. SharesOf(Holding) = 0
  <2>1. SharesOf({}) = 0
    BY SumEmpty DEF SharesOf, Sum
  <2> QED  BY <1>2, <2>1
<1>7. FreeShares = StartShares
  BY <1>3, <1>6, ConstantTypes DEF FreeShares
<1>8. ComputePositionValue(StartShares, StartRate) >= StartBasis
  <2>1. ComputePositionValue(StartShares, StartRate) \in Nat
    BY ConstantTypes, ValueBounds
  <2>2. StartBasis <= ComputePositionValue(StartShares, StartRate)
    BY SettlementAssumption
  <2>3. StartBasis \in Nat
    BY ConstantTypes
  <2> QED  BY <2>1, <2>2, <2>3
<1>9. PrincipalKept
  <2>1. StartShares >= 0
    BY ConstantTypes
  <2> QED  BY <1>3, <1>7, <1>8, <2>1 DEF PrincipalKept
<1> QED  BY <1>1, <1>4, <1>5, <1>9 DEF PrincipalInv

\* Shares worth the principal, and reservations worth the rest.
LEMMA KeptIsReserved == PrincipalInv => PrincipalReserved
<1> SUFFICES ASSUME PrincipalInv, LedgerAgrees
             PROVE  LET left == held - SharesOf(Holding \ Unbooked)
                    IN  left >= 0 /\ ComputePositionValue(left, now) >= wallet.basis
  BY DEF PrincipalReserved
<1>1. /\ payment \in [Payments -> PaymentIntent] /\ held \in Nat
      /\ Holding \in SUBSET Payments /\ Unbooked \in SUBSET Holding
  BY DEF PrincipalInv, SettlementShape, SettlementTypeOK, Holding, Unbooked
<1> DEFINE h == Burns(payment, Holding)
           u == Burns(payment, Unbooked)
           d == Burns(payment, Holding \ Unbooked)
<1>2. h \in Nat /\ u \in Nat /\ d \in Nat /\ h = u + d
  BY <1>1, BookParts
<1>3. wallet.shares = held + u /\ FreeShares = wallet.shares - h
  BY BookSums DEF LedgerAgrees, FreeShares
<1>4. SharesOf(Holding \ Unbooked) = d
  BY BookSums
<1>5. FreeShares >= 0 /\ ComputePositionValue(FreeShares, now) >= wallet.basis
  BY DEF PrincipalInv, PrincipalKept
<1> HIDE DEF h, u, d
<1>6. FreeShares = held - d
  BY <1>1, <1>2, <1>3
<1> QED  BY <1>4, <1>5, <1>6

(***************************************************************************)
(* The live payments can all land, in any order and at any later rate, and *)
(* the principal is still there, for any number of payments and concurrent *)
(* handlers: each was prepared against a budget that counts the            *)
(* reservations of the others (evaluatePaymentBudget), no reservation of a *)
(* live payment is ever lost, and a reset or a settlement moves the books  *)
(* by what it burned.  The hypothesis is the one the arithmetic needs: the *)
(* fee a payment reserves pays for rounding, margin and the rise of the    *)
(* rate.                                                                   *)
(***************************************************************************)
THEOREM PrincipalAlwaysReserved ==
    ASSUME FeeCoversMargin PROVE SettlementSpec => []PrincipalReserved
<1>1. PrincipalInv /\ [SettlementNext]_allVars => PrincipalInv'
  BY PrincipalStep
<1> QED  BY <1>1, PrincipalStarts, KeptIsReserved, PTL DEF SettlementSpec

-----------------------------------------------------------------------------
(* The ledger's shares and the chain's.                                     *)

\* A snapshot that is still current shows the shares on chain, unless a
\* settlement landed since.
SnapshotTrue ==
    \A w \in Workers :
        at[w] = "sync" /\ seen[w].version = wallet.version /\ exits = 0 /\ Unbooked = {} =>
            seen[w].shares = held

SettledLanded == \A p \in Payments : payment[p].status = "settled" => tx[p] = "landed"

LedgerInv ==
    /\ SoleInv
    /\ VersionsOK
    /\ SnapshotFresh
    /\ SnapshotTrue
    /\ SettledLanded
    /\ LedgerFollowsChain

\* A settlement lands.
Lands(p) ==
    /\ tx[p] = "wire" /\ window[p] = "open" /\ tx' = [tx EXCEPT ![p] = "landed"]
    /\ payment[p].shares <= held /\ held' = held - payment[p].shares
    /\ UNCHANGED <<rows, locals, exits>>

\* Shares leave the chain by a settlement or outside Subly.
LEMMA HeldStep ==
    ASSUME SettlementShape, [SettlementNext]_allVars
    PROVE  \/ /\ UNCHANGED <<held, exits>>
              /\ \A p \in Payments : tx'[p] = "landed" <=> tx[p] = "landed"
           \/ exits' = exits + 1
           \/ \E p \in Payments : Lands(p)
<1>0. tx \in [Txs -> TxStates]
  BY DEF SettlementShape, SettlementTypeOK, TxTypeOK
<1>1. ASSUME NEW p \in Payments, PayOrRevert(p)
      PROVE  \/ Lands(p)
             \/ /\ UNCHANGED <<held, exits>>
                /\ \A q \in Payments : tx'[q] = "landed" <=> tx[q] = "landed"
  <2>1. CASE payment[p].shares <= held /\ Include(p, "landed")
             /\ held' = held - payment[p].shares
    BY <1>1, <2>1 DEF PayOrRevert, Lands, Include
  <2>2. CASE Include(p, "reverted") /\ UNCHANGED held
    BY <1>0, <1>1, <2>2 DEF PayOrRevert, Include
  <2> QED  BY <1>1, <2>1, <2>2 DEF PayOrRevert
<1>2. ASSUME NEW w \in Workers, SubmitSend(w) \/ ReconcileResend(w)
      PROVE  /\ UNCHANGED <<held, exits>>
             /\ \A q \in Payments : tx'[q] = "landed" <=> tx[q] = "landed"
  <2>1. UNCHANGED <<held, exits>> /\ (Broadcast(on[w]) \/ UNCHANGED tx)
    BY <1>2 DEF SubmitSend, ReconcileResend
  <2> QED  BY <1>0, <2>1 DEF Broadcast
<1>3. CASE Exit
  BY <1>3 DEF Exit
<1>4. ASSUME NEW p \in Payments, Blocks(p) PROVE UNCHANGED <<held, exits, tx>>
  BY <1>4 DEF Blocks, Index, CloseWindow, PassMargin
<1>5. \/ UNCHANGED <<held, exits, tx>> \/ Exit
      \/ \E p \in Payments : PayOrRevert(p) \/ Blocks(p)
      \/ \E w \in Workers : SubmitSend(w) \/ ReconcileResend(w)
  BY DEF allVars, SettlementNext, Advance, PreparePayment, RefusePayment,
     RefuseWithdrawal, ExpirePrepared, ExpireOne, PaymentLapse, SettlePrepared,
     MarkSubmitted, Finalize, SyncWrite, RecordPending, Settle, SubmitLookup,
     SubmitSimulate, SubmitWait, SubmitConfirm, ReconcileLookup, ReconcileHeight,
     AlreadyTerminal, SyncRead, CallFails, Die, Earn, Onward, Carry
<1> QED  BY <1>1, <1>2, <1>3, <1>4, <1>5

\* A stored payment leaves the books only when its outcome is recorded.
LEMMA ClosedByOutcome ==
    ASSUME SettlementShape, [SettlementNext]_allVars, NEW p \in Submitted,
           payment'[p].status \notin LiveStatuses
    PROVE  \E w \in Workers : BooksClose(w, p)
<1>1. /\ p \in Holding /\ p \in Payments /\ payment[p].status # "prepared"
      /\ p \notin Holding' /\ p \notin Stale
  BY LiveAfter DEF Submitted, Holding, LiveStatuses, Stale
<1>2. ~BooksStill /\ \A S \in SUBSET Payments : ~BooksFree(S)
  BY <1>1 DEF BooksStill, BooksFree
<1>3. \A w \in Workers : ~BooksReset(w) /\ ~BooksRefresh(w)
  BY <1>1 DEF BooksReset, BooksRefresh, MaySync
<1>4. \A q \in Payments, r \in SellerRequests : ~BooksTake(q, r)
  BY <1>1 DEF BooksTake
<1>5. PICK w \in Workers, q \in Payments : BooksClose(w, q)
  BY <1>2, <1>3, <1>4, BooksStep
<1>6. p = q
  BY <1>1, <1>5 DEF BooksClose
<1> QED  BY <1>5, <1>6

\* What is recorded as settled has landed.
LEMMA SettledStep ==
    ASSUME SettlementShape, SettledLanded, [SettlementNext]_allVars PROVE SettledLanded'
<1> SUFFICES ASSUME NEW p \in Payments, payment'[p].status = "settled"
             PROVE  tx'[p] = "landed"
  BY DEF SettledLanded
<1>1. CASE payment[p].status = "settled"
  <2>1. tx[p] = "landed"
    BY <1>1 DEF SettledLanded
  <2> QED  BY <2>1, Forward DEF OnChain
<1>2. CASE payment[p].status # "settled"
  <2>1. p \in Submitted
    BY <1>2, StatusStep DEF Steps, Submitted
  <2>2. PICK w \in Workers : BooksClose(w, p)
    BY <2>1, ClosedByOutcome DEF LiveStatuses
  <2>3. ResultOf(w) = "settled" /\ p = on[w] /\ tx' = tx
    <3>1. payment \in [Payments -> PaymentIntent] /\ Finalize(w) /\ p = on[w]
      BY <2>2, LiveAfter DEF BooksClose
    <3>2. payment'[p].status = ResultOf(w) /\ tx' = tx
      BY <3>1 DEF Finalize, PaymentIntent
    <3> QED  BY <3>1, <3>2
  <2> QED  BY <2>3 DEF ResultOf
<1> QED  BY <1>1, <1>2

\* Payments that were never sent are not waiting to be booked.
LEMMA UnsentNotUnbooked ==
    ASSUME SettlementShape, NEW p \in Payments,
           payment[p].status \in {"absent", "prepared"}
    PROVE  tx[p] # "landed" /\ p \notin Unbooked
BY DEF SettlementShape, SentOK, Unbooked

\* What waits to be booked stays, unless an outcome is recorded or the books
\* are reset.
LEMMA UnbookedStays ==
    ASSUME SettlementShape, [SettlementNext]_allVars,
           \A p \in Payments : tx'[p] = "landed" <=> tx[p] = "landed",
           \/ BooksStill
           \/ \E S \in SUBSET Payments : BooksFree(S)
           \/ \E p \in Payments, r \in SellerRequests : BooksTake(p, r)
           \/ \E w \in Workers : BooksRefresh(w)
    PROVE  Unbooked' = Unbooked
<1>0. /\ Unbooked' = {p \in Holding' : tx'[p] = "landed"}
      /\ Unbooked = {p \in Holding : tx[p] = "landed"}
      /\ Holding \subseteq Payments /\ Holding' \subseteq Payments
  BY DEF Unbooked, Holding
<1>1. SUFFICES ASSUME NEW p \in Payments, tx[p] = "landed"
               PROVE  p \in Holding' <=> p \in Holding
  BY <1>0
<1>2. payment[p].status \notin {"absent", "prepared"}
  BY <1>1, UnsentNotUnbooked
<1>3. CASE BooksStill \/ \E w \in Workers : BooksRefresh(w)
  BY <1>3 DEF BooksStill, BooksRefresh
<1>4. CASE \E S \in SUBSET Payments : BooksFree(S)
  BY <1>2, <1>4 DEF BooksFree
<1>5. CASE \E q \in Payments, r \in SellerRequests : BooksTake(q, r)
  BY <1>2, <1>5 DEF BooksTake, Stale, PreparePayment
<1> QED  BY <1>3, <1>4, <1>5

\* A current snapshot shows the chain.
LEMMA SnapshotTrueStep ==
    ASSUME LedgerInv, OneHandler, [SettlementNext]_allVars
    PROVE  SnapshotTrue'
<1>0. /\ SettlementShape /\ SnapshotTrue /\ VersionsOK
      /\ exits \in Nat
  BY DEF LedgerInv, SoleInv, SettlementShape, SettlementTypeOK
<1> SUFFICES ASSUME NEW w \in Workers, at'[w] = "sync", seen'[w].version = wallet'.version,
                    exits' = 0, Unbooked' = {}
             PROVE  seen'[w].shares = held'
  BY DEF SnapshotTrue
<1>1. CASE Takes(w)
  BY <1>1 DEF Takes, SyncRead
<1>2. CASE seen'[w] = seen[w] /\ at[w] = "sync"
  <2>1. /\ seen[w].version \in Nat /\ seen[w].version <= wallet.version
    BY <1>0 DEF SettlementShape, SettlementTypeOK, VersionsOK
  <2>2. wallet' = wallet
    BY <1>0, <1>2, <2>1, VersionStep
  <2>3. exits' # exits + 1
    BY <1>0
  <2>4. ASSUME NEW p \in Payments, Lands(p) PROVE FALSE
    <3>1. tx'[p] = "landed" /\ tx[p] = "wire" /\ payment' = payment
      BY <1>0, <2>4 DEF Lands, SettlementShape, SettlementTypeOK, TxTypeOK
    <3>2. payment[p].status \notin LiveStatuses
      BY <3>1 DEF Unbooked, Holding
    <3>3. payment[p].status \in Statuses
      BY <1>0 DEF SettlementShape, SettlementTypeOK, PaymentIntent, Statuses
    <3>4. payment[p].status \in TerminalStatuses
      BY <1>0, <3>1, <3>2, <3>3 DEF SettlementShape, SentOK, Statuses
    <3>5. NeverLands(p) \/ tx[p] = "landed"
      BY <3>4 DEF LedgerInv, SoleInv, FailedDead, SettledLanded, TerminalStatuses
    <3> QED  BY <2>4, <3>1, <3>5 DEF NeverLands, Lands
  <2>5. /\ UNCHANGED <<held, exits>>
        /\ \A p \in Payments : tx'[p] = "landed" <=> tx[p] = "landed"
    BY <1>0, <2>3, <2>4, HeldStep
  <2>6. ASSUME NEW v \in Workers, Finalize(v) \/ SyncWrite(v) PROVE FALSE
    <3>1. v = w
      BY DEF OneHandler
    <3> QED
      BY <1>0, <1>2, <2>6, <3>1
         DEF Finalize, SyncWrite, Reply, SettlementShape, SettlementTypeOK
  <2>7. Unbooked' = Unbooked
    <3>1. /\ \A v \in Workers, p \in Payments : ~BooksClose(v, p)
          /\ \A v \in Workers : ~BooksReset(v)
      BY <2>6 DEF BooksClose, BooksReset
    <3> QED  BY <1>0, <2>5, <3>1, BooksStep, UnbookedStays
  <2> QED  BY <1>0, <1>2, <2>2, <2>5, <2>7 DEF SnapshotTrue
<1> QED  BY <1>0, <1>1, <1>2, SeenStep

\* A settlement that lands is that of a live payment.
LEMMA LandsLive ==
    ASSUME SettlementShape, FailedDead, SettledLanded, NEW p \in Payments, Lands(p)
    PROVE  p \in Holding /\ p \notin Unbooked
<1>1. tx[p] = "wire" /\ window[p] = "open"
  BY DEF Lands
<1>2. payment[p].status \in Statuses
  BY DEF SettlementShape, SettlementTypeOK, PaymentIntent, Statuses
<1>3. payment[p].status # "absent"
  BY <1>1 DEF SettlementShape, SentOK
<1>4. payment[p].status \notin TerminalStatuses
  BY <1>1 DEF FailedDead, SettledLanded, NeverLands, TerminalStatuses
<1> QED  BY <1>1, <1>2, <1>3, <1>4 DEF Statuses, Holding, Unbooked

\* Every step keeps the row and the chain apart by what is unbooked.
LEMMA LedgerAgreesStep ==
    ASSUME LedgerInv, OneHandler, [SettlementNext]_allVars
    PROVE  LedgerFollowsChain'
<1>0. /\ SettlementShape /\ SnapshotTrue /\ SnapshotFresh /\ FailedDead /\ SettledLanded
      /\ SoleInv /\ exits \in Nat /\ held \in Nat
  BY DEF LedgerInv, SoleInv, SettlementShape, SettlementTypeOK
<1> DEFINE u == Burns(payment, Unbooked)
           uu == Burns(payment', Unbooked')
           s == wallet.shares
           ss == wallet'.shares
<1>1. /\ s \in Nat /\ u \in Nat /\ Unbooked \in SUBSET Holding
      /\ Unbooked \in SUBSET Payments /\ Holding \in SUBSET Payments
      /\ payment \in [Payments -> PaymentIntent] /\ payment' \in [Payments -> PaymentIntent]
  <2>1. Unbooked \in SUBSET Holding /\ Holding \in SUBSET Payments
    BY DEF Unbooked, Holding
  <2> QED  BY <1>0, <2>1, LiveAfter, BooksKept DEF WalletRow
<1>2. exits = 0 => s = held + u
  BY BookSums DEF LedgerInv, LedgerFollowsChain, LedgerAgrees
<1>3. SUFFICES ASSUME exits' = 0 PROVE ss = held' + uu
  BY BookSums DEF LedgerFollowsChain, LedgerAgrees
<1>4. CASE exits' = exits + 1
  BY <1>0, <1>3, <1>4
<1>5. CASE \E p \in Payments : Lands(p)
  <2>1. PICK p \in Payments : Lands(p)
    BY <1>5
  <2>2. p \in Holding /\ p \notin Unbooked
    BY <1>0, <2>1, LandsLive
  <2>3. /\ payment' = payment /\ ss = s /\ exits = 0
        /\ held' = held - payment[p].shares /\ payment[p].shares \in Nat
    BY <1>1, <1>3, <2>1 DEF Lands, PaymentIntent
  <2>4. Unbooked' = Unbooked \cup {p}
    BY <1>0, <2>1, <2>2, <2>3
       DEF Lands, Unbooked, Holding, SettlementShape, SettlementTypeOK, TxTypeOK
  <2> DEFINE U == Unbooked \cup {p}
  <2>5. Burns(payment, U) = u + payment[p].shares
    <3>1. U \in SUBSET Payments /\ Unbooked \in SUBSET U /\ U \ Unbooked = {p}
      BY <1>1, <2>2
    <3>2. Burns(payment, {p}) = payment[p].shares
      BY <1>1, BookOne
    <3> HIDE DEF U
    <3>3. Burns(payment, U) = Burns(payment, Unbooked) + Burns(payment, U \ Unbooked)
      BY <1>1, <3>1, BookParts
    <3> QED  BY <3>1, <3>2, <3>3
  <2>6. uu = u + payment[p].shares
    BY <2>3, <2>4, <2>5
  <2> HIDE DEF u, uu, s, ss
  <2> QED  BY <1>0, <1>1, <1>2, <2>3, <2>6
<1>6. ASSUME UNCHANGED <<held, exits>>,
             \A p \in Payments : tx'[p] = "landed" <=> tx[p] = "landed"
      PROVE  ss = held' + uu
  <2>0. s = held + u /\ exits = 0
    BY <1>2, <1>3, <1>6
  <2>1. ASSUME Unbooked' = Unbooked PROVE uu = u
    BY <1>0, <1>1, <2>1, BooksKept
  <2>2. CASE \/ BooksStill
             \/ \E S \in SUBSET Payments : BooksFree(S)
             \/ \E p \in Payments, r \in SellerRequests : BooksTake(p, r)
    <3>1. uu = u
      BY <1>0, <1>6, <2>1, <2>2, UnbookedStays
    <3>2. ss = s
      BY <2>2 DEF BooksStill, BooksFree, BooksTake, Books
    <3> QED  BY <1>6, <2>0, <3>1, <3>2
  <2>3. CASE \E w \in Workers : BooksRefresh(w)
    <3>1. uu = u
      BY <1>0, <1>6, <2>1, <2>3, UnbookedStays
    <3>2. ss = s
      BY <1>0, <2>3 DEF BooksRefresh, Books, SyncWrite, MaySync, SnapshotFresh
    <3> QED  BY <1>6, <2>0, <3>1, <3>2
  <2>4. CASE \E w \in Workers : BooksReset(w)
    <3>1. PICK w \in Workers : BooksReset(w)
      BY <2>4
    <3>2. Holding' = {} /\ ss = seen[w].shares /\ Submitted = {}
          /\ at[w] = "sync" /\ seen[w].version = wallet.version
      BY <3>1 DEF BooksReset, Books, SyncWrite, MaySync
    <3>3. Unbooked = {} /\ Unbooked' = {}
      <4>1. \A p \in Holding : payment[p].status = "prepared"
        BY <3>2 DEF Submitted, Holding, LiveStatuses
      <4>2. Unbooked = {}
        BY <1>0, <1>1, <4>1, UnsentNotUnbooked
      <4> QED  BY <3>2, <4>2 DEF Unbooked
    <3>4. seen[w].shares = held
      BY <1>0, <2>0, <3>2, <3>3 DEF SnapshotTrue
    <3>5. uu = 0
      <4> DEFINE pay == payment'
      <4> HIDE DEF pay
      <4>1. Burns(pay, {}) = 0
        BY <1>1, BookOne DEF pay
      <4> QED  BY <3>3, <4>1 DEF pay
    <3> HIDE DEF ss, uu
    <3> QED  BY <1>0, <1>6, <3>2, <3>4, <3>5
  <2>5. CASE \E w \in Workers, p \in Payments : BooksClose(w, p)
    <3>1. PICK w \in Workers, p \in Payments : BooksClose(w, p)
      BY <2>5
    <3> DEFINE f == payment[p].shares
    <3>2. /\ p = on[w] /\ p \in Holding /\ Holding' = Holding \ {p}
          /\ at[w] \in {"s_apply", "r_apply"}
          /\ ss = IF ResultOf(w) = "settled" /\ f <= s THEN s - f ELSE s
      BY <3>1 DEF BooksClose, Finalize, Books
    <3>3. CASE ResultOf(w) = "settled"
      <4>1. tx[p] = "landed"
        BY <3>2, <3>3 DEF ResultOf
      <4>2. /\ {p} \in SUBSET Unbooked /\ Unbooked' = Unbooked \ {p}
            /\ Unbooked \ {p} \in SUBSET Holding
        BY <1>6, <3>2, <4>1 DEF Unbooked, Holding
      <4>3. uu = Burns(payment, Unbooked \ {p})
        <5> DEFINE R == Unbooked \ {p}
        <5> HIDE DEF R
        <5>1. Burns(payment', R) = Burns(payment, R)
          BY <1>0, <4>2, BooksKept DEF R
        <5> QED  BY <4>2, <5>1 DEF R
      <4>4. /\ u = Burns(payment, {p}) + Burns(payment, Unbooked \ {p})
            /\ Burns(payment, Unbooked \ {p}) \in Nat /\ Burns(payment, {p}) \in Nat
        BY <1>1, <4>2, BookParts
      <4>5. Burns(payment, {p}) = f
        BY <1>1, BookOne
      <4> HIDE DEF f, u, uu, s, ss
      <4>6. f <= s /\ f \in Nat
        BY <1>0, <1>1, <2>0, <4>4, <4>5
      <4>7. ss = s - f
        BY <3>2, <3>3, <4>6
      <4> QED  BY <1>0, <1>1, <1>6, <2>0, <4>3, <4>4, <4>5, <4>6, <4>7
    <3>4. CASE ResultOf(w) # "settled"
      <4>1. tx[p] # "landed"
        <5>1. outcome[w] \in {"none", "chain", "not_submitted"}
          BY <1>0 DEF SettlementShape, SettlementTypeOK
        <5>2. CASE outcome[w] = "not_submitted"
          BY <1>0, <3>2, <5>2 DEF SoleInv, AloneOK, NeverLands
        <5>3. CASE outcome[w] # "not_submitted"
          BY <3>2, <3>4, <5>3 DEF ResultOf
        <5> QED  BY <5>2, <5>3
      <4>2. Unbooked' = Unbooked
        BY <1>6, <3>2, <4>1 DEF Unbooked, Holding
      <4> QED  BY <1>6, <2>0, <2>1, <3>2, <3>4, <4>2
    <3> QED  BY <3>3, <3>4
  <2> QED  BY <1>0, <2>2, <2>3, <2>4, <2>5, BooksStep
<1> QED  BY <1>0, <1>4, <1>5, <1>6, HeldStep

\* Initially they agree.
LEMMA LedgerStarts == SettlementInit => LedgerInv
<1> SUFFICES ASSUME SettlementInit PROVE LedgerInv
  OBVIOUS
<1>1. SoleInv /\ VersionsOK /\ SnapshotFresh
  BY SoleStarts, PrincipalStarts DEF PrincipalInv
<1>2. SnapshotTrue /\ SettledLanded /\ Unbooked = {}
  BY DEF SettlementInit, SnapshotTrue, SettledLanded, Unbooked, Holding, LiveStatuses
<1>3. SharesOf(Unbooked) = 0
  <2>1. SharesOf({}) = 0
    BY SumEmpty DEF SharesOf, Sum
  <2> QED  BY <1>2, <2>1
<1>4. LedgerFollowsChain
  <2>1. wallet.shares = StartShares /\ held = StartShares /\ StartShares \in Nat
    BY ConstantTypes DEF SettlementInit
  <2> QED  BY <1>3, <2>1 DEF LedgerFollowsChain, LedgerAgrees
<1> QED  BY <1>1, <1>2, <1>4 DEF LedgerInv

(***************************************************************************)
(* The ledger follows the chain share by share, for any number of payments *)
(* and wherever handlers crash: unless the owner took shares out, the row  *)
(* differs from the chain by exactly what landed and is still unbooked     *)
(* (applySettlementResultToPosition, syncWalletPosition).                  *)
(***************************************************************************)
THEOREM LedgerAlwaysFollowsChain ==
    ASSUME OneHandler, PromptReads = TRUE
    PROVE  SettlementSpec => []LedgerFollowsChain
<1>1. LedgerInv /\ [SettlementNext]_allVars => LedgerInv'
  <2> SUFFICES ASSUME LedgerInv, [SettlementNext]_allVars PROVE LedgerInv'
    OBVIOUS
  <2>1. SoleInv /\ SettlementShape /\ VersionsOK /\ SnapshotFresh /\ SettledLanded
    BY DEF LedgerInv, SoleInv
  <2>2. SoleInv' /\ VersionsOK' /\ SnapshotFresh' /\ SettledLanded'
    BY <2>1, SoleStep, SnapshotStep, SettledStep
  <2>3. SnapshotTrue' /\ LedgerFollowsChain'
    BY SnapshotTrueStep, LedgerAgreesStep
  <2> QED  BY <2>2, <2>3 DEF LedgerInv
<1>2. LedgerInv => LedgerFollowsChain
  BY DEF LedgerInv
<1> QED  BY <1>1, <1>2, LedgerStarts, PTL DEF SettlementSpec
=============================================================================
