-------------------------- MODULE VaultFlowProofs --------------------------
(***************************************************************************)
(* Proofs about VaultFlow for any number of intents, handlers and          *)
(* approvals and any amounts, rates, penalties and bounds.                 *)
(***************************************************************************)
EXTENDS VaultFlow, BudgetProofs, FiniteSetTheorems

-----------------------------------------------------------------------------
(* Types of the operators the actions are built from.                       *)

\* The value of the position on chain is a natural.
LEMMA ChainValueType == TypeOK => ChainValue \in Nat
  BY ValueBounds DEF TypeOK, ChainValue

\* The shares a withdrawal is built to redeem are a natural number.
LEMMA RequestedSharesType ==
    ASSUME TypeOK, NEW r \in Requests
    PROVE  RequestedShares(r.kind, r.amount) \in Nat
<1>1. r.kind \in Kinds /\ r.amount \in Nat
  BY FlowAssumption
<1> DEFINE t == r.amount + (IF r.kind = "yield_realize" THEN YieldRounding ELSE 0)
           g == GrossWithdrawForNetTarget(t, PenaltyBps, PenaltyLamports)
<1>2. t \in Nat /\ PenaltyBps \in Nat /\ PenaltyLamports \in Nat
      /\ PenaltyBps < FullBps
  BY <1>1, FlowAssumption
<1> HIDE DEF t
<1>3. g \in Nat
  BY <1>2, GrossWithdrawIsFloor
<1>4. GrossWithdraw(r.kind, r.amount) = g
  BY DEF GrossWithdraw, t
<1> HIDE DEF g
<1>5. g * RateScale \in Nat /\ rate \in Nat \ {0} /\ chainShares \in Nat
  BY <1>3, RateScaleAssumption DEF TypeOK
<1>6. SharesToRedeem(g, rate) \in Nat
  BY <1>5, CeilDivBounds DEF SharesToRedeem
<1> QED  BY <1>4, <1>5, <1>6 DEF RequestedShares, MinBigInt

\* Expiring stale intents keeps their types, and touches prepared ones only.
LEMMA ExpireStaleType ==
    ASSUME intent \in [Flows -> Intent]
    PROVE  /\ ExpireStale(intent) \in [Flows -> Intent]
           /\ \A f \in Flows :
                /\ intent[f].status # "prepared" =>
                     ExpireStale(intent)[f] = intent[f]
                /\ Pending(ExpireStale(intent)[f]) = Pending(intent[f])
  BY DEF ExpireStale, Intent, FlowStatus, Terminal, Pending

\* The input of a sync is a snapshot.
LEMMA SyncInputType ==
    ASSUME TypeOK, NEW s \in Snapshot, NEW pnl \in PnlReports
    PROVE  SyncInput(s, pnl) \in Snapshot
<1>1. chainShares \in Nat /\ rate \in Nat /\ s.ledgerShares \in Nat
      /\ s.ledgerBasis \in Nat /\ s.version \in Nat
  BY DEF TypeOK, Snapshot
<1>2. pnl \in Nat \cup {NoCost}
  BY ChainValueType DEF PnlReports
<1> DEFINE added == chainShares - s.ledgerShares
<1>3. ASSUME added > 0
      PROVE  MulDivCeil(added, rate, RateScale) \in Nat
  <2>1. added * rate \in Nat
    BY <1>1, <1>3
  <2> QED  BY <2>1, CeilDivBounds, RateScaleAssumption DEF MulDivCeil
<1> DEFINE cost == IF ~s.force /\ added > 0 /\ pnl # NoCost
                     THEN MaxBigInt(pnl, s.ledgerBasis
                                           + MulDivCeil(added, rate, RateScale))
                     ELSE NoCost
           force == s.force \/ (chainShares # s.ledgerShares /\ cost = NoCost)
<1>4. cost \in Nat \cup {NoCost}
  BY <1>1, <1>2, <1>3 DEF MaxBigInt, NoCost
<1>5. force \in BOOLEAN
  BY Zenon
<1>6. SyncInput(s, pnl) =
        [version |-> s.version, shares |-> chainShares, rate |-> rate,
         force |-> force, cost |-> cost,
         ledgerShares |-> s.ledgerShares, ledgerBasis |-> s.ledgerBasis]
  BY Zenon DEF SyncInput
<1> HIDE DEF cost, force
<1> QED  BY <1>1, <1>4, <1>5, <1>6 DEF Snapshot

\* The basis a sync computes is a natural.
LEMMA SyncedBasisType ==
    ASSUME TypeOK, NEW s \in Snapshot
    PROVE  SyncedBasis(s) \in Nat
<1>1. position.basis \in Nat /\ position.shares \in Nat
      /\ s.shares \in Nat /\ s.rate \in Nat /\ s.cost \in Nat \cup {NoCost}
  BY DEF TypeOK, Position, Snapshot
<1>2. ComputePositionValue(s.shares, s.rate) \in Nat
  BY <1>1, ValueBounds
<1>3. ASSUME s.shares > position.shares
      PROVE  MulDivCeil(s.shares - position.shares, s.rate, RateScale) \in Nat
  <2>1. (s.shares - position.shares) * s.rate \in Nat
    BY <1>1, <1>3
  <2> QED  BY <2>1, CeilDivBounds, RateScaleAssumption DEF MulDivCeil
<1> QED  BY <1>1, <1>2, <1>3 DEF SyncedBasis, MaxBigInt, NoCost

-----------------------------------------------------------------------------
(* Updates of rows keep their types.                                        *)

PositionStatus == {"active", "observed_only", "needs_baseline_reset"}

\* Assigning one field of the position row.
LEMMA PositionField ==
    ASSUME NEW p \in Position, NEW n \in Nat, NEW b \in BOOLEAN,
           NEW s \in PositionStatus
    PROVE  /\ [p EXCEPT !.status = s] \in Position
           /\ [p EXCEPT !.ready = b] \in Position
           /\ [p EXCEPT !.shares = n] \in Position
           /\ [p EXCEPT !.basis = n] \in Position
           /\ [p EXCEPT !.feeDebt = n] \in Position
           /\ [p EXCEPT !.established = b] \in Position
           /\ [p EXCEPT !.version = n] \in Position
  BY DEF Position, PositionStatus

\* A save increments the revision.
LEMMA NextVersion ==
    ASSUME NEW p \in Position
    PROVE  [p EXCEPT !.version = @ + 1] \in Position
<1>1. p.version + 1 \in Nat
  BY DEF Position
<1> QED  BY <1>1, PositionField DEF PositionStatus

\* The row flagBaselineReset saves is a position.
LEMMA FlaggedType ==
    ASSUME NEW p \in Position
    PROVE  [p EXCEPT !.status = "needs_baseline_reset", !.version = @ + 1]
             \in Position
<1>1. [p EXCEPT !.status = "needs_baseline_reset"] \in Position
  BY PositionField DEF PositionStatus
<1>2. [[p EXCEPT !.status = "needs_baseline_reset"] EXCEPT !.version = @ + 1]
        \in Position
  BY <1>1, NextVersion
<1> QED  BY <1>2

\* The row applyFlowFeeDebt saves is a position.
LEMMA ChargedType ==
    ASSUME NEW p \in Position, NEW charged \in BOOLEAN
    PROVE  ChargeFee(p, charged) \in Position
<1>1. p.feeDebt + FlowFee \in Nat
  BY FlowAssumption DEF Position
<1>2. [p EXCEPT !.feeDebt = p.feeDebt + FlowFee] \in Position
  BY <1>1, PositionField DEF PositionStatus
<1>3. [[p EXCEPT !.feeDebt = p.feeDebt + FlowFee] EXCEPT !.version = @ + 1]
        \in Position
  BY <1>2, NextVersion
<1> QED  BY <1>3 DEF ChargeFee

\* The row a finalization saves from a receipt is a position.
LEMMA BookedType ==
    ASSUME NEW p \in Position, NEW n \in Nat, NEW b \in Nat
    PROVE  [p EXCEPT !.shares = n, !.basis = b, !.established = TRUE,
                     !.version = @ + 1] \in Position
<1>1. [p EXCEPT !.shares = n] \in Position
  BY PositionField DEF PositionStatus
<1>2. [[p EXCEPT !.shares = n] EXCEPT !.basis = b] \in Position
  BY <1>1, PositionField DEF PositionStatus
<1>3. [[[p EXCEPT !.shares = n] EXCEPT !.basis = b] EXCEPT !.established = TRUE]
        \in Position
  BY <1>2, PositionField DEF PositionStatus
<1>4. [[[[p EXCEPT !.shares = n] EXCEPT !.basis = b] EXCEPT !.established = TRUE]
          EXCEPT !.version = @ + 1] \in Position
  BY <1>3, NextVersion
<1> QED  BY <1>4

\* The row syncWalletPosition saves is a position.
LEMMA SyncedType ==
    ASSUME NEW p \in Position, NEW n \in Nat, NEW b \in Nat,
           NEW s \in PositionStatus
    PROVE  [p EXCEPT !.shares = n, !.basis = b, !.established = TRUE,
                     !.status = s, !.version = @ + 1] \in Position
<1>1. [p EXCEPT !.status = s] \in Position
  BY PositionField
<1>2. [[p EXCEPT !.status = s] EXCEPT
          !.shares = n, !.basis = b, !.established = TRUE, !.version = @ + 1]
        \in Position
  BY <1>1, BookedType
<1> QED  BY <1>2

\* The row registerAgentWallet saves is a position.
LEMMA RegisteredType ==
    ASSUME NEW p \in Position, NEW r \in BOOLEAN, NEW s \in PositionStatus
    PROVE  [p EXCEPT !.ready = r, !.status = s, !.version = @ + 1] \in Position
<1>1. [p EXCEPT !.ready = r] \in Position
  BY PositionField
<1>2. [[p EXCEPT !.ready = r] EXCEPT !.status = s] \in Position
  BY <1>1, PositionField
<1>3. [[[p EXCEPT !.ready = r] EXCEPT !.status = s] EXCEPT !.version = @ + 1]
        \in Position
  BY <1>2, NextVersion
<1> QED  BY <1>3

\* Assigning the status of one intent keeps the rows typed.
LEMMA IntentField ==
    ASSUME NEW is \in [Flows -> Intent], NEW f \in Flows, NEW s \in FlowStatus
    PROVE  [is EXCEPT ![f].status = s] \in [Flows -> Intent]
  BY DEF Intent

\* So does letting one intent expire.
LEMMA IntentLapse ==
    ASSUME NEW is \in [Flows -> Intent], NEW f \in Flows
    PROVE  [is EXCEPT ![f].lapsed = TRUE] \in [Flows -> Intent]
  BY DEF Intent

\* Assigning the status of one approval keeps the rows typed.
LEMMA ApprovalField ==
    ASSUME NEW as \in [Approvals -> Approval], NEW a \in Approvals,
           NEW s \in {"none", "pending", "approved", "denied", "consumed",
                      "expired"}
    PROVE  [as EXCEPT ![a].status = s] \in [Approvals -> Approval]
  BY DEF Approval

\* So does letting one approval expire.
LEMMA ApprovalLapse ==
    ASSUME NEW as \in [Approvals -> Approval], NEW a \in Approvals
    PROVE  [as EXCEPT ![a].lapsed = TRUE] \in [Approvals -> Approval]
  BY DEF Approval

-----------------------------------------------------------------------------
(* Type correctness.                                                        *)

\* The initial state is typed.
LEMMA TypeInit == Init => TypeOK
<1> SUFFICES ASSUME Init PROVE TypeOK
  OBVIOUS
<1>1. chainShares \in Nat /\ rate \in Nat \ {0}
  <2>1. chainShares \in InitialShares /\ rate = InitialRate
    BY DEF Init
  <2>2. InitialShares \subseteq Nat /\ MaxRate \in Nat /\ InitialRate \in 1 .. MaxRate
    BY FlowAssumption
  <2> QED  BY <2>1, <2>2
<1>2. principal \in Nat
  BY <1>1, ValueBounds DEF Init
<1>3. position \in Position
  <2>1. (chainShares > 0) \in BOOLEAN
    BY <1>1
  <2> QED  BY <1>1, <1>2, <2>1 DEF Init, Position
<1>4. intent \in [Flows -> Intent] /\ approval \in [Approvals -> Approval]
  BY DEF Init, Intent, FlowStatus, Kinds, Approval
<1>5. NoSnapshot \in Snapshot
  BY DEF Snapshot, NoSnapshot, NoCost
<1>6. /\ pc \in [Workers -> PCs]
      /\ job \in [Workers -> Flows \cup {NoFlow}]
      /\ resubmit \in [Workers -> BOOLEAN]
      /\ snap \in [Workers -> Snapshot]
  BY <1>5 DEF Init, PCs
<1>7. TxTypeOK
  BY DEF Init, TxInit, TxTypeOK, TxStates, WindowStates
<1> QED
  BY <1>1, <1>2, <1>3, <1>4, <1>6, <1>7 DEF Init, TypeOK

\* Ending a handler keeps the types of its locals.
LEMMA DoneType ==
    ASSUME TypeOK, NEW w \in Workers, Done(w)
    PROVE  /\ pc' \in [Workers -> PCs]
           /\ job' \in [Workers -> Flows \cup {NoFlow}]
           /\ resubmit' \in [Workers -> BOOLEAN]
           /\ snap' \in [Workers -> Snapshot]
<1>1. NoSnapshot \in Snapshot
  BY DEF NoSnapshot, Snapshot, NoCost
<1> QED  BY <1>1 DEF Done, TypeOK, PCs

\* So does moving it to its next await.
LEMMA GotoType ==
    ASSUME TypeOK, NEW w \in Workers, NEW l \in PCs, Goto(w, l)
    PROVE  pc' \in [Workers -> PCs]
  BY DEF Goto, TypeOK

\* Every step preserves the types, action by action.
LEMMA TypeStep == TypeOK /\ HasJob /\ [Next]_vars => TypeOK'
<1> SUFFICES ASSUME TypeOK, HasJob, [Next]_vars PROVE TypeOK'
  OBVIOUS
<1> USE DEF ledgerVars, chainVars, txVars, handlerVars
<1>1. ASSUME NEW f \in Flows, Prepare(f) PROVE TypeOK'
  <2>1. PICK r \in Requests, a \in Approvals \cup {NoApproval} :
          intent' = [ExpireStale(intent) EXCEPT ![f] =
                       [status |-> "prepared", kind |-> r.kind,
                        amount |-> r.amount,
                        shares |-> RequestedShares(r.kind, r.amount),
                        approval |-> a, lapsed |-> FALSE]]
    BY <1>1 DEF Prepare, Authorizations
  <2>2. r.kind \in Kinds /\ r.amount \in Nat
    BY FlowAssumption
  <2>3. RequestedShares(r.kind, r.amount) \in Nat
    BY RequestedSharesType
  <2>4. ExpireStale(intent) \in [Flows -> Intent]
    BY ExpireStaleType DEF TypeOK
  <2>5. intent' \in [Flows -> Intent]
    BY <2>1, <2>2, <2>3, <2>4 DEF Intent, FlowStatus
  <2> QED  BY <1>1, <2>5 DEF Prepare, TypeOK, TxTypeOK
<1>2. ASSUME NEW f \in Flows, RefusePrepare(f) PROVE TypeOK'
  <2>1. ExpireStale(intent) \in [Flows -> Intent]
    BY ExpireStaleType DEF TypeOK
  <2>2. intent' \in [Flows -> Intent] /\ position' \in Position
    BY <1>2, <2>1, FlaggedType DEF RefusePrepare, TypeOK
  <2> QED  BY <1>2, <2>2 DEF RefusePrepare, TypeOK, TxTypeOK
<1>3. ASSUME NEW f \in Flows, Expire(f) \/ Lapse(f) PROVE TypeOK'
  <2>1. intent' \in [Flows -> Intent]
    <3>1. CASE Expire(f)
      BY <3>1, IntentField DEF Expire, TypeOK, FlowStatus, Terminal
    <3>2. CASE Lapse(f)
      BY <3>2, IntentLapse DEF Lapse, TypeOK
    <3> QED  BY <1>3, <3>1, <3>2
  <2> QED  BY <1>3, <2>1 DEF Expire, Lapse, TypeOK, TxTypeOK
<1>4. ASSUME NEW a \in Approvals, RequestApproval(a) PROVE TypeOK'
  <2>1. PICK r \in Requests, p \in Approvals \cup {NoApproval} :
          approval' =
              IF ReusablePending(r) # {} THEN ExpireIfStale(approval, p)
              ELSE [ExpireIfStale(approval, p) EXCEPT ![a] =
                      [status |-> "pending", kind |-> r.kind,
                       amount |-> r.amount, lapsed |-> FALSE]]
    BY <1>4 DEF RequestApproval
  <2>2. r.kind \in Kinds /\ r.amount \in Nat
    BY FlowAssumption
  <2>3. ExpireIfStale(approval, p) \in [Approvals -> Approval]
    BY DEF ExpireIfStale, TypeOK, Approval
  <2>4. approval' \in [Approvals -> Approval]
    BY <2>1, <2>2, <2>3 DEF Approval
  <2>5. intent' \in [Flows -> Intent]
    BY <1>4, ExpireStaleType DEF RequestApproval, TypeOK
  <2> QED  BY <1>4, <2>4, <2>5 DEF RequestApproval, TypeOK, TxTypeOK
<1>5. ASSUME NEW a \in Approvals, DecideApproval(a) \/ LapseApproval(a)
      PROVE TypeOK'
  <2>1. approval' \in [Approvals -> Approval]
    <3>1. CASE DecideApproval(a)
      <4>1. PICK s \in {"approved", "denied", "expired"} :
              approval' = [approval EXCEPT ![a].status = s]
        BY <3>1 DEF DecideApproval
      <4> QED  BY <4>1, ApprovalField DEF TypeOK
    <3>2. CASE LapseApproval(a)
      BY <3>2, ApprovalLapse DEF LapseApproval, TypeOK
    <3> QED  BY <1>5, <3>1, <3>2
  <2> QED  BY <1>5, <2>1 DEF DecideApproval, LapseApproval, TypeOK, TxTypeOK
<1>6. ASSUME NEW w \in Workers, NEW f \in Flows, Submit(w, f) PROVE TypeOK'
  <2>1. intent' \in [Flows -> Intent]
    BY <1>6 DEF Submit, TypeOK, Intent, FlowStatus
  <2> QED
    BY <1>6, <2>1 DEF Submit, Goto, TypeOK, TxTypeOK, PCs, Sending
<1>7. ASSUME NEW w \in Workers, NEW f \in Flows, Status(w, f) PROVE TypeOK'
  BY <1>7 DEF Status, Goto, TypeOK, TxTypeOK, PCs, Reconciling
<1>8. ASSUME NEW w \in Workers, Step(w) PROVE TypeOK'
  <2>1. CASE \/ Simulate(w) \/ Wait(w) \/ Confirm(w) \/ Lookup(w)
             \/ CheckHeight(w) \/ FinalLookup(w) \/ FinalizeLate(w)
    <3>1. CASE \E l \in PCs : Continue(w, l)
      BY <3>1, GotoType DEF Continue, TypeOK, TxTypeOK
    <3>2. CASE Abandon(w)
      BY <3>2, DoneType DEF Abandon, TypeOK, TxTypeOK
    <3>3. (\E l \in PCs : Continue(w, l)) \/ Abandon(w)
      BY <2>1 DEF Simulate, Wait, Confirm, Lookup, CheckHeight, FinalLookup,
                  FinalizeLate, PCs, Sending, Reconciling
    <3> QED  BY <3>1, <3>2, <3>3
  <2>2. CASE Send(w) \/ Resend(w)
    <3>1. tx' \in [Txs -> TxStates]
      BY <2>2 DEF Send, Resend, Broadcast, TypeOK, TxTypeOK, TxStates
    <3>2. /\ pc' \in [Workers -> PCs]
          /\ job' \in [Workers -> Flows \cup {NoFlow}]
          /\ resubmit' \in [Workers -> BOOLEAN]
          /\ snap' \in [Workers -> Snapshot]
      <4>1. CASE Done(w)
        BY <4>1, DoneType
      <4>2. CASE Goto(w, "wait") /\ UNCHANGED <<job, resubmit, snap>>
        BY <4>2 DEF Goto, TypeOK, PCs, Sending
      <4> QED  BY <2>2, <4>1, <4>2 DEF Send, Resend
    <3> QED  BY <2>2, <3>1, <3>2 DEF Send, Resend, TypeOK, TxTypeOK
  <2>3. CASE WriteOff(w)
    <3>1. job[w] \in Flows
      BY <2>3 DEF WriteOff, HasJob, Reconciling
    <3>2. intent' \in [Flows -> Intent]
      BY <2>3, <3>1, IntentField DEF WriteOff, TypeOK, FlowStatus, Terminal
    <3> QED  BY <2>3, <3>2, DoneType DEF WriteOff, TypeOK, TxTypeOK
  <2>4. CASE FinalizeReverted(w)
    <3>0. job[w] \in Flows
      BY <2>4 DEF FinalizeReverted, HasJob
    <3>1. intent' \in [Flows -> Intent]
      BY <2>4, <3>0, IntentField DEF FinalizeReverted, TypeOK, FlowStatus, Terminal
    <3>2. position' \in Position
      BY <2>4, ChargedType DEF FinalizeReverted, TypeOK
    <3> QED
      BY <2>4, <3>1, <3>2, DoneType DEF FinalizeReverted, TypeOK, TxTypeOK
  <2>5. CASE FinalizeUnclassified(w)
    <3>0. job[w] \in Flows
      BY <2>5 DEF FinalizeUnclassified, HasJob
    <3>1. intent' \in [Flows -> Intent]
      BY <2>5, <3>0, IntentField
      DEF FinalizeUnclassified, TypeOK, FlowStatus, Terminal
    <3>2. position' \in Position
      BY <2>5, FlaggedType DEF FinalizeUnclassified, TypeOK
    <3> QED
      BY <2>5, <3>1, <3>2, DoneType DEF FinalizeUnclassified, TypeOK, TxTypeOK
  <2>6. CASE FinalizeReceipt(w)
    <3> DEFINE f == job[w]
               booked == [position EXCEPT !.shares = chainShares,
                                          !.basis = BasisAfter(f),
                                          !.established = TRUE,
                                          !.version = @ + 1]
    <3>1. f \in Flows
      BY <2>6 DEF FinalizeReceipt, HasJob
    <3>2. intent' \in [Flows -> Intent] /\ receipts' \in [Flows -> Nat]
      <4>1. intent' \in [Flows -> Intent]
        BY <2>6, <3>1, IntentField
        DEF FinalizeReceipt, TypeOK, FlowStatus, Terminal
      <4>2. receipts' \in [Flows -> Nat]
        BY <2>6, <3>1 DEF FinalizeReceipt, TypeOK
      <4> QED  BY <4>1, <4>2
    <3>3. approval' \in [Approvals -> Approval]
      BY <2>6 DEF FinalizeReceipt, Consume, TypeOK, Approval
    <3>4. BasisAfter(f) \in Nat
      BY <3>1, ChainValueType DEF BasisAfter, MinBigInt, TypeOK, Position
    <3>5. position.version \in Nat /\ chainShares \in Nat
      BY DEF TypeOK, Position
    <3>6. booked \in Position
      BY <3>4, <3>5, BookedType DEF TypeOK
    <3>7. PICK charged \in BOOLEAN : position' = ChargeFee(booked, charged)
      BY <2>6 DEF FinalizeReceipt
    <3> HIDE DEF booked
    <3>8. position' \in Position
      BY <3>6, <3>7, ChargedType
    <3> QED
      BY <2>6, <3>2, <3>3, <3>8, DoneType DEF FinalizeReceipt, TypeOK, TxTypeOK
  <2>7. CASE SyncChain(w)
    <3>1. PICK pnl \in PnlReports :
            snap' = [snap EXCEPT ![w] = SyncInput(snap[w], pnl)]
      BY <2>7 DEF SyncChain
    <3>2. snap[w] \in Snapshot
      BY DEF TypeOK
    <3>3. SyncInput(snap[w], pnl) \in Snapshot
      BY <3>2, SyncInputType
    <3>4. snap' \in [Workers -> Snapshot]
      BY <3>1, <3>3 DEF TypeOK
    <3> QED
      BY <2>7, <3>4 DEF SyncChain, Goto, TypeOK, TxTypeOK, PCs, Syncing
  <2>8. CASE SyncApply(w)
    <3>1. snap[w] \in Snapshot
      BY DEF TypeOK
    <3>2. SyncedBasis(snap[w]) \in Nat /\ snap[w].shares \in Nat
      BY <3>1, SyncedBasisType DEF Snapshot
    <3>3. position' \in Position
      <4> DEFINE s == IF ~RunConservativeReset(snap[w]) THEN position.status
                      ELSE IF position.ready THEN "active" ELSE "observed_only"
      <4>1. s \in PositionStatus
        BY DEF TypeOK, Position, PositionStatus
      <4>2. [position EXCEPT !.shares = snap[w].shares,
                             !.basis = SyncedBasis(snap[w]),
                             !.established = TRUE, !.status = s,
                             !.version = @ + 1] \in Position
        BY <3>2, <4>1, SyncedType DEF TypeOK
      <4> QED  BY <2>8, <4>2 DEF SyncApply, TypeOK
    <3>4. refused' \in BOOLEAN
      BY <2>8 DEF SyncApply, TypeOK
    <3> QED  BY <2>8, <3>3, <3>4, DoneType DEF SyncApply, TypeOK, TxTypeOK
  <2> QED
    BY <1>8, <2>1, <2>2, <2>3, <2>4, <2>5, <2>6, <2>7, <2>8 DEF Step
<1>9. ASSUME NEW w \in Workers, SyncStart(w) PROVE TypeOK'
  <2>1. \A force \in BOOLEAN :
          [NoSnapshot EXCEPT !.version = position.version, !.force = force,
                             !.ledgerShares = position.shares,
                             !.ledgerBasis = position.basis] \in Snapshot
    BY DEF TypeOK, Position, NoSnapshot, Snapshot, NoCost
  <2>2. snap' \in [Workers -> Snapshot]
    BY <1>9, <2>1 DEF SyncStart, TypeOK
  <2> QED  BY <1>9, <2>2 DEF SyncStart, Goto, TypeOK, TxTypeOK, PCs, Syncing
<1>10. ASSUME NEW w \in Workers, Crash(w) PROVE TypeOK'
  BY <1>10, DoneType DEF Crash, TypeOK, TxTypeOK
<1>11. ASSUME NEW f \in Flows, Land(f) PROVE TypeOK'
  <2>1. intent[f].amount \in Nat /\ intent[f].shares \in Nat
        /\ intent[f].kind \in Kinds
    BY DEF TypeOK, Intent
  <2>2. chainShares \in Nat /\ rate \in Nat \ {0} /\ principal \in Nat
    BY DEF TypeOK
  <2> DEFINE minted == MintedShares(intent[f].amount)
             after == IF intent[f].kind = "deposit" THEN chainShares + minted
                      ELSE chainShares - intent[f].shares
             gross == ComputePositionValue(intent[f].shares, rate)
  <2>3. minted \in Nat
    <3>1. intent[f].amount * RateScale \in Nat
      BY <2>1, RateScaleAssumption
    <3> QED  BY <3>1, <2>2, DivNat DEF MintedShares, MulDivFloor
  <2>4. after \in Nat
    BY <1>11, <2>1, <2>2, <2>3 DEF Land
  <2>5. ComputePositionValue(after, rate) \in Nat
        /\ ComputePositionValue(minted, rate) \in Nat
        /\ gross \in Nat
    BY <2>1, <2>2, <2>3, <2>4, ValueBounds
  <2>6. ClampToZero(NetOf(gross, PenaltyBps, PenaltyLamports)) \in Nat
    <3>1. NetOf(gross, PenaltyBps, PenaltyLamports) \in Int
      BY <2>5, NetType, FlowAssumption
    <3> QED  BY <3>1 DEF ClampToZero
  <2>7. MulDivCeil(minted, rate, RateScale) \in Nat
    <3>1. minted * rate \in Nat
      BY <2>2, <2>3
    <3> QED  BY <3>1, CeilDivBounds, RateScaleAssumption DEF MulDivCeil
  <2>8. principal' \in Nat
    BY <1>11, <2>1, <2>2, <2>5 DEF Land, Kinds, MinBigInt
  <2>9. delta' \in [Flows -> Nat]
    BY <1>11, <2>6, <2>7 DEF Land, TypeOK
  <2>10. chainShares' \in Nat
    BY <1>11, <2>4 DEF Land
  <2>11. TxTypeOK'
    BY <1>11 DEF Land, Include, TypeOK, TxTypeOK, TxStates
  <2> QED  BY <1>11, <2>8, <2>9, <2>10, <2>11 DEF Land, TypeOK
<1>12. ASSUME NEW f \in Flows, Revert(f) \/ Block(f) PROVE TypeOK'
  <2>1. TxTypeOK'
    BY <1>12 DEF Revert, Block, Include, Index, CloseWindow, PassMargin,
                 TypeOK, TxTypeOK, TxStates, WindowStates
  <2> QED  BY <1>12, <2>1 DEF Revert, Block, TypeOK
<1>13. ASSUME NEW d \in Moves, ExternalMove(d) PROVE TypeOK'
  <2>1. d \in Int /\ chainShares \in Nat /\ rate \in Nat /\ principal \in Nat
    BY FlowAssumption DEF TypeOK
  <2>2. chainShares + d \in Nat
    BY <1>13, <2>1 DEF ExternalMove
  <2>3. ComputePositionValue(chainShares + d, rate) \in Nat
    BY <2>1, <2>2, ValueBounds
  <2>4. ASSUME d >= 0 PROVE ComputePositionValue(d, rate) \in Nat
    <3>1. d \in Nat
      BY <2>1, <2>4
    <3> QED  BY <2>1, <3>1, ValueBounds
  <2>5. principal' \in Nat
    BY <1>13, <2>1, <2>3, <2>4 DEF ExternalMove, MinBigInt
  <2> QED  BY <1>13, <2>2, <2>5 DEF ExternalMove, TypeOK, TxTypeOK
<1>14. CASE Register
  <2>1. PICK ready \in BOOLEAN, s \in PositionStatus :
          position' = [position EXCEPT !.ready = ready, !.status = s,
                                       !.version = @ + 1]
    BY <1>14, FlowAssumption DEF Register, TypeOK, Position, PositionStatus
  <2>2. position' \in Position
    BY <2>1, RegisteredType DEF TypeOK
  <2> QED  BY <1>14, <2>2 DEF Register, TypeOK, TxTypeOK
<1>15. CASE Accrue
  BY <1>15 DEF Accrue, TypeOK, TxTypeOK
<1>16. CASE UNCHANGED vars
  BY <1>16 DEF vars, TypeOK, TxTypeOK
<1> QED
  BY <1>1, <1>2, <1>3, <1>4, <1>5, <1>6, <1>7, <1>8, <1>9, <1>10, <1>11,
     <1>12, <1>13, <1>14, <1>15, <1>16 DEF Next

-----------------------------------------------------------------------------
(* What a step does to a transaction and to an intent.                      *)

\* A transaction advances only while its blockhash is valid, its window only
\* closes, and past the margin its receipt is visible if it has one.
TxAdvance(f) ==
    /\ \/ tx'[f] = tx[f]
       \/ tx[f] = "unsent" /\ tx'[f] = "wire"
       \/ /\ tx[f] = "wire" /\ window[f] = "open"
          /\ tx'[f] \in {"landed", "reverted"} /\ window'[f] = "open"
    /\ \/ window'[f] = window[f]
       \/ window[f] = "open" /\ window'[f] = "closed"
       \/ /\ window[f] = "closed" /\ window'[f] = "expired"
          /\ tx'[f] = tx[f] /\ (OnChain(f) => visible[f])
    /\ \/ visible'[f] = visible[f]
       \/ OnChain(f) /\ visible'[f]

\* Every step advances every transaction in this way or leaves it alone.
LEMMA TxStep ==
    ASSUME TypeOK, [Next]_vars
    PROVE  \A f \in Flows : TxAdvance(f)
<1> USE DEF ledgerVars, chainVars, txVars, handlerVars, Flows
<1>1. ASSUME UNCHANGED txVars PROVE \A f \in Flows : TxAdvance(f)
  BY <1>1 DEF TxAdvance
<1>2. ASSUME NEW w \in Workers, Send(w) \/ Resend(w)
      PROVE  \A f \in Flows : TxAdvance(f)
  BY <1>2 DEF Send, Resend, Broadcast, TxAdvance, TypeOK, TxTypeOK
<1>3. ASSUME NEW f \in Flows, Land(f) \/ Revert(f)
      PROVE  \A g \in Flows : TxAdvance(g)
  BY <1>3 DEF Land, Revert, Include, TxAdvance, TypeOK, TxTypeOK
<1>4. ASSUME NEW f \in Flows, Block(f)
      PROVE  \A g \in Flows : TxAdvance(g)
  BY <1>4 DEF Block, Index, CloseWindow, PassMargin, TxAdvance, TypeOK, TxTypeOK
<1>5. \/ UNCHANGED txVars
      \/ \E w \in Workers : Send(w) \/ Resend(w)
      \/ \E f \in Flows : Land(f) \/ Revert(f) \/ Block(f)
  <2>1. ASSUME NEW w \in Workers, Step(w), ~(Send(w) \/ Resend(w))
        PROVE  UNCHANGED txVars
    BY <2>1 DEF Step, Simulate, Wait, Confirm, Lookup, CheckHeight, FinalLookup,
         WriteOff, FinalizeLate, FinalizeReverted, FinalizeUnclassified,
         FinalizeReceipt, SyncChain, SyncApply, Continue, Abandon
  <2> QED
    BY <2>1 DEF Next, vars, Prepare, RefusePrepare, Expire, RequestApproval,
         DecideApproval, Submit, Status, SyncStart, Crash, Lapse, LapseApproval,
         ExternalMove, Register, Accrue
<1> QED  BY <1>1, <1>2, <1>3, <1>4, <1>5

\* An intent moves along prepared, submitted and one terminal status; the
\* terminal ones that speak of the chain are backed by the chain.
IntentAdvance(f) ==
    LET was == intent[f].status
        is  == intent'[f].status
    IN  \/ intent'[f] = intent[f] /\ receipts'[f] = receipts[f]
        \/ /\ receipts'[f] = receipts[f]
           /\ \/ was = "absent" /\ is = "prepared"
              \/ was = "prepared" /\ is \in {"prepared", "submitted", "expired"}
              \/ was = "submitted" /\ is = "failed" /\ OnChain(f)
              \/ /\ was = "submitted" /\ is = "failed_not_submitted"
                 /\ window[f] = "expired" /\ ~OnChain(f)
        \/ /\ was = "submitted" /\ is = "confirmed"
           /\ tx[f] = "landed" /\ receipts'[f] = receipts[f] + 1

\* Every step advances every intent in this way or leaves it alone.
LEMMA IntentStep ==
    ASSUME TypeOK, HasJob, HandlerKnows, [Next]_vars
    PROVE  \A f \in Flows : IntentAdvance(f)
<1> USE DEF ledgerVars, chainVars, txVars, handlerVars
<1>1. intent \in [Flows -> Intent] /\ receipts \in [Flows -> Nat]
  BY DEF TypeOK
<1>2. ASSUME UNCHANGED <<intent, receipts>>
      PROVE  \A f \in Flows : IntentAdvance(f)
  BY <1>2 DEF IntentAdvance
<1>3. ASSUME NEW f \in Flows, Prepare(f)
      PROVE  \A g \in Flows : IntentAdvance(g)
  <2>1. \A g \in Flows : \/ ExpireStale(intent)[g] = intent[g]
                          \/ /\ intent[g].status = "prepared"
                             /\ ExpireStale(intent)[g].status = "expired"
    BY <1>1 DEF ExpireStale, Intent
  <2>2. intent[f].status = "absent" /\ receipts' = receipts
    BY <1>3 DEF Prepare, MayPrepare
  <2>3. PICK i : i.status = "prepared"
                 /\ intent' = [ExpireStale(intent) EXCEPT ![f] = i]
    BY <1>3 DEF Prepare
  <2>4. intent'[f].status = "prepared"
    BY <2>3, <1>1, ExpireStaleType
  <2>5. \A g \in Flows \ {f} : intent'[g] = ExpireStale(intent)[g]
    BY <2>3, <1>1, ExpireStaleType
  <2> QED  BY <2>1, <2>2, <2>4, <2>5 DEF IntentAdvance
<1>4. ASSUME intent' = ExpireStale(intent), receipts' = receipts
      PROVE  \A g \in Flows : IntentAdvance(g)
  <2>1. \A g \in Flows : \/ ExpireStale(intent)[g] = intent[g]
                          \/ /\ intent[g].status = "prepared"
                             /\ ExpireStale(intent)[g].status = "expired"
    BY <1>1 DEF ExpireStale, Intent
  <2> QED  BY <1>4, <2>1 DEF IntentAdvance
<1>5. ASSUME NEW f \in Flows, NEW s \in FlowStatus, receipts' = receipts,
             intent' = [intent EXCEPT ![f].status = s],
             \/ intent[f].status = "prepared" /\ s \in {"submitted", "expired"}
             \/ intent[f].status = "submitted" /\ s = "failed" /\ OnChain(f)
             \/ /\ intent[f].status = "submitted" /\ s = "failed_not_submitted"
                /\ window[f] = "expired" /\ ~OnChain(f)
      PROVE  \A g \in Flows : IntentAdvance(g)
  <2>1. intent'[f].status = s
    BY <1>1, <1>5 DEF Intent
  <2>2. \A g \in Flows \ {f} : intent'[g] = intent[g]
    BY <1>1, <1>5
  <2> QED  BY <1>5, <2>1, <2>2 DEF IntentAdvance
<1>7. ASSUME NEW f \in Flows, Lapse(f)
      PROVE  \A g \in Flows : IntentAdvance(g)
  <2>1. intent'[f].status = "prepared" /\ intent[f].status = "prepared"
    BY <1>1, <1>7 DEF Lapse, Intent
  <2>2. \A g \in Flows \ {f} : intent'[g] = intent[g]
    BY <1>1, <1>7 DEF Lapse
  <2>3. receipts' = receipts
    BY <1>7 DEF Lapse
  <2> QED  BY <2>1, <2>2, <2>3 DEF IntentAdvance
<1>8. ASSUME NEW w \in Workers, FinalizeReceipt(w)
      PROVE  \A g \in Flows : IntentAdvance(g)
  <2>1. job[w] \in Flows
    BY <1>8 DEF FinalizeReceipt, HasJob
  <2>2. /\ intent' = [intent EXCEPT ![job[w]].status = "confirmed"]
        /\ receipts' = [receipts EXCEPT ![job[w]] = @ + 1]
        /\ tx[job[w]] = "landed" /\ intent[job[w]].status = "submitted"
    BY <1>8 DEF FinalizeReceipt, StillSubmitted
  <2>3. intent'[job[w]].status = "confirmed"
        /\ receipts'[job[w]] = receipts[job[w]] + 1
    BY <1>1, <2>1, <2>2 DEF Intent
  <2>4. \A g \in Flows \ {job[w]} : intent'[g] = intent[g]
                                    /\ receipts'[g] = receipts[g]
    BY <1>1, <2>1, <2>2
  <2> QED  BY <2>2, <2>3, <2>4 DEF IntentAdvance
<1>9. ASSUME NEW w \in Workers, Step(w)
      PROVE  \A f \in Flows : IntentAdvance(f)
  <2>1. CASE WriteOff(w)
    <3>1. job[w] \in Flows /\ window[job[w]] = "expired" /\ ~OnChain(job[w])
      BY <2>1 DEF WriteOff, HasJob, HandlerKnows, Reconciling
    <3>2. CASE StillSubmitted(job[w])
      BY <2>1, <3>1, <3>2, <1>5
      DEF WriteOff, StillSubmitted, FlowStatus, Terminal
    <3>3. CASE ~StillSubmitted(job[w])
      BY <2>1, <3>3, <1>2 DEF WriteOff
    <3> QED  BY <3>2, <3>3
  <2>2. CASE FinalizeReverted(w) \/ FinalizeUnclassified(w)
    <3>1. job[w] \in Flows /\ OnChain(job[w])
      BY <2>2 DEF FinalizeReverted, FinalizeUnclassified, HasJob, OnChain
    <3> QED
      BY <2>2, <3>1, <1>5 DEF FinalizeReverted, FinalizeUnclassified,
                              StillSubmitted, FlowStatus, Terminal
  <2>3. CASE FinalizeReceipt(w)
    BY <2>3, <1>8
  <2>4. CASE ~(WriteOff(w) \/ FinalizeReverted(w) \/ FinalizeUnclassified(w)
               \/ FinalizeReceipt(w))
    BY <1>9, <2>4, <1>2 DEF Step, Simulate, Send, Wait, Confirm, Lookup,
         CheckHeight, FinalLookup, Resend, FinalizeLate, SyncChain, SyncApply,
         Continue, Abandon
  <2> QED  BY <2>1, <2>2, <2>3, <2>4
<1>10. ASSUME NEW w \in Workers, NEW f \in Flows, Submit(w, f)
       PROVE  \A g \in Flows : IntentAdvance(g)
  BY <1>10, <1>5 DEF Submit, FlowStatus
<1>11. ASSUME NEW f \in Flows, Expire(f)
       PROVE  \A g \in Flows : IntentAdvance(g)
  BY <1>11, <1>5 DEF Expire, FlowStatus, Terminal
<1>12. ASSUME NEW f \in Flows, RefusePrepare(f)
       PROVE  \A g \in Flows : IntentAdvance(g)
  BY <1>12, <1>2, <1>4 DEF RefusePrepare
<1>13. ASSUME NEW a \in Approvals, RequestApproval(a)
       PROVE  \A g \in Flows : IntentAdvance(g)
  BY <1>13, <1>4 DEF RequestApproval
<1>14. \/ UNCHANGED <<intent, receipts>>
       \/ \E f \in Flows : Prepare(f) \/ RefusePrepare(f) \/ Expire(f) \/ Lapse(f)
       \/ \E a \in Approvals : RequestApproval(a)
       \/ \E w \in Workers, f \in Flows : Submit(w, f)
       \/ \E w \in Workers : Step(w)
  BY DEF Next, vars, DecideApproval, Status, SyncStart, Crash, Land, Revert,
         Block, LapseApproval, ExternalMove, Register, Accrue
<1> QED
  BY <1>2, <1>3, <1>7, <1>9, <1>10, <1>11, <1>12, <1>13, <1>14

-----------------------------------------------------------------------------
(* The inductive invariant.                                                 *)

\* It holds initially.
LEMMA ControlInit == Init => ControlInv
  BY DEF Init, TxInit, ControlInv, HasJob, HandlerKnows, StatusSays,
         PendingUnique, Pending, BookedOnce, OnChain, Reconciling, Sending, Flows

\* A handler that works on an intent keeps it until it ends.
LEMMA HasJobStep == TypeOK /\ HasJob /\ [Next]_vars => HasJob'
<1> SUFFICES ASSUME TypeOK, HasJob, [Next]_vars PROVE HasJob'
  OBVIOUS
<1> USE DEF ledgerVars, chainVars, txVars, handlerVars
<1>1. ASSUME UNCHANGED <<pc, job>> PROVE HasJob'
  BY <1>1 DEF HasJob
<1>2. ASSUME NEW w \in Workers, Done(w) PROVE HasJob'
  BY <1>2 DEF Done, HasJob, TypeOK, Reconciling, Sending
<1>3. ASSUME NEW w \in Workers, pc[w] \in {"finalize"} \cup Reconciling \cup Sending,
             NEW l \in PCs, Goto(w, l), job' = job
      PROVE  HasJob'
  BY <1>3 DEF Goto, HasJob, TypeOK
<1>4. ASSUME NEW w \in Workers, NEW f \in Flows, Submit(w, f) \/ Status(w, f)
      PROVE  HasJob'
  BY <1>4 DEF Submit, Status, Goto, HasJob, TypeOK
<1>5. ASSUME NEW w \in Workers, NEW l \in Syncing, Goto(w, l), job' = job
      PROVE  HasJob'
  BY <1>5 DEF Goto, HasJob, TypeOK, Reconciling, Sending, Syncing
<1>6. ASSUME NEW w \in Workers, Step(w) \/ SyncStart(w) \/ Crash(w) PROVE HasJob'
  <2>1. \/ Done(w)
        \/ \E l \in Syncing : Goto(w, l) /\ job' = job
        \/ /\ pc[w] \in {"finalize"} \cup Reconciling \cup Sending
           /\ \E l \in PCs : Goto(w, l) /\ job' = job
    BY <1>6 DEF Step, Simulate, Send, Wait, Confirm, Lookup, CheckHeight,
         FinalLookup, Resend, WriteOff, FinalizeLate, FinalizeReverted,
         FinalizeUnclassified, FinalizeReceipt, SyncChain, SyncApply, Continue,
         Abandon, SyncStart, Crash, Reconciling, Sending, Syncing, PCs
  <2> QED  BY <2>1, <1>2, <1>3, <1>5
<1>7. \/ UNCHANGED <<pc, job>>
      \/ \E w \in Workers, f \in Flows : Submit(w, f) \/ Status(w, f)
      \/ \E w \in Workers : Step(w) \/ SyncStart(w) \/ Crash(w)
  BY DEF Next, vars, Prepare, RefusePrepare, Expire, RequestApproval,
         DecideApproval, Land, Revert, Block, Lapse, LapseApproval,
         ExternalMove, Register, Accrue
<1> QED  BY <1>1, <1>4, <1>6, <1>7

\* What the chain and a terminal status say about each other stays true.
LEMMA StatusSaysStep ==
    TypeOK /\ HasJob /\ HandlerKnows /\ StatusSays /\ [Next]_vars => StatusSays'
<1> SUFFICES ASSUME TypeOK, HasJob, HandlerKnows, StatusSays, [Next]_vars,
                    NEW f \in Flows
             PROVE  /\ visible'[f] => OnChain(f)'
                    /\ window'[f] = "expired" /\ OnChain(f)' => visible'[f]
                    /\ intent'[f].status = "failed_not_submitted" =>
                         window'[f] = "expired" /\ ~OnChain(f)'
                    /\ intent'[f].status \in {"confirmed", "failed"} => OnChain(f)'
  BY DEF StatusSays
<1>1. TxAdvance(f) /\ IntentAdvance(f)
  BY TxStep, IntentStep
<1>2. /\ OnChain(f) => OnChain(f)'
      /\ window[f] = "expired" => window'[f] = "expired"
      /\ window[f] = "expired" /\ ~OnChain(f) => ~OnChain(f)'
  BY <1>1 DEF TxAdvance, OnChain
<1>3. visible'[f] => OnChain(f)'
  BY <1>1, <1>2 DEF TxAdvance, StatusSays
<1>4. window'[f] = "expired" /\ OnChain(f)' => visible'[f]
  BY <1>1 DEF TxAdvance, StatusSays, OnChain
<1>5. intent'[f].status = "failed_not_submitted" =>
        window'[f] = "expired" /\ ~OnChain(f)'
  BY <1>1, <1>2 DEF IntentAdvance, StatusSays
<1>6. intent'[f].status \in {"confirmed", "failed"} => OnChain(f)'
  BY <1>1, <1>2 DEF IntentAdvance, StatusSays, OnChain
<1> QED  BY <1>3, <1>4, <1>5, <1>6

\* What a handler has learnt about its transaction at an await stays true
\* while the chain and the other handlers move on.
LEMMA HandlerKnowsStep ==
    TypeOK /\ HasJob /\ HandlerKnows /\ StatusSays /\ [Next]_vars => HandlerKnows'
<1> SUFFICES ASSUME TypeOK, HasJob, HandlerKnows, StatusSays, [Next]_vars
             PROVE  HandlerKnows'
  OBVIOUS
<1> USE DEF ledgerVars, chainVars, txVars, handlerVars
<1>1. \A f \in Flows :
        /\ visible[f] => visible'[f]
        /\ window[f] = "expired" => window'[f] = "expired"
        /\ window[f] = "expired" /\ ~OnChain(f) => ~OnChain(f)'
  BY TxStep DEF TxAdvance, OnChain
<1> DEFINE Learnt(w, l) ==
             /\ l = "finalize" => visible[job[w]]
             /\ l = "final_lookup" => window[job[w]] = "expired"
             /\ l = "write_off" => window[job[w]] = "expired" /\ ~OnChain(job[w])
           Kept(w) == pc'[w] = pc[w] /\ job'[w] = job[w]
           Moved(w) == /\ job'[w] = job[w] /\ job[w] \in Flows
                       /\ Learnt(w, pc'[w])
           Other(w) == pc'[w] \notin {"finalize", "final_lookup", "write_off"}
<1>2. \A w \in Workers : Kept(w) \/ Moved(w) \/ Other(w)
  <2>1. ASSUME UNCHANGED <<pc, job>>
        PROVE  \A w \in Workers : Kept(w)
    BY <2>1
  <2>2. ASSUME NEW w \in Workers, Done(w)
        PROVE  \A v \in Workers : Kept(v) \/ Other(v)
    BY <2>2 DEF Done, TypeOK
  <2>3. ASSUME NEW w \in Workers, NEW l \in PCs, Goto(w, l), job' = job,
               \/ l \notin {"finalize", "final_lookup", "write_off"}
               \/ job[w] \in Flows /\ Learnt(w, l)
        PROVE  \A v \in Workers : Kept(v) \/ Moved(v) \/ Other(v)
    <3>1. pc'[w] = l
      BY <2>3 DEF Goto, TypeOK
    <3>2. \A v \in Workers \ {w} : Kept(v)
      BY <2>3 DEF Goto, TypeOK
    <3> QED  BY <2>3, <3>1, <3>2
  <2>4. ASSUME NEW w \in Workers, NEW f \in Flows, Submit(w, f) \/ Status(w, f)
        PROVE  \A v \in Workers : Kept(v) \/ Other(v)
    BY <2>4 DEF Submit, Status, Goto, TypeOK
  <2>5. ASSUME NEW w \in Workers, Lookup(w) \/ FinalLookup(w) \/ Confirm(w)
                                  \/ CheckHeight(w)
        PROVE  \A v \in Workers : Kept(v) \/ Moved(v) \/ Other(v)
    <3>1. job[w] \in Flows
      BY <2>5 DEF Lookup, FinalLookup, Confirm, CheckHeight, HasJob,
                  Reconciling, Sending
    <3>2. CASE Done(w)
      BY <3>2, <2>2
    <3>3. CASE ~Done(w)
      <4>1. PICK l \in PCs : Goto(w, l) /\ job' = job /\ Learnt(w, l)
        BY <2>5, <3>1, <3>3
        DEF Lookup, FinalLookup, Confirm, CheckHeight, Continue, Abandon, Found,
            HeightPastMargin, HandlerKnows, StatusSays, PCs, Reconciling, Sending
      <4> QED  BY <3>1, <4>1, <2>3
    <3> QED  BY <3>2, <3>3
  <2>6. ASSUME NEW w \in Workers, Step(w) \/ SyncStart(w) \/ Crash(w),
               ~(Lookup(w) \/ FinalLookup(w) \/ Confirm(w) \/ CheckHeight(w))
        PROVE  \A v \in Workers : Kept(v) \/ Moved(v) \/ Other(v)
    <3>1. \/ Done(w)
          \/ \E l \in PCs \ {"finalize", "final_lookup", "write_off"} :
                Goto(w, l) /\ job' = job
      BY <2>6 DEF Step, Simulate, Send, Wait, Resend, WriteOff, FinalizeLate,
           FinalizeReverted, FinalizeUnclassified, FinalizeReceipt, SyncChain,
           SyncApply, Continue, Abandon, SyncStart, Crash, PCs, Reconciling,
           Sending, Syncing
    <3> QED  BY <3>1, <2>2, <2>3
  <2>7. \/ UNCHANGED <<pc, job>>
        \/ \E w \in Workers, f \in Flows : Submit(w, f) \/ Status(w, f)
        \/ \E w \in Workers : Step(w) \/ SyncStart(w) \/ Crash(w)
    BY DEF Next, vars, Prepare, RefusePrepare, Expire, RequestApproval,
           DecideApproval, Land, Revert, Block, Lapse, LapseApproval,
           ExternalMove, Register, Accrue
  <2> QED  BY <2>1, <2>4, <2>5, <2>6, <2>7
<1>3. ASSUME NEW w \in Workers
      PROVE  /\ pc'[w] = "finalize" => visible'[job'[w]]
             /\ pc'[w] = "final_lookup" => window'[job'[w]] = "expired"
             /\ pc'[w] = "write_off" =>
                  window'[job'[w]] = "expired" /\ ~OnChain(job[w])'
  <2>1. CASE Other(w)
    BY <2>1
  <2>2. CASE Moved(w)
    BY <2>2, <1>1 DEF OnChain
  <2>3. CASE Kept(w)
    <3>1. pc[w] \in {"finalize", "final_lookup", "write_off"} => job[w] \in Flows
      BY DEF HasJob, Reconciling
    <3> QED  BY <2>3, <3>1, <1>1 DEF HandlerKnows, OnChain
  <2> QED  BY <1>2, <2>1, <2>2, <2>3
<1> QED  BY <1>3 DEF HandlerKnows, OnChain

\* Prepare is the only step that makes an intent pending.
LEMMA PendingBefore ==
    ASSUME TypeOK, HasJob, [Next]_vars, ~\E f \in Flows : Prepare(f),
           NEW g \in Flows, Pending(intent'[g])
    PROVE  Pending(intent[g])
<1> USE DEF ledgerVars, chainVars, txVars, handlerVars
<1>0. intent \in [Flows -> Intent]
  BY DEF TypeOK
<1>1. CASE intent'[g] = intent[g]
  BY <1>1
<1>2. CASE intent' = ExpireStale(intent)
  BY <1>0, <1>2, ExpireStaleType
<1>3. CASE \E w \in Workers : Submit(w, g)
  BY <1>3 DEF Submit, Pending
<1>4. CASE Lapse(g)
  BY <1>4 DEF Lapse, Pending
<1>5. CASE intent'[g].status \in Terminal
  BY <1>5 DEF Pending, Terminal
<1>6. \/ intent'[g] = intent[g] \/ intent' = ExpireStale(intent)
      \/ \E w \in Workers : Submit(w, g)
      \/ Lapse(g) \/ intent'[g].status \in Terminal
  <2>1. ASSUME NEW h \in Flows, NEW s \in Terminal,
               intent' = [intent EXCEPT ![h].status = s]
        PROVE  intent'[g] = intent[g] \/ intent'[g].status \in Terminal
    BY <1>0, <2>1 DEF Intent
  <2>2. ASSUME NEW w \in Workers, Step(w)
        PROVE  intent'[g] = intent[g] \/ intent'[g].status \in Terminal
    <3>1. \/ intent' = intent
          \/ \E h \in Flows, s \in Terminal :
               intent' = [intent EXCEPT ![h].status = s]
      BY <2>2 DEF Step, Simulate, Send, Wait, Confirm, Lookup, CheckHeight,
           FinalLookup, Resend, WriteOff, FinalizeLate, FinalizeReverted,
           FinalizeUnclassified, FinalizeReceipt, SyncChain, SyncApply,
           Continue, Abandon, HasJob, Terminal, Reconciling
    <3> QED  BY <3>1, <2>1
  <2>3. ASSUME NEW h \in Flows, Expire(h)
        PROVE  intent'[g] = intent[g] \/ intent'[g].status \in Terminal
    BY <2>3, <2>1 DEF Expire, Terminal
  <2>4. ASSUME NEW h \in Flows, NEW w \in Workers, Submit(w, h), h # g
        PROVE  intent'[g] = intent[g]
    BY <1>0, <2>4 DEF Submit
  <2>5. ASSUME NEW h \in Flows, Lapse(h), h # g
        PROVE  intent'[g] = intent[g]
    BY <1>0, <2>5 DEF Lapse
  <2>6. \/ intent' = intent \/ intent' = ExpireStale(intent)
        \/ \E h \in Flows : Expire(h) \/ Lapse(h)
        \/ \E w \in Workers : Step(w) \/ \E h \in Flows : Submit(w, h)
    BY DEF Next, vars, RefusePrepare, RequestApproval, DecideApproval,
         Status, SyncStart, Crash, Land, Revert, Block, LapseApproval,
         ExternalMove, Register, Accrue
  <2> QED  BY <2>2, <2>3, <2>4, <2>5, <2>6
<1> QED  BY <1>1, <1>2, <1>3, <1>4, <1>5, <1>6

\* At most one intent stays pending: prepare is the only step that makes one
\* pending, and it finds none.
LEMMA PendingStep ==
    TypeOK /\ HasJob /\ HandlerKnows /\ PendingUnique /\ [Next]_vars
      => PendingUnique'
<1> SUFFICES ASSUME TypeOK, HasJob, HandlerKnows, PendingUnique, [Next]_vars
             PROVE  PendingUnique'
  OBVIOUS
<1> USE DEF ledgerVars, chainVars, txVars, handlerVars
<1>0. intent \in [Flows -> Intent]
  BY DEF TypeOK
<1>1. ASSUME NEW f \in Flows, Prepare(f) PROVE PendingUnique'
  <2>1. \A g \in Flows : ~Pending(intent[g])
    BY <1>1 DEF Prepare, MayPrepare, PendingFlows
  <2>2. \A g \in Flows \ {f} : ~Pending(intent'[g])
    <3>1. PICK i : intent' = [ExpireStale(intent) EXCEPT ![f] = i]
      BY <1>1 DEF Prepare
    <3>2. \A g \in Flows \ {f} : intent'[g] = ExpireStale(intent)[g]
      BY <1>0, <3>1, ExpireStaleType
    <3> QED  BY <1>0, <2>1, <3>2, ExpireStaleType
  <2> QED  BY <2>2 DEF PendingUnique, Pending
<1>2. CASE \E f \in Flows : Prepare(f)
  BY <1>2, <1>1
<1>3. CASE ~\E f \in Flows : Prepare(f)
  <2>1. ASSUME NEW g \in Flows, Pending(intent'[g]) PROVE Pending(intent[g])
    BY <1>3, <2>1, PendingBefore
  <2> QED  BY <2>1 DEF PendingUnique, Pending
<1> QED  BY <1>2, <1>3

\* A transaction is booked at most once, and only if it executed.
LEMMA BookedStep ==
    TypeOK /\ HasJob /\ HandlerKnows /\ BookedOnce /\ [Next]_vars => BookedOnce'
<1> SUFFICES ASSUME TypeOK, HasJob, HandlerKnows, BookedOnce, [Next]_vars,
                    NEW f \in Flows
             PROVE  /\ receipts'[f] =
                         (IF intent'[f].status = "confirmed" THEN 1 ELSE 0)
                    /\ receipts'[f] > 0 => tx'[f] = "landed"
  BY DEF BookedOnce
<1>1. TxAdvance(f) /\ IntentAdvance(f)
  BY TxStep, IntentStep
<1>2. tx[f] = "landed" => tx'[f] = "landed"
  BY <1>1 DEF TxAdvance
<1>3. /\ receipts[f] = (IF intent[f].status = "confirmed" THEN 1 ELSE 0)
      /\ receipts[f] > 0 => tx[f] = "landed"
  BY DEF BookedOnce
<1> QED  BY <1>1, <1>2, <1>3 DEF IntentAdvance

\* The invariant is inductive.
LEMMA ControlStep ==
    TypeOK /\ ControlInv /\ [Next]_vars => ControlInv'
  BY HasJobStep, HandlerKnowsStep, StatusSaysStep, PendingStep, BookedStep
  DEF ControlInv

-----------------------------------------------------------------------------
(* Theorems.                                                                *)

\* The invariant holds in every reachable state.
THEOREM Invariance == Spec => [](TypeOK /\ ControlInv)
<1>1. Init => TypeOK /\ ControlInv
  BY TypeInit, ControlInit
<1>2. TypeOK /\ ControlInv /\ [Next]_vars => (TypeOK /\ ControlInv)'
  BY TypeStep, ControlStep DEF ControlInv
<1> QED  BY <1>1, <1>2, PTL DEF Spec

\* Every variable keeps its type: no basis, share count or fee debt ever goes
\* negative, whatever the flows, syncs and external movements do.
THEOREM TypeCorrect == Spec => []TypeOK
  BY Invariance, PTL

\* A transaction that is on chain, or ever will be, is never written off as
\* failed_not_submitted by reconcileFlow.
THEOREM NeverWrittenOff == Spec => []LandedNeverWrittenOff
<1>1. ControlInv => LandedNeverWrittenOff
  BY DEF ControlInv, StatusSays, LandedNeverWrittenOff
<1> QED  BY <1>1, Invariance, PTL

\* However many handlers see a transaction confirmed, the finalizations book
\* it exactly once, and only if it executed.
THEOREM BookedExactlyOnce == Spec => []BookedOnce
<1>1. ControlInv => BookedOnce
  BY DEF ControlInv
<1> QED  BY <1>1, Invariance, PTL

\* At most one intent of the position is pending.
THEOREM AtMostOneInFlight == Spec => []OneInFlight
<1>1. ControlInv => OneInFlight
  <2> SUFFICES ASSUME ControlInv PROVE OneInFlight
    OBVIOUS
  <2>1. CASE PendingFlows = {}
    BY <2>1, FS_EmptySet DEF OneInFlight
  <2>2. CASE PendingFlows # {}
    <3>1. PICK f \in Flows : f \in PendingFlows
      BY <2>2 DEF PendingFlows
    <3>2. PendingFlows = {f}
      BY <3>1 DEF ControlInv, PendingUnique, PendingFlows
    <3> QED  BY <3>2, FS_Singleton DEF OneInFlight
  <2> QED  BY <2>1, <2>2
<1> QED  BY <1>1, Invariance, PTL

\* No handler, however late, changes an intent that is terminal.
THEOREM TerminalStaysFinal == Spec => TerminalIsFinal
<1>1. TypeOK /\ ControlInv /\ [Next]_vars
        => [\A f \in Flows : intent[f].status \in Terminal
                              => intent'[f] = intent[f]]_vars
  BY IntentStep DEF IntentAdvance, ControlInv, Terminal
<1> QED  BY <1>1, Invariance, PTL DEF Spec, TerminalIsFinal
-----------------------------------------------------------------------------
(***************************************************************************)
(* VaultFlow implements FlowContract, for any number of intents, handlers  *)
(* and approvals.  The control invariant is not enough: that a transaction *)
(* is executed only after its intent was submitted needs to know that      *)
(* nobody holds or has sent its bytes before.                              *)
(***************************************************************************)

\* Statuses of an intent that has been submitted at some time.
WasSubmitted == {"submitted", "confirmed", "failed", "failed_not_submitted"}

\* Await points of a handler that works on an intent.
Working == {"finalize"} \cup Reconciling \cup Sending

SentOnlySubmitted ==
    /\ \A f \in Flows : tx[f] # "unsent" => intent[f].status \in WasSubmitted
    /\ \A w \in Workers : pc[w] \in Working => intent[job[w]].status \in WasSubmitted

\* It is kept by every step.
LEMMA SentStep ==
    TypeOK /\ ControlInv /\ SentOnlySubmitted /\ [Next]_vars => SentOnlySubmitted'
<1> SUFFICES ASSUME TypeOK, ControlInv, SentOnlySubmitted, [Next]_vars
             PROVE  SentOnlySubmitted'
  OBVIOUS
<1> USE DEF ledgerVars, chainVars, txVars, handlerVars
<1>1. /\ HasJob /\ pc \in [Workers -> PCs] /\ job \in [Workers -> Flows \cup {NoFlow}]
      /\ tx \in [Flows -> TxStates] /\ intent \in [Flows -> Intent]
  BY DEF ControlInv, TypeOK, TxTypeOK, Flows
<1>2. ASSUME NEW f \in Flows, intent[f].status \in WasSubmitted
      PROVE  intent'[f].status \in WasSubmitted
  <2>1. IntentAdvance(f)
    BY IntentStep DEF ControlInv
  <2> QED  BY <1>2, <2>1 DEF IntentAdvance, WasSubmitted
<1>3. ASSUME NEW w \in Workers, pc[w] \in Working
      PROVE  job[w] \in Flows /\ intent'[job[w]].status \in WasSubmitted
  BY <1>1, <1>2, <1>3 DEF HasJob, Working, SentOnlySubmitted
<1>4. ASSUME NEW f \in Flows, tx'[f] # "unsent"
      PROVE  intent'[f].status \in WasSubmitted
  <2>1. CASE tx[f] # "unsent"
    BY <1>2, <2>1 DEF SentOnlySubmitted
  <2>2. CASE tx[f] = "unsent"
    <3>1. ASSUME NEW w \in Workers, Send(w) \/ Resend(w)
          PROVE  intent'[f].status \in WasSubmitted
      <4>1. pc[w] \in Working
        BY <3>1 DEF Send, Resend, Working, Sending, Reconciling
      <4>2. job[w] = f
        BY <1>1, <1>4, <2>2, <3>1 DEF Send, Resend, Broadcast
      <4> QED  BY <1>3, <4>1, <4>2
    <3>2. ASSUME NEW g \in Flows, Land(g) \/ Revert(g) PROVE FALSE
      BY <1>1, <1>4, <2>2, <3>2 DEF Land, Revert, Include
    <3>3. \/ tx' = tx
          \/ \E w \in Workers : Send(w) \/ Resend(w)
          \/ \E g \in Flows : Land(g) \/ Revert(g)
      <4>1. ASSUME NEW w \in Workers, Step(w), ~(Send(w) \/ Resend(w))
            PROVE  tx' = tx
        BY <4>1 DEF Step, Simulate, Wait, Confirm, Lookup, CheckHeight,
             FinalLookup, WriteOff, FinalizeLate, FinalizeReverted,
             FinalizeUnclassified, FinalizeReceipt, SyncChain, SyncApply,
             Continue, Abandon
      <4> QED
        BY <4>1 DEF Next, vars, Prepare, RefusePrepare, Expire, RequestApproval,
             DecideApproval, Submit, Status, SyncStart, Crash, Lapse,
             LapseApproval, ExternalMove, Register, Accrue, Block, Index,
             CloseWindow, PassMargin
    <3> QED  BY <1>4, <2>2, <3>1, <3>2, <3>3
  <2> QED  BY <2>1, <2>2
<1>5. ASSUME NEW v \in Workers, pc'[v] \in Working
      PROVE  intent'[job'[v]].status \in WasSubmitted
  <2>1. CASE pc[v] \in Working /\ job'[v] = job[v]
    BY <1>3, <2>1
  <2>2. CASE \E f \in Flows : Submit(v, f) \/ Status(v, f)
    <3>1. PICK f \in Flows : Submit(v, f) \/ Status(v, f)
      BY <2>2
    <3>2. job'[v] = f
      BY <1>1, <3>1 DEF Submit, Status
    <3>3. intent'[f].status = "submitted"
      BY <1>1, <3>1 DEF Submit, Status, Intent
    <3> QED  BY <3>2, <3>3 DEF WasSubmitted
  <2>3. \/ pc[v] \in Working /\ job'[v] = job[v]
        \/ \E f \in Flows : Submit(v, f) \/ Status(v, f)
    <3>1. ASSUME NEW w \in Workers, Done(w)
          PROVE  pc[v] \in Working /\ job'[v] = job[v]
      BY <1>1, <1>5, <3>1 DEF Done, Working, Reconciling, Sending
    <3>2. ASSUME NEW w \in Workers, NEW l \in PCs, Goto(w, l), job' = job,
                 pc[w] \in Working \/ l \in Syncing
          PROVE  pc[v] \in Working /\ job'[v] = job[v]
      BY <1>1, <1>5, <3>2 DEF Goto, Working, Reconciling, Sending, Syncing
    <3>3. ASSUME NEW w \in Workers, Step(w) \/ SyncStart(w) \/ Crash(w)
          PROVE  pc[v] \in Working /\ job'[v] = job[v]
      <4>1. \/ Done(w)
            \/ \E l \in PCs : /\ Goto(w, l) /\ job' = job
                              /\ pc[w] \in Working \/ l \in Syncing
        BY <3>3 DEF Step, Simulate, Send, Wait, Confirm, Lookup, CheckHeight,
             FinalLookup, Resend, WriteOff, FinalizeLate, FinalizeReverted,
             FinalizeUnclassified, FinalizeReceipt, SyncChain, SyncApply,
             Continue, Abandon, SyncStart, Crash, Working, Reconciling, Sending,
             Syncing, PCs
      <4> QED  BY <3>1, <3>2, <4>1
    <3>4. ASSUME NEW w \in Workers, NEW f \in Flows, Submit(w, f) \/ Status(w, f), w # v
          PROVE  pc[v] \in Working /\ job'[v] = job[v]
      BY <1>1, <1>5, <3>4 DEF Submit, Status, Goto
    <3>5. \/ UNCHANGED <<pc, job>>
          \/ \E w \in Workers, f \in Flows : Submit(w, f) \/ Status(w, f)
          \/ \E w \in Workers : Step(w) \/ SyncStart(w) \/ Crash(w)
      BY DEF Next, vars, Prepare, RefusePrepare, Expire, RequestApproval,
             DecideApproval, Land, Revert, Block, Lapse, LapseApproval,
             ExternalMove, Register, Accrue
    <3> QED  BY <1>5, <3>3, <3>4, <3>5
  <2> QED  BY <2>1, <2>2, <2>3
<1> QED  BY <1>4, <1>5 DEF SentOnlySubmitted
-----------------------------------------------------------------------------
(* The refinement mapping.                                                  *)

\* What the caller sees of an intent, and what the chain did with it.
Shown(f) == ReportedStatus(intent[f])
Effect(f) == ExecutedEffect(tx[f])

ContractStep == [Contract!ContractNext]_(Contract!contractVars)

\* Nothing the contract speaks of changes.
LEMMA Stutters ==
    ASSUME \A f \in Flows : Shown(f)' = Shown(f) /\ Effect(f)' = Effect(f)
    PROVE  ContractStep
  BY DEF ContractStep, Contract!contractVars, Shown, Effect, Flows

\* The status of one intent changes: it is prepared, expires, is submitted or
\* is resolved truthfully.
LEMMA StatusMoves ==
    ASSUME NEW f \in Flows, NEW s, Shown(f)' = s,
           \A g \in Flows \ {f} : Shown(g)' = Shown(g),
           \A g \in Flows : Effect(g)' = Effect(g),
           \/ /\ Shown(f) = "absent" /\ s = "prepared"
              /\ \A g \in Flows : Shown(g) \notin {"prepared", "submitted"}
           \/ Shown(f) = "prepared" /\ s \in {"expired", "submitted"}
           \/ /\ Shown(f) = "submitted" /\ s \in Terminal
              /\ Contract!Truthful(s, Effect(f))
    PROVE  ContractStep
<1>1. Contract!SetFlow(f, s)
  BY DEF Contract!SetFlow, Shown, Flows
<1>2. UNCHANGED [g \in Flows |-> ExecutedEffect(tx[g])]
  BY DEF Effect, Flows
<1>3. CASE Shown(f) = "absent" /\ s = "prepared"
  BY <1>1, <1>2, <1>3
  DEF ContractStep, Contract!ContractNext, Contract!PrepareFlow,
      Contract!OpenFlows, Shown
<1>4. CASE Shown(f) = "prepared" /\ s \in {"expired", "submitted"}
  BY <1>1, <1>2, <1>4
  DEF ContractStep, Contract!ContractNext, Contract!ExpireFlow,
      Contract!SubmitFlow, Shown
<1>5. CASE /\ Shown(f) = "submitted" /\ s \in Terminal
           /\ Contract!Truthful(s, Effect(f))
  <2>1. Contract!ResolveFlow(f, s)
    BY <1>1, <1>2, <1>5 DEF Contract!ResolveFlow, Shown, Effect
  <2>2. s \in Contract!FinalStatus
    BY <1>5 DEF Contract!FinalStatus, Terminal
  <2> QED  BY <2>1, <2>2 DEF ContractStep, Contract!ContractNext
<1> QED  BY <1>3, <1>4, <1>5

\* The transaction of a submitted intent is executed.
LEMMA EffectHappens ==
    ASSUME NEW f \in Flows, NEW e \in {"moved", "reverted"},
           Shown(f) = "submitted", Effect(f) = "none", Effect(f)' = e,
           \A g \in Flows \ {f} : Effect(g)' = Effect(g),
           \A g \in Flows : Shown(g)' = Shown(g)
    PROVE  ContractStep
<1>1. Contract!ExecuteFlow(f, e)
  BY DEF Contract!ExecuteFlow, Shown, Effect, Flows
<1>2. e \in Contract!Effects \ {"none"}
  BY DEF Contract!Effects
<1> QED  BY <1>1, <1>2 DEF ContractStep, Contract!ContractNext
-----------------------------------------------------------------------------
(* Every step of VaultFlow is a step of the contract, or none.              *)

\* Expiring stale intents shows nothing new.
LEMMA ExpireStaleShows ==
    ASSUME intent \in [Flows -> Intent], NEW f \in Flows
    PROVE  ReportedStatus(ExpireStale(intent)[f]) = Shown(f)
  BY DEF ExpireStale, ReportedStatus, Shown, Intent, FlowStatus, Terminal

\* A status is written into one row.
LEMMA RowWritten ==
    ASSUME intent \in [Flows -> Intent], NEW f \in Flows, NEW s \in FlowStatus,
           s # "prepared", intent' = [intent EXCEPT ![f].status = s]
    PROVE  Shown(f)' = s /\ \A g \in Flows \ {f} : Shown(g)' = Shown(g)
<1>1. intent'[f].status = s /\ \A g \in Flows \ {f} : intent'[g] = intent[g]
  BY DEF Intent
<1> QED  BY <1>1 DEF Shown, ReportedStatus

\* Every step is a step of the contract, or none.
LEMMA RefinementStep ==
    TypeOK /\ ControlInv /\ SentOnlySubmitted /\ [Next]_vars => ContractStep
<1> SUFFICES ASSUME TypeOK, ControlInv, SentOnlySubmitted, [Next]_vars
             PROVE  ContractStep
  OBVIOUS
<1> USE DEF ledgerVars, chainVars, txVars, handlerVars
<1>0. /\ intent \in [Flows -> Intent] /\ tx \in [Flows -> TxStates]
      /\ HasJob /\ HandlerKnows /\ StatusSays
  BY DEF TypeOK, TxTypeOK, ControlInv, Flows
<1>1. ASSUME tx' = tx PROVE \A f \in Flows : Effect(f)' = Effect(f)
  BY <1>1 DEF Effect
<1>2. ASSUME NEW f \in Flows PROVE Shown(f)' = ReportedStatus(intent'[f])
  BY DEF Shown
<1>3. CASE UNCHANGED <<intent, tx>>
  BY <1>1, <1>2, <1>3, Stutters DEF Shown
<1>4. CASE intent' = ExpireStale(intent) /\ tx' = tx
  BY <1>0, <1>1, <1>2, <1>4, ExpireStaleShows, Stutters
<1>5. ASSUME NEW f \in Flows, Prepare(f) PROVE ContractStep
  <2>1. PICK i : /\ i.status = "prepared" /\ ~i.lapsed
                 /\ intent' = [ExpireStale(intent) EXCEPT ![f] = i]
    BY <1>5 DEF Prepare
  <2>2. ExpireStale(intent) \in [Flows -> Intent]
    BY <1>0, ExpireStaleType
  <2>3. intent'[f] = i /\ \A g \in Flows \ {f} : intent'[g] = ExpireStale(intent)[g]
    BY <2>1, <2>2
  <2>4. /\ Shown(f)' = "prepared"
        /\ \A g \in Flows \ {f} : Shown(g)' = Shown(g)
    BY <1>0, <1>2, <2>1, <2>3, ExpireStaleShows DEF ReportedStatus
  <2>5. /\ intent[f].status = "absent"
        /\ \A g \in Flows : ~Pending(intent[g])
        /\ tx' = tx
    BY <1>5 DEF Prepare, MayPrepare, PendingFlows
  <2>6. /\ Shown(f) = "absent"
        /\ \A g \in Flows : Shown(g) \notin {"prepared", "submitted"}
    BY <2>5 DEF Shown, ReportedStatus, Pending
  <2> QED  BY <1>1, <2>4, <2>5, <2>6, StatusMoves
<1>6. ASSUME NEW f \in Flows, Expire(f) PROVE ContractStep
  <2>1. /\ intent' = [intent EXCEPT ![f].status = "expired"] /\ tx' = tx
        /\ Shown(f) = "expired"
    BY <1>6 DEF Expire, Shown, ReportedStatus
  <2>2. Shown(f)' = "expired" /\ \A g \in Flows \ {f} : Shown(g)' = Shown(g)
    BY <1>0, <2>1, RowWritten DEF FlowStatus, Terminal
  <2> QED  BY <1>1, <2>1, <2>2, Stutters
<1>7. ASSUME NEW f \in Flows, Lapse(f) PROVE ContractStep
  <2>1. /\ intent' = [intent EXCEPT ![f].lapsed = TRUE] /\ tx' = tx
        /\ intent[f].status = "prepared" /\ ~intent[f].lapsed
    BY <1>7 DEF Lapse
  <2>2. /\ intent'[f].status = "prepared" /\ intent'[f].lapsed
        /\ \A g \in Flows \ {f} : intent'[g] = intent[g]
    BY <1>0, <2>1 DEF Intent
  <2>3. /\ Shown(f) = "prepared" /\ Shown(f)' = "expired"
        /\ \A g \in Flows \ {f} : Shown(g)' = Shown(g)
    BY <2>1, <2>2 DEF Shown, ReportedStatus
  <2> QED  BY <1>1, <2>1, <2>3, StatusMoves
<1>8. ASSUME NEW w \in Workers, NEW f \in Flows, Submit(w, f) PROVE ContractStep
  <2>1. /\ intent' = [intent EXCEPT ![f].status = "submitted"] /\ tx' = tx
        /\ Shown(f) = "prepared"
    BY <1>8 DEF Submit, Shown, ReportedStatus
  <2>2. Shown(f)' = "submitted" /\ \A g \in Flows \ {f} : Shown(g)' = Shown(g)
    BY <1>0, <2>1, RowWritten DEF FlowStatus
  <2> QED  BY <1>1, <2>1, <2>2, StatusMoves
<1>9. ASSUME NEW f \in Flows, NEW s \in Terminal, intent[f].status = "submitted",
             intent' = [intent EXCEPT ![f].status = s], tx' = tx,
             Contract!Truthful(s, Effect(f))
      PROVE  ContractStep
  <2>1. Shown(f) = "submitted" /\ s \in FlowStatus /\ s # "prepared"
    BY <1>9 DEF Shown, ReportedStatus, FlowStatus, Terminal
  <2>2. Shown(f)' = s /\ \A g \in Flows \ {f} : Shown(g)' = Shown(g)
    BY <1>0, <1>9, <2>1, RowWritten
  <2> QED  BY <1>1, <1>9, <2>1, <2>2, StatusMoves
<1>10. ASSUME NEW w \in Workers, Send(w) \/ Resend(w) PROVE ContractStep
  <2>1. \A f \in Flows : ExecutedEffect(tx'[f]) = ExecutedEffect(tx[f])
    BY <1>0, <1>10 DEF Send, Resend, Broadcast, ExecutedEffect
  <2>2. intent' = intent
    BY <1>10 DEF Send, Resend
  <2> QED  BY <2>1, <2>2, Stutters DEF Shown, Effect
<1>11. ASSUME NEW w \in Workers, WriteOff(w) PROVE ContractStep
  <2>1. job[w] \in Flows /\ ~OnChain(job[w]) /\ tx' = tx
    BY <1>0, <1>11 DEF WriteOff, HasJob, HandlerKnows, Reconciling
  <2>2. Contract!Truthful("failed_not_submitted", Effect(job[w]))
    BY <2>1 DEF Contract!Truthful, Effect, ExecutedEffect, OnChain
  <2> QED  BY <1>3, <1>9, <1>11, <2>1, <2>2 DEF WriteOff, StillSubmitted, Terminal
<1>12. ASSUME NEW w \in Workers,
              FinalizeReverted(w) \/ FinalizeUnclassified(w) \/ FinalizeReceipt(w)
       PROVE  ContractStep
  <2>1. job[w] \in Flows /\ tx' = tx /\ intent[job[w]].status = "submitted"
    BY <1>0, <1>12 DEF FinalizeReverted, FinalizeUnclassified, FinalizeReceipt,
                       HasJob, StillSubmitted
  <2>2. \/ /\ intent' = [intent EXCEPT ![job[w]].status = "failed"]
           /\ tx[job[w]] \in {"landed", "reverted"}
        \/ /\ intent' = [intent EXCEPT ![job[w]].status = "confirmed"]
           /\ tx[job[w]] = "landed"
    BY <1>12 DEF FinalizeReverted, FinalizeUnclassified, FinalizeReceipt
  <2>3. /\ tx[job[w]] \in {"landed", "reverted"} =>
             Contract!Truthful("failed", Effect(job[w]))
        /\ tx[job[w]] = "landed" => Contract!Truthful("confirmed", Effect(job[w]))
    BY DEF Contract!Truthful, Effect, ExecutedEffect
  <2> QED  BY <1>9, <2>1, <2>2, <2>3 DEF Terminal
<1>13. ASSUME NEW f \in Flows, Land(f) \/ Revert(f) PROVE ContractStep
  <2>1. PICK r \in {"landed", "reverted"} :
          /\ tx[f] = "wire" /\ window[f] = "open" /\ intent' = intent
          /\ tx' = [tx EXCEPT ![f] = r]
    BY <1>13 DEF Land, Revert, Include
  <2>2. intent[f].status = "submitted"
    BY <1>0, <2>1 DEF SentOnlySubmitted, WasSubmitted, StatusSays, OnChain
  <2>3. /\ tx'[f] = r /\ \A g \in Flows \ {f} : tx'[g] = tx[g]
    BY <1>0, <2>1
  <2>4. /\ Effect(f) = "none" /\ Effect(f)' \in {"moved", "reverted"}
        /\ \A g \in Flows \ {f} : Effect(g)' = Effect(g)
    BY <2>1, <2>3 DEF Effect, ExecutedEffect
  <2>5. Shown(f) = "submitted" /\ \A g \in Flows : Shown(g)' = Shown(g)
    BY <2>1, <2>2 DEF Shown, ReportedStatus
  <2> QED  BY <2>4, <2>5, EffectHappens
<1>14. \/ UNCHANGED <<intent, tx>>
       \/ intent' = ExpireStale(intent) /\ tx' = tx
       \/ \E f \in Flows : \/ Prepare(f) \/ Expire(f) \/ Lapse(f)
                           \/ Land(f) \/ Revert(f)
       \/ \E w \in Workers, f \in Flows : Submit(w, f)
       \/ \E w \in Workers : \/ Send(w) \/ Resend(w) \/ WriteOff(w)
                             \/ FinalizeReverted(w) \/ FinalizeUnclassified(w)
                             \/ FinalizeReceipt(w)
  <2>1. ASSUME NEW w \in Workers, Step(w),
               ~(Send(w) \/ Resend(w) \/ WriteOff(w) \/ FinalizeReverted(w)
                 \/ FinalizeUnclassified(w) \/ FinalizeReceipt(w))
        PROVE  UNCHANGED <<intent, tx>>
    BY <2>1 DEF Step, Simulate, Wait, Confirm, Lookup, CheckHeight, FinalLookup,
         FinalizeLate, SyncChain, SyncApply, Continue, Abandon
  <2> QED
    BY <2>1 DEF Next, vars, RefusePrepare, RequestApproval, DecideApproval,
         Status, SyncStart, Crash, Block, Index, CloseWindow, PassMargin,
         LapseApproval, ExternalMove, Register, Accrue
<1> QED
  BY <1>3, <1>4, <1>5, <1>6, <1>7, <1>8, <1>10, <1>11, <1>12, <1>13, <1>14

\* Only bytes of an intent that was submitted are ever sent.
THEOREM SentInvariance == Spec => []SentOnlySubmitted
<1>1. Init => SentOnlySubmitted
  BY DEF Init, TxInit, Flows, SentOnlySubmitted, Working, Reconciling, Sending
<1>2. TypeOK /\ ControlInv /\ SentOnlySubmitted /\ [Next]_vars => SentOnlySubmitted'
  BY SentStep
<1> QED  BY <1>1, <1>2, Invariance, PTL DEF Spec

\* Callers of the vault flows see only what FlowContract allows: one open
\* intent, executed at most once and after it was submitted, and final
\* statuses that tell the truth about the chain.
THEOREM FlowsImplementContract == Spec => ImplementsContract
<1>1. Init => Contract!ContractInit
  <2> SUFFICES ASSUME Init PROVE Contract!ContractInit
    OBVIOUS
  <2>1. \A f \in Flows : tx[f] = "unsent" /\ intent[f].status = "absent"
    BY DEF Init, TxInit, Flows
  <2> QED  BY <2>1 DEF Contract!ContractInit, ReportedStatus, ExecutedEffect
<1>2. TypeOK /\ ControlInv /\ SentOnlySubmitted /\ [Next]_vars
        => [Contract!ContractNext]_(Contract!contractVars)
  BY RefinementStep DEF ContractStep
<1> QED
  BY <1>1, <1>2, Invariance, SentInvariance, PTL
  DEF Spec, ImplementsContract, Contract!ContractSpec
-----------------------------------------------------------------------------
(* The baseline-reset flag.                                                 *)

\* Charging a fee leaves the flag alone.
LEMMA ChargeKeepsFlag ==
    ASSUME NEW p \in Position, NEW charged \in BOOLEAN
    PROVE  ChargeFee(p, charged).status = p.status
  BY DEF ChargeFee, Position

\* Every step keeps the flag of a refused prepare, until a conservative reset.
LEMMA RefusalStep ==
    ASSUME Ledger = "memory", TypeOK, RefusalIsRecorded, [Next]_vars
    PROVE  RefusalIsRecorded'
<1> USE DEF ledgerVars, chainVars, txVars, handlerVars
<1>0. position \in Position /\ (refused => position.status = "needs_baseline_reset")
  BY DEF TypeOK, RefusalIsRecorded
<1>1. CASE UNCHANGED <<position, refused>>
  BY <1>1 DEF RefusalIsRecorded
<1>2. ASSUME NEW f \in Flows, RefusePrepare(f) PROVE RefusalIsRecorded'
  BY <1>0, <1>2 DEF RefusePrepare, SavedDespiteThrow, RefusalIsRecorded, Position
<1>3. ASSUME NEW w \in Workers, FinalizeReverted(w) PROVE RefusalIsRecorded'
  <2>1. position'.status = position.status /\ refused' = refused
    BY <1>0, <1>3, ChargeKeepsFlag DEF FinalizeReverted
  <2> QED  BY <1>0, <2>1 DEF RefusalIsRecorded
<1>4. ASSUME NEW w \in Workers, FinalizeUnclassified(w) PROVE RefusalIsRecorded'
  BY <1>0, <1>4 DEF FinalizeUnclassified, RefusalIsRecorded, Position
<1>5. ASSUME NEW w \in Workers, FinalizeReceipt(w) PROVE RefusalIsRecorded'
  <2> DEFINE booked == [position EXCEPT !.shares = chainShares,
                                        !.basis = BasisAfter(job[w]),
                                        !.established = TRUE,
                                        !.version = @ + 1]
  <2>1. PICK charged \in BOOLEAN : position' = ChargeFee(booked, charged)
    BY <1>5 DEF FinalizeReceipt
  <2>2. booked.status = position.status /\ DOMAIN booked = DOMAIN position
    BY <1>0 DEF Position
  <2>3. {"status", "feeDebt", "version"} \subseteq DOMAIN booked
    BY <1>0, <2>2 DEF Position
  <2> HIDE DEF booked
  <2>4. position'.status = position.status /\ refused' = refused
    BY <1>5, <2>1, <2>2, <2>3 DEF FinalizeReceipt, ChargeFee
  <2> QED  BY <1>0, <2>4 DEF RefusalIsRecorded
<1>6. ASSUME NEW w \in Workers, SyncApply(w) PROVE RefusalIsRecorded'
  <2> DEFINE s == snap[w]
  <2>1. CASE SyncRefused(s)
    BY <1>6, <2>1, <1>1 DEF SyncApply
  <2>2. CASE ~SyncRefused(s) /\ RunConservativeReset(s)
    BY <1>6, <2>2 DEF SyncApply, RefusalIsRecorded
  <2>3. CASE ~SyncRefused(s) /\ ~RunConservativeReset(s)
    <3>1. position' = [position EXCEPT !.shares = s.shares,
                                       !.basis = SyncedBasis(s),
                                       !.established = TRUE,
                                       !.status = position.status,
                                       !.version = @ + 1]
      BY <1>0, <1>6, <2>3 DEF SyncApply
    <3>2. position'.status = position.status
      BY <1>0, <3>1 DEF Position
    <3>3. refused' => refused
      BY <1>6, <2>3 DEF SyncApply
    <3> QED  BY <1>0, <3>2, <3>3 DEF RefusalIsRecorded
  <2> QED  BY <2>1, <2>2, <2>3
<1>7. CASE Register
  <2>1. position.status = "needs_baseline_reset" =>
          position'.status = "needs_baseline_reset"
    BY <1>0, <1>7 DEF Register, Position
  <2> QED  BY <1>0, <1>7, <2>1 DEF Register, RefusalIsRecorded
<1>8. \/ UNCHANGED <<position, refused>>
      \/ \E f \in Flows : RefusePrepare(f)
      \/ \E w \in Workers : \/ FinalizeReverted(w) \/ FinalizeUnclassified(w)
                            \/ FinalizeReceipt(w) \/ SyncApply(w)
      \/ Register
  <2>1. ASSUME NEW w \in Workers, Step(w)
        PROVE  \/ UNCHANGED <<position, refused>>
               \/ FinalizeReverted(w) \/ FinalizeUnclassified(w)
               \/ FinalizeReceipt(w) \/ SyncApply(w)
    BY <2>1 DEF Step, Simulate, Send, Wait, Confirm, Lookup, CheckHeight,
         FinalLookup, Resend, WriteOff, FinalizeLate, SyncChain, Continue, Abandon
  <2> QED
    BY <2>1 DEF Next, vars, Prepare, Expire, RequestApproval, DecideApproval,
         Submit, Status, SyncStart, Crash, Land, Revert, Block, Lapse,
         LapseApproval, ExternalMove, Accrue
<1> QED  BY <1>1, <1>2, <1>3, <1>4, <1>5, <1>6, <1>7, <1>8

(***************************************************************************)
(* In a ledger that keeps what a throwing section saved, a refused prepare *)
(* leaves the position flagged until a conservative reset, whatever        *)
(* registrations, receipts, fees and syncs follow.                         *)
(***************************************************************************)
THEOREM RefusalStaysRecorded ==
    ASSUME Ledger = "memory" PROVE Spec => []RefusalIsRecorded
<1>1. Init => RefusalIsRecorded
  BY DEF Init, RefusalIsRecorded
<1>2. TypeOK /\ RefusalIsRecorded /\ [Next]_vars => RefusalIsRecorded'
  BY RefusalStep
<1> QED  BY <1>1, <1>2, TypeCorrect, PTL DEF Spec

-----------------------------------------------------------------------------
(* Owner approvals.                                                         *)

\* The approval of an executed operation is consumed when it is booked.
LandedConsumes ==
    \A f \in Flows : tx[f] = "landed" /\ intent[f].approval # NoApproval =>
        \/ intent[f].status = "submitted"
        \/ /\ intent[f].status = "confirmed"
           /\ approval[intent[f].approval].status = "consumed"

\* A submitted operation holds its approval until then.
SubmittedHolds ==
    \A f \in Flows :
        intent[f].status = "submitted" /\ intent[f].approval # NoApproval =>
            approval[intent[f].approval].status = "approved"

\* Nothing that has executed shares its approval with what still may.
NoReuse ==
    \A f, g \in Flows :
        /\ tx[f] = "landed" /\ intent[f].approval # NoApproval
        /\ intent[g].approval = intent[f].approval
        /\ Pending(intent[g]) \/ tx[g] = "landed"
        => f = g

ApprovalInv == LandedConsumes /\ SubmittedHolds /\ NoReuse

(***************************************************************************)
(* An executed operation that the owner approved leaves a receipt: one     *)
(* that ends unclassified keeps its approval.                              *)
(***************************************************************************)
ApprovedReceipted ==
    \A f \in Flows : tx[f] = "landed" /\ intent[f].approval # NoApproval =>
        delta[f] > 0

\* What becomes of an approval in a step: it is used up only by the receipt
\* of the flow it was given to, and expires only when no flow is pending.
ApprovalAdvance(a) ==
    \/ approval'[a].status = approval[a].status
    \/ approval[a].status \in {"none", "pending"}
    \/ /\ approval[a].status = "approved" /\ PendingFlows = {}
    \/ /\ approval[a].status = "approved" /\ approval'[a].status = "consumed"
       /\ \E f \in Flows : /\ intent[f].status = "submitted"
                           /\ intent'[f].status = "confirmed"
                           /\ intent[f].approval = a

\* Every step treats every approval so.
LEMMA ApprovalStep ==
    ASSUME TypeOK, HasJob, [Next]_vars, NEW a \in Approvals
    PROVE  ApprovalAdvance(a)
<1> USE DEF ledgerVars, chainVars, txVars, handlerVars
<1>0. approval \in [Approvals -> Approval] /\ intent \in [Flows -> Intent]
  BY DEF TypeOK
<1>1. CASE approval' = approval
  BY <1>1 DEF ApprovalAdvance
<1>2. ASSUME NEW b \in Approvals, RequestApproval(b) PROVE ApprovalAdvance(a)
  <2>1. PICK r \in Requests, p \in Approvals \cup {NoApproval} :
          approval' =
              IF ReusablePending(r) # {} THEN ExpireIfStale(approval, p)
              ELSE [ExpireIfStale(approval, p) EXCEPT ![b] =
                      [status |-> "pending", kind |-> r.kind,
                       amount |-> r.amount, lapsed |-> FALSE]]
    BY <1>2 DEF RequestApproval
  <2>2. PendingFlows = {} /\ approval[b].status = "none"
    BY <1>2 DEF RequestApproval
  <2>3. /\ ExpireIfStale(approval, p) \in [Approvals -> Approval]
        /\ \/ ExpireIfStale(approval, p)[a].status = approval[a].status
           \/ approval[a].status \in {"pending", "approved"}
    BY <1>0 DEF ExpireIfStale, Approval
  <2>4. CASE a = b
    BY <2>2, <2>4 DEF ApprovalAdvance
  <2>5. CASE a # b
    <3>1. approval'[a] = ExpireIfStale(approval, p)[a]
      BY <2>1, <2>3, <2>5
    <3> QED  BY <2>2, <2>3, <3>1 DEF ApprovalAdvance
  <2> QED  BY <2>4, <2>5
<1>3. ASSUME NEW b \in Approvals, DecideApproval(b) PROVE ApprovalAdvance(a)
  <2>1. /\ approval[b].status = "pending"
        /\ \E s : approval' = [approval EXCEPT ![b].status = s]
    BY <1>3 DEF DecideApproval
  <2> QED  BY <1>0, <2>1 DEF ApprovalAdvance
<1>4. ASSUME NEW b \in Approvals, LapseApproval(b) PROVE ApprovalAdvance(a)
  BY <1>0, <1>4 DEF LapseApproval, ApprovalAdvance, Approval
<1>5. ASSUME NEW w \in Workers, FinalizeReceipt(w) PROVE ApprovalAdvance(a)
  <2>1. /\ job[w] \in Flows /\ intent[job[w]].status = "submitted"
        /\ intent' = [intent EXCEPT ![job[w]].status = "confirmed"]
        /\ approval' = Consume(approval, intent[job[w]].approval)
    BY <1>5 DEF FinalizeReceipt, HasJob, StillSubmitted
  <2>2. intent'[job[w]].status = "confirmed"
    BY <1>0, <2>1 DEF Intent
  <2>3. \/ approval'[a].status = approval[a].status
        \/ /\ approval[a].status = "approved" /\ approval'[a].status = "consumed"
           /\ intent[job[w]].approval = a
    BY <1>0, <2>1 DEF Consume, Approval
  <2> QED  BY <2>1, <2>2, <2>3 DEF ApprovalAdvance
<1>6. \/ approval' = approval
      \/ \E b \in Approvals : \/ RequestApproval(b) \/ DecideApproval(b)
                              \/ LapseApproval(b)
      \/ \E w \in Workers : FinalizeReceipt(w)
  <2>1. ASSUME NEW w \in Workers, Step(w)
        PROVE  approval' = approval \/ FinalizeReceipt(w)
    BY <2>1 DEF Step, Simulate, Send, Wait, Confirm, Lookup, CheckHeight,
         FinalLookup, Resend, WriteOff, FinalizeLate, FinalizeReverted,
         FinalizeUnclassified, SyncChain, SyncApply, Continue, Abandon
  <2> QED
    BY <2>1 DEF Next, vars, Prepare, RefusePrepare, Expire, Submit, Status,
         SyncStart, Crash, Land, Revert, Block, Lapse, ExternalMove, Register,
         Accrue
<1> QED  BY <1>1, <1>2, <1>3, <1>4, <1>5, <1>6

(***************************************************************************)
(* What a step other than prepare does to an intent and its approval: the  *)
(* intent keeps it, submitting checks it, booking consumes it, and only a  *)
(* flow that reverted or left no receipt fails.                            *)
(***************************************************************************)
HeldThrough(g) ==
    LET was == intent[g].status
        is  == intent'[g].status
    IN  /\ intent'[g].approval = intent[g].approval
        /\ was # "submitted" /\ is = "submitted" =>
             StillAuthorized(intent[g]) /\ approval' = approval
        /\ was = "submitted" /\ is = "confirmed" =>
             approval' = Consume(approval, intent[g].approval)
        /\ was = "submitted" /\ is = "failed" =>
             tx[g] = "reverted" \/ ReadsMayFail \/ delta[g] = 0

\* Every such step does.
LEMMA HeldStep ==
    ASSUME TypeOK, HasJob, [Next]_vars, ~\E f \in Flows : Prepare(f),
           NEW g \in Flows
    PROVE  HeldThrough(g)
<1> USE DEF ledgerVars, chainVars, txVars, handlerVars
<1>0. intent \in [Flows -> Intent]
  BY DEF TypeOK
<1>1. CASE intent'[g] = intent[g]
  BY <1>1 DEF HeldThrough
<1>2. CASE intent' = ExpireStale(intent)
  <2>1. intent'[g] = IF intent[g].status = "prepared" /\ intent[g].lapsed
                       THEN [intent[g] EXCEPT !.status = "expired"]
                       ELSE intent[g]
    BY <1>2 DEF ExpireStale
  <2> QED  BY <1>0, <1>1, <2>1 DEF HeldThrough, Intent
<1>3. ASSUME NEW h \in Flows, Expire(h) \/ Lapse(h) PROVE HeldThrough(g)
  <2>1. CASE h # g
    BY <1>0, <1>1, <1>3, <2>1 DEF Expire, Lapse
  <2>2. CASE h = g
    BY <1>0, <1>3, <2>2 DEF Expire, Lapse, HeldThrough, Intent
  <2> QED  BY <2>1, <2>2
<1>4. ASSUME NEW w \in Workers, NEW h \in Flows, Submit(w, h) PROVE HeldThrough(g)
  <2>1. CASE h # g
    BY <1>0, <1>1, <1>4, <2>1 DEF Submit
  <2>2. CASE h = g
    BY <1>0, <1>4, <2>2 DEF Submit, HeldThrough, Intent
  <2> QED  BY <2>1, <2>2
<1>5. ASSUME NEW w \in Workers,
             \/ WriteOff(w) \/ FinalizeReverted(w)
             \/ FinalizeUnclassified(w) \/ FinalizeReceipt(w)
      PROVE  HeldThrough(g)
  <2>1. job[w] \in Flows
    BY <1>5 DEF WriteOff, FinalizeReverted, FinalizeUnclassified,
       FinalizeReceipt, HasJob, Reconciling
  <2>2. CASE WriteOff(w)
    <3>1. \/ intent' = intent
          \/ intent' = [intent EXCEPT ![job[w]].status = "failed_not_submitted"]
      BY <2>2 DEF WriteOff
    <3> QED  BY <1>0, <2>1, <3>1 DEF HeldThrough, Intent
  <2>3. CASE FinalizeReverted(w)
    BY <1>0, <2>1, <2>3 DEF FinalizeReverted, HeldThrough, Intent
  <2>4. CASE FinalizeUnclassified(w)
    BY <1>0, <2>1, <2>4 DEF FinalizeUnclassified, HeldThrough, Intent
  <2>5. CASE FinalizeReceipt(w)
    <3>1. /\ intent' = [intent EXCEPT ![job[w]].status = "confirmed"]
          /\ approval' = Consume(approval, intent[job[w]].approval)
      BY <2>5 DEF FinalizeReceipt
    <3>2. CASE g # job[w]
      BY <1>0, <1>1, <3>1, <3>2
    <3>3. CASE g = job[w]
      BY <1>0, <3>1, <3>3 DEF HeldThrough, Intent
    <3> QED  BY <3>2, <3>3
  <2> QED  BY <1>5, <2>2, <2>3, <2>4, <2>5
<1>6. \/ intent' = intent \/ intent' = ExpireStale(intent)
      \/ \E h \in Flows : Expire(h) \/ Lapse(h)
      \/ \E w \in Workers, h \in Flows : Submit(w, h)
      \/ \E w \in Workers : \/ WriteOff(w) \/ FinalizeReverted(w)
                            \/ FinalizeUnclassified(w) \/ FinalizeReceipt(w)
  <2>1. ASSUME NEW w \in Workers, Step(w)
        PROVE  \/ intent' = intent
               \/ WriteOff(w) \/ FinalizeReverted(w)
               \/ FinalizeUnclassified(w) \/ FinalizeReceipt(w)
    BY <2>1 DEF Step, Simulate, Send, Wait, Confirm, Lookup, CheckHeight,
         FinalLookup, Resend, FinalizeLate, SyncChain, SyncApply, Continue, Abandon
  <2> QED
    BY <2>1 DEF Next, vars, RefusePrepare, RequestApproval, DecideApproval,
         Status, SyncStart, Crash, Land, Revert, Block, LapseApproval,
         ExternalMove, Register, Accrue
<1> QED  BY <1>1, <1>2, <1>3, <1>4, <1>5, <1>6

\* A prepare takes an approval that nothing executed has used.
LEMMA PrepareApproved ==
    ASSUME TypeOK, SentOnlySubmitted, ApprovalInv, NEW f \in Flows, Prepare(f)
    PROVE  ApprovalInv'
<1> USE DEF ledgerVars, chainVars, txVars, handlerVars
<1>0. intent \in [Flows -> Intent]
  BY DEF TypeOK
<1>1. /\ UNCHANGED <<tx, approval>>
      /\ intent[f].status = "absent" /\ \A g \in Flows : ~Pending(intent[g])
  BY DEF Prepare, MayPrepare, PendingFlows
<1>2. PICK r \in Requests :
        \E a \in Authorizations(r.kind, r.amount) :
          intent' = [ExpireStale(intent) EXCEPT ![f] =
                       [status |-> "prepared", kind |-> r.kind,
                        amount |-> r.amount,
                        shares |-> RequestedShares(r.kind, r.amount),
                        approval |-> a, lapsed |-> FALSE]]
  BY DEF Prepare
<1>3. PICK a \in Authorizations(r.kind, r.amount) :
        intent' = [ExpireStale(intent) EXCEPT ![f] =
                     [status |-> "prepared", kind |-> r.kind,
                      amount |-> r.amount,
                      shares |-> RequestedShares(r.kind, r.amount),
                      approval |-> a, lapsed |-> FALSE]]
  BY <1>2
<1>4. a # NoApproval => approval[a].status = "approved"
  BY DEF Authorizations, ApprovalUsable
<1>5. /\ intent'[f].status = "prepared" /\ intent'[f].approval = a
      /\ \A g \in Flows \ {f} : intent'[g] = ExpireStale(intent)[g]
  BY <1>0, <1>3, ExpireStaleType
<1>6. ASSUME NEW g \in Flows, tx[g] = "landed"
      PROVE  g # f /\ intent'[g] = intent[g] /\ intent[g].status # "submitted"
  <2>1. intent[g].status \in WasSubmitted
    BY <1>6 DEF SentOnlySubmitted
  <2> QED  BY <1>0, <1>1, <1>5, <2>1, ExpireStaleType DEF WasSubmitted, Pending
<1>7. \A g \in Flows \ {f} : ~Pending(intent'[g])
  BY <1>0, <1>1, <1>5, ExpireStaleType
<1>8. LandedConsumes'
  BY <1>1, <1>6 DEF LandedConsumes, ApprovalInv
<1>9. SubmittedHolds'
  BY <1>5, <1>7 DEF SubmittedHolds, Pending
<1>10. NoReuse'
  <2> SUFFICES ASSUME NEW g \in Flows, NEW h \in Flows, tx[g] = "landed",
                      intent'[g].approval # NoApproval,
                      intent'[h].approval = intent'[g].approval,
                      Pending(intent'[h]) \/ tx[h] = "landed"
               PROVE  g = h
    BY <1>1 DEF NoReuse, Pending
  <2>1. intent'[g] = intent[g] /\ approval[intent[g].approval].status = "consumed"
    BY <1>6 DEF ApprovalInv, LandedConsumes
  <2>2. h # f
    BY <1>4, <1>5, <2>1
  <2>3. tx[h] = "landed"
    BY <1>7, <2>2
  <2> QED  BY <1>6, <2>1, <2>3 DEF ApprovalInv, NoReuse
<1> QED  BY <1>8, <1>9, <1>10 DEF ApprovalInv

\* A transaction that lands belongs to a submitted intent.
LEMMA LandsSubmitted ==
    ASSUME TypeOK, ControlInv, SentOnlySubmitted, [Next]_vars, NEW f \in Flows,
           tx'[f] = "landed", tx[f] # "landed"
    PROVE  intent[f].status = "submitted" /\ intent'[f] = intent[f]
<1>1. TxAdvance(f) /\ IntentAdvance(f)
  BY TxStep, IntentStep DEF ControlInv
<1>2. tx[f] = "wire" /\ window[f] = "open"
  BY <1>1 DEF TxAdvance
<1>3. intent[f].status = "submitted"
  BY <1>2 DEF ControlInv, StatusSays, SentOnlySubmitted, WasSubmitted, OnChain
<1> QED  BY <1>1, <1>2, <1>3 DEF IntentAdvance, OnChain

\* Every step keeps the invariant of approvals.
LEMMA ApprovalInvStep ==
    ASSUME ReadsMayFail = FALSE, TypeOK, ControlInv, SentOnlySubmitted,
           ApprovedReceipted, ApprovalInv, [Next]_vars
    PROVE  ApprovalInv'
<1>1. CASE \E f \in Flows : Prepare(f)
  BY <1>1, PrepareApproved
<1>2. CASE ~\E f \in Flows : Prepare(f)
  <2>1. ASSUME NEW g \in Flows
        PROVE  /\ HeldThrough(g) /\ TxAdvance(g) /\ IntentAdvance(g)
               /\ Pending(intent'[g]) => Pending(intent[g])
               /\ intent[g].approval \in Approvals \cup {NoApproval}
    BY <1>2, HeldStep, TxStep, IntentStep, PendingBefore DEF ControlInv, TypeOK,
       Intent
  <2>2. PendingUnique /\ StatusSays
    BY DEF ControlInv
  <2>3. SubmittedHolds'
    <3> SUFFICES ASSUME NEW g \in Flows, intent'[g].status = "submitted",
                        intent'[g].approval # NoApproval
                 PROVE  approval'[intent'[g].approval].status = "approved"
      BY DEF SubmittedHolds
    <3> DEFINE a == intent[g].approval
    <3>1. intent'[g].approval = a /\ a # NoApproval /\ a \in Approvals
      BY <2>1 DEF HeldThrough
    <3>2. CASE intent[g].status = "submitted"
      <4>1. approval[a].status = "approved"
        BY <3>1, <3>2 DEF ApprovalInv, SubmittedHolds
      <4>2. ApprovalAdvance(a)
        BY <3>1, ApprovalStep DEF ControlInv
      <4>3. g \in PendingFlows
        BY <3>2 DEF PendingFlows, Pending
      <4>4. \A f \in Flows : intent[f].status = "submitted" => f = g
        BY <2>2, <3>2 DEF PendingUnique, Pending
      <4> HIDE DEF a
      <4>5. approval'[a].status = "approved"
        BY <4>1, <4>2, <4>3, <4>4 DEF ApprovalAdvance
      <4> QED  BY <3>1, <4>5
    <3>3. CASE intent[g].status # "submitted"
      BY <2>1, <3>1, <3>3 DEF HeldThrough, StillAuthorized
    <3> QED  BY <3>2, <3>3
  <2>4. LandedConsumes'
    <3> SUFFICES ASSUME NEW g \in Flows, tx'[g] = "landed",
                        intent'[g].approval # NoApproval,
                        intent'[g].status # "submitted"
                 PROVE  /\ intent'[g].status = "confirmed"
                        /\ approval'[intent'[g].approval].status = "consumed"
      BY DEF LandedConsumes
    <3> DEFINE a == intent[g].approval
    <3>1. intent'[g].approval = a /\ a # NoApproval /\ a \in Approvals
      BY <2>1 DEF HeldThrough
    <3>2. tx[g] = "landed"
      BY LandsSubmitted
    <3>3. delta[g] > 0 /\ delta[g] \in Nat
      BY <3>1, <3>2 DEF ApprovedReceipted, TypeOK
    <3>4. CASE intent[g].status = "submitted"
      <4>1. intent'[g].status = "confirmed"
        <5>1. intent'[g].status # "failed"
          BY <2>1, <3>2, <3>3, <3>4 DEF HeldThrough
        <5>2. OnChain(g)
          BY <3>2 DEF OnChain
        <5> QED  BY <2>1, <3>4, <5>1, <5>2 DEF IntentAdvance
      <4>2. approval[a].status = "approved"
        BY <3>1, <3>4 DEF ApprovalInv, SubmittedHolds
      <4>3. approval' = Consume(approval, a)
        BY <2>1, <3>4, <4>1 DEF HeldThrough
      <4>4. approval \in [Approvals -> Approval]
        BY DEF TypeOK
      <4> HIDE DEF a
      <4>5. approval'[a].status = "consumed"
        BY <3>1, <4>2, <4>3, <4>4 DEF Consume, Approval
      <4> QED  BY <3>1, <4>1, <4>5
    <3>5. CASE intent[g].status # "submitted"
      <4>1. intent[g].status = "confirmed" /\ approval[a].status = "consumed"
        BY <3>1, <3>2, <3>5 DEF ApprovalInv, LandedConsumes
      <4>2. intent'[g].status = "confirmed"
        BY <2>1, <4>1 DEF IntentAdvance
      <4>3. ApprovalAdvance(a)
        BY <3>1, ApprovalStep DEF ControlInv
      <4> HIDE DEF a
      <4> QED  BY <3>1, <4>1, <4>2, <4>3 DEF ApprovalAdvance
    <3> QED  BY <3>4, <3>5
  <2>5. NoReuse'
    <3> SUFFICES ASSUME NEW f \in Flows, NEW g \in Flows, tx'[f] = "landed",
                        intent'[f].approval # NoApproval,
                        intent'[g].approval = intent'[f].approval,
                        Pending(intent'[g]) \/ tx'[g] = "landed"
                 PROVE  f = g
      BY DEF NoReuse, Pending
    <3>1. /\ intent[f].approval # NoApproval
          /\ intent[g].approval = intent[f].approval
      BY <2>1 DEF HeldThrough
    <3>2. tx[f] = "landed" \/ Pending(intent[f])
      BY LandsSubmitted DEF Pending
    <3>3. tx[g] = "landed" \/ Pending(intent[g])
      BY <2>1, LandsSubmitted DEF Pending
    <3> QED
      BY <2>2, <3>1, <3>2, <3>3 DEF ApprovalInv, NoReuse, PendingUnique
  <2> QED  BY <2>3, <2>4, <2>5 DEF ApprovalInv
<1> QED  BY <1>1, <1>2

(***************************************************************************)
(* An owner approval authorizes one executed operation: no two flows that  *)
(* landed were prepared with the same one, whatever expires, is decided or *)
(* is finalized twice in between, if the reads of a finalization succeed   *)
(* and what the owner approved leaves a receipt.                           *)
(***************************************************************************)
THEOREM ApprovalsUsedOnce ==
    ASSUME ReadsMayFail = FALSE
    PROVE  Spec /\ []ApprovedReceipted => []ApprovalSingleUse
<1>1. Init => ApprovalInv
  BY DEF Init, TxInit, Flows, ApprovalInv, LandedConsumes, SubmittedHolds, NoReuse
<1>2. TypeOK /\ ControlInv /\ SentOnlySubmitted /\ ApprovedReceipted /\ ApprovalInv
        /\ [Next]_vars => ApprovalInv'
  BY ApprovalInvStep
<1>3. ApprovalInv => ApprovalSingleUse
  <2> SUFFICES ASSUME NoReuse, NEW a \in Approvals
               PROVE  Cardinality({f \in Flows : /\ intent[f].approval = a
                                                 /\ tx[f] = "landed"}) <= 1
    BY DEF ApprovalInv, ApprovalSingleUse
  <2> DEFINE S == {f \in Flows : intent[f].approval = a /\ tx[f] = "landed"}
  <2>1. a # NoApproval
    BY FlowAssumption
  <2>2. CASE S = {}
    BY <2>2, FS_EmptySet
  <2>3. CASE S # {}
    <3>1. PICK f \in Flows : f \in S
      BY <2>3
    <3>2. S = {f}
      BY <2>1, <3>1 DEF NoReuse
    <3> HIDE DEF S
    <3>3. Cardinality(S) <= 1
      BY <3>2, FS_Singleton
    <3> QED  BY <3>3 DEF S
  <2> QED  BY <2>2, <2>3
<1> QED  BY <1>1, <1>2, <1>3, Invariance, SentInvariance, PTL DEF Spec

-----------------------------------------------------------------------------
(***************************************************************************)
(* The money of VaultFlow: the deposited principal is never spent, and no  *)
(* value is taken for yield that was not earned, for any number of flows,  *)
(* handlers and syncs and any amounts, rates and penalties.                *)
(*                                                                         *)
(* The ledger lags behind the chain in three ways, and the invariant says  *)
(* for each what the row is still good for: a flow has landed and awaits   *)
(* its receipt; shares have moved without the relayer and no sync has seen *)
(* them; a sync holds a snapshot that it has not applied.                  *)
(***************************************************************************)

-----------------------------------------------------------------------------
(* Arithmetic of values and costs.                                          *)

\* What added shares cost at a rate, rounded up (the floor of syncFromChain).
AddedCost(n, r) == MulDivCeil(n, r, RateScale)

\* The value of a position is at least what its shares pay for in full.
LEMMA ValueReaches ==
    ASSUME NEW s \in Nat, NEW r \in Nat, NEW k \in Int, RateScale * k <= s * r
    PROVE  k <= ComputePositionValue(s, r)
<1>1. s * r \in Int
  OBVIOUS
<1> QED
  BY <1>1, DivGE, RateScaleAssumption DEF ComputePositionValue, MulDivFloor

\* A position gains value as the rate rises.
LEMMA ValueMonotone ==
    ASSUME NEW s \in Nat, NEW r \in Nat, NEW q \in Nat, r <= q
    PROVE  ComputePositionValue(s, r) <= ComputePositionValue(s, q)
<1> DEFINE v == ComputePositionValue(s, r)
<1>1. v \in Nat /\ RateScale * v <= s * r
  BY ValueBounds
<1> HIDE DEF v
<1>2. s * r <= s * q
  OBVIOUS
<1>3. s * r \in Int /\ s * q \in Int
  OBVIOUS
<1>4. RateScale * v \in Int
  BY <1>1, RateScaleAssumption
<1>5. RateScale * v <= s * q
  BY <1>1, <1>2, <1>3, <1>4
<1>6. v <= ComputePositionValue(s, q)
  BY <1>1, <1>5, ValueReaches
<1> QED  BY <1>6 DEF v

\* Two parts of a position are worth no more than the whole.
LEMMA ValueSplit ==
    ASSUME NEW s \in Nat, NEW n \in Nat, NEW r \in Nat
    PROVE  ComputePositionValue(s, r) + ComputePositionValue(n, r)
             <= ComputePositionValue(s + n, r)
<1> DEFINE v == ComputePositionValue(s, r)
           u == ComputePositionValue(n, r)
<1>1. /\ v \in Nat /\ RateScale * v <= s * r
      /\ u \in Nat /\ RateScale * u <= n * r
  BY ValueBounds
<1> HIDE DEF v, u
<1>2. PICK a \in Int, b \in Int, c \in Int, d \in Int :
        a = s * r /\ b = n * r /\ c = RateScale * v /\ d = RateScale * u
  BY <1>1, RateScaleAssumption
<1>3. RateScale * (v + u) = c + d
  BY <1>1, <1>2, RateScaleAssumption
<1>4. (s + n) * r = a + b
  BY <1>2
<1>5. RateScale * (v + u) <= (s + n) * r
  BY <1>1, <1>2, <1>3, <1>4
<1>6. v + u <= ComputePositionValue(s + n, r)
  BY <1>1, <1>5, ValueReaches
<1> QED  BY <1>6 DEF v, u

\* No shares are worth nothing.
LEMMA NothingWorth ==
    ASSUME NEW r \in Nat PROVE ComputePositionValue(0, r) = 0
<1> DEFINE v == ComputePositionValue(0, r)
<1>1. v \in Nat /\ RateScale * v <= 0 * r
  BY ValueBounds
<1> HIDE DEF v
<1>2. v = 0
  BY <1>1, RateScaleAssumption
<1> QED  BY <1>2 DEF v

\* The cost of shares is the smallest amount that pays for them in full.
LEMMA CostBounds ==
    ASSUME NEW n \in Nat, NEW r \in Nat
    PROVE  /\ AddedCost(n, r) \in Nat
           /\ n * r <= RateScale * AddedCost(n, r)
           /\ RateScale * AddedCost(n, r) < n * r + RateScale
<1>1. n * r \in Nat
  OBVIOUS
<1> QED
  BY <1>1, CeilDivBounds, RateScaleAssumption DEF AddedCost, MulDivCeil

\* No shares cost nothing.
LEMMA NothingCosts ==
    ASSUME NEW r \in Nat PROVE AddedCost(0, r) = 0
<1> DEFINE c == AddedCost(0, r)
<1>1. c \in Nat /\ RateScale * c < 0 * r + RateScale
  BY CostBounds
<1> HIDE DEF c
<1>2. RateScale * c < RateScale * 1
  BY <1>1, RateScaleAssumption
<1>3. c < 1
  BY <1>1, <1>2, RateScaleAssumption, Cancel
<1> QED  BY <1>1, <1>3 DEF c

\* Shares cost more as the rate rises.
LEMMA CostMonotone ==
    ASSUME NEW n \in Nat, NEW r \in Nat, NEW q \in Nat, r <= q
    PROVE  AddedCost(n, r) <= AddedCost(n, q)
<1> DEFINE c == AddedCost(n, r)
           e == AddedCost(n, q)
<1>1. /\ c \in Nat /\ RateScale * c < n * r + RateScale
      /\ e \in Nat /\ n * q <= RateScale * e
  BY CostBounds
<1> HIDE DEF c, e
<1>2. n * r <= n * q
  OBVIOUS
<1>3. PICK a \in Int, b \in Int, x \in Int, y \in Int :
        a = n * r /\ b = n * q /\ x = RateScale * c /\ y = RateScale * e
  BY <1>1, RateScaleAssumption
<1>4. x < y + RateScale
  BY <1>1, <1>2, <1>3, RateScaleAssumption
<1>5. RateScale * (e + 1) = y + RateScale
  BY <1>1, <1>3, RateScaleAssumption
<1>6. RateScale * c < RateScale * (e + 1)
  BY <1>3, <1>4, <1>5
<1>7. c < e + 1
  BY <1>1, <1>6, RateScaleAssumption, Cancel
<1>8. c <= e
  BY <1>1, <1>7
<1> QED  BY <1>8 DEF c, e

\* Shares cost at least what they are worth.
LEMMA CostCoversValue ==
    ASSUME NEW n \in Nat, NEW r \in Nat
    PROVE  ComputePositionValue(n, r) <= AddedCost(n, r)
<1> DEFINE v == ComputePositionValue(n, r)
           c == AddedCost(n, r)
<1>1. /\ v \in Nat /\ RateScale * v <= n * r
      /\ c \in Nat /\ n * r <= RateScale * c
  BY ValueBounds, CostBounds
<1> HIDE DEF v, c
<1>2. PICK a \in Int, x \in Int, y \in Int :
        a = n * r /\ x = RateScale * v /\ y = RateScale * c
  BY <1>1, RateScaleAssumption
<1>3. RateScale * (c + 1) = y + RateScale
  BY <1>1, <1>2, RateScaleAssumption
<1>4. RateScale * v < RateScale * (c + 1)
  BY <1>1, <1>2, <1>3, RateScaleAssumption
<1>5. v < c + 1
  BY <1>1, <1>4, RateScaleAssumption, Cancel
<1>6. v <= c
  BY <1>1, <1>5
<1> QED  BY <1>6 DEF v, c

-----------------------------------------------------------------------------
(* The inductive invariant.                                                 *)

\* An intent that still may, or did, move money the ledger has not booked.
Open(f) == intent[f].status \in {"prepared", "submitted"}

\* A flow that has landed and awaits its receipt.
Awaited(f) == intent[f].status = "submitted" /\ tx[f] = "landed"
Unbooked == \E f \in Flows : Awaited(f)

RateBounded == rate <= MaxRate

\* One intent is open, a lapsed one included: prepare expires those first.
OpenUnique == \A f, g \in Flows : Open(f) /\ Open(g) => f = g

\* While an intent is open the shares stay where prepare saw them, until it
\* lands.
OpenMatches == (\E f \in Flows : Open(f)) /\ ~Unbooked => SharesMatch

\* The basis, and the cost of shares that arrived since, cover the principal.
BasisCovers ==
    ~Unbooked /\ chainShares >= position.shares =>
        principal <= position.basis
                       + AddedCost(chainShares - position.shares, rate)

\* So does the basis with the receipt that is still to be booked.
ReceiptCovers ==
    \A f \in Flows : Awaited(f) =>
        /\ principal <= position.basis
                          + (IF intent[f].kind = "deposit" THEN delta[f] ELSE 0)
        /\ intent[f].kind # "deposit" =>
               chainShares + intent[f].shares = position.shares

\* A realize that is open leaves the principal whenever it lands.
RealizeFits ==
    \A f \in Flows :
        Open(f) /\ ~OnChain(f) /\ intent[f].kind = "yield_realize" =>
            /\ intent[f].shares <= chainShares
            /\ principal <= ComputePositionValue(chainShares - intent[f].shares,
                                                 rate)

\* A snapshot taken at the row's version is a copy of the row.
RowRead(w) ==
    pc[w] \in Syncing =>
        /\ snap[w].version <= position.version
        /\ snap[w].version = position.version =>
               /\ snap[w].ledgerShares = position.shares
               /\ snap[w].ledgerBasis = position.basis

\* A snapshot that the sync will accept shows the shares of now, or those of
\* before a movement, and what it is worth covers the principal.
SnapshotCovers(w) ==
    LET s == snap[w]
    IN  pc[w] = "sync_apply" /\ s.version = position.version /\ ~Unbooked =>
            /\ s.shares \in {chainShares, position.shares}
            /\ chainShares >= s.shares =>
                   principal <= ComputePositionValue(s.shares, s.rate)
                                  + AddedCost(chainShares - s.shares, rate)
            /\ s.cost = NoCost => s.force \/ s.shares = s.ledgerShares
            /\ s.cost # NoCost => /\ s.shares > s.ledgerShares
                                  /\ principal <= s.cost

BookInv ==
    /\ RateBounded
    /\ OpenUnique
    /\ OpenMatches
    /\ BasisCovers
    /\ ReceiptCovers
    /\ RealizeFits
    /\ PrincipalNeverSpent

SyncInv == \A w \in Workers : RowRead(w) /\ SnapshotCovers(w)

MoneyInv == BookInv /\ SyncInv

\* What the invariants of control say and the proofs below need.
Base == TypeOK /\ ControlInv /\ SentOnlySubmitted

\* The types of the numbers.
LEMMA Numbers ==
    ASSUME TypeOK
    PROVE  /\ chainShares \in Nat /\ rate \in Nat /\ rate > 0 /\ principal \in Nat
           /\ position.shares \in Nat /\ position.basis \in Nat
           /\ position.version \in Nat /\ position.feeDebt \in Nat
           /\ \A f \in Flows : delta[f] \in Nat /\ intent[f].shares \in Nat
                               /\ intent[f].amount \in Nat
           /\ \A w \in Workers : snap[w] \in Snapshot
  BY DEF TypeOK, Position, Intent

\* An intent that is open has not landed unless it awaits its receipt.
LEMMA OpenLanded ==
    ASSUME Base, NEW f \in Flows
    PROVE  /\ intent[f].status = "prepared" => tx[f] = "unsent"
           /\ tx[f] = "wire" /\ window[f] = "open" => intent[f].status = "submitted"
  BY DEF Base, ControlInv, StatusSays, SentOnlySubmitted, WasSubmitted, OnChain,
         TypeOK, TxTypeOK, TxStates, Flows

-----------------------------------------------------------------------------
(* Steps that move no money.                                                *)

\* Neither the accounts on chain nor those of the row change.
AccountsKept ==
    /\ UNCHANGED <<chainShares, rate, delta, principal>>
    /\ position'.shares = position.shares
    /\ position'.basis = position.basis
    /\ position'.version >= position.version

\* And intents may only close.
Frame ==
    /\ AccountsKept
    /\ \A f \in Flows :
         /\ OnChain(f) => OnChain(f)'
         /\ Awaited(f)' <=> Awaited(f)
         /\ Open(f)' => /\ Open(f)
                        /\ intent'[f].kind = intent[f].kind
                        /\ intent'[f].shares = intent[f].shares

\* A handler's sync, if it is in one, is where it was.
SnapKept(w) ==
    pc'[w] \in Syncing => pc'[w] = pc[w] /\ snap'[w] = snap[w]

\* Such a step keeps the accounts.
LEMMA FrameBook == BookInv /\ Frame => BookInv'
<1> SUFFICES ASSUME BookInv, Frame PROVE BookInv'
  OBVIOUS
<1>1. Unbooked' = Unbooked
  BY DEF Unbooked, Frame, AccountsKept
<1>2. RateBounded' /\ PrincipalNeverSpent'
  BY DEF BookInv, RateBounded, PrincipalNeverSpent, Frame, AccountsKept, ChainValue
<1>3. OpenUnique'
  BY DEF BookInv, OpenUnique, Frame, AccountsKept
<1>4. OpenMatches'
  BY <1>1 DEF BookInv, OpenMatches, Frame, AccountsKept, SharesMatch
<1>5. BasisCovers'
  BY <1>1 DEF BookInv, BasisCovers, Frame, AccountsKept
<1>6. ReceiptCovers'
  <2> SUFFICES ASSUME NEW f \in Flows, Awaited(f)'
               PROVE  /\ principal' <= position'.basis
                           + (IF intent'[f].kind = "deposit" THEN delta'[f] ELSE 0)
                      /\ intent'[f].kind # "deposit" =>
                           chainShares' + intent'[f].shares = position'.shares
    BY DEF ReceiptCovers
  <2>1. Awaited(f) /\ Open(f)'
    BY DEF Frame, AccountsKept, Awaited, Open
  <2> QED  BY <2>1 DEF BookInv, ReceiptCovers, Frame, AccountsKept
<1>7. RealizeFits'
  BY DEF BookInv, RealizeFits, Frame, AccountsKept
<1> QED  BY <1>2, <1>3, <1>4, <1>5, <1>6, <1>7 DEF BookInv

\* And the snapshot of every handler whose sync stands still.
LEMMA FrameSync ==
    ASSUME TypeOK, TypeOK', SyncInv, AccountsKept, Unbooked' = Unbooked,
           NEW w \in Workers, SnapKept(w)
    PROVE  RowRead(w)' /\ SnapshotCovers(w)'
<1>1. Unbooked' = Unbooked
  OBVIOUS
<1>2. RowRead(w) /\ SnapshotCovers(w)
  BY DEF SyncInv
<1>3. CASE pc'[w] \notin Syncing
  BY <1>3 DEF RowRead, SnapshotCovers, Syncing
<1>4. CASE pc'[w] \in Syncing
  <2>1. pc'[w] = pc[w] /\ snap'[w] = snap[w]
    BY <1>4 DEF SnapKept
  <2>2. /\ snap[w].version <= position.version
        /\ snap[w].version \in Nat /\ position.version \in Nat
        /\ position'.version \in Nat /\ position'.version >= position.version
    BY <1>2, <1>4, <2>1 DEF RowRead, TypeOK, Position, Snapshot, AccountsKept
  <2>3. RowRead(w)'
    BY <1>2, <1>4, <2>1, <2>2 DEF RowRead, AccountsKept
  <2>4. SnapshotCovers(w)'
    <3> SUFFICES ASSUME pc'[w] = "sync_apply", snap'[w].version = position'.version,
                        ~Unbooked'
                 PROVE  SnapshotCovers(w)'
      BY DEF SnapshotCovers
    <3>1. snap[w].version = position.version
      BY <2>1, <2>2
    <3> QED  BY <1>1, <1>2, <2>1, <3>1 DEF SnapshotCovers, AccountsKept
  <2> QED  BY <2>3, <2>4
<1> QED  BY <1>3, <1>4

\* The steps that move money, open an intent or advance a sync.
MovingStep ==
    \/ \E f \in Flows : Prepare(f) \/ Land(f)
    \/ \E w \in Workers : \/ FinalizeReceipt(w) \/ FinalizeUnclassified(w)
                          \/ SyncStart(w) \/ SyncChain(w) \/ SyncApply(w)
    \/ \E d \in Moves : ExternalMove(d)
    \/ Accrue

\* No other step touches the chain's accounts or makes a flow land.
LEMMA ChainQuiet ==
    ASSUME Base, [Next]_vars, ~MovingStep
    PROVE  /\ UNCHANGED <<chainShares, rate, delta, principal>>
           /\ \A f \in Flows : /\ tx'[f] = "landed" <=> tx[f] = "landed"
                               /\ OnChain(f) => OnChain(f)'
<1> USE DEF ledgerVars, chainVars, txVars, handlerVars
<1>1. tx \in [Flows -> TxStates]
  BY DEF Base, TypeOK, TxTypeOK, Flows
<1>2. ASSUME NEW w \in Workers, Step(w), ~MovingStep
      PROVE  /\ UNCHANGED <<chainShares, rate, delta, principal>>
             /\ tx' = tx \/ (Send(w) \/ Resend(w))
  BY <1>2 DEF Step, MovingStep, Simulate, Send, Wait, Confirm, Lookup,
       CheckHeight, FinalLookup, Resend, WriteOff, FinalizeLate, FinalizeReverted,
       Continue, Abandon
<1>3. /\ UNCHANGED <<chainShares, rate, delta, principal>>
      /\ \/ tx' = tx
         \/ \E w \in Workers : Send(w) \/ Resend(w)
         \/ \E f \in Flows : Revert(f)
  BY <1>2 DEF Next, vars, MovingStep, RefusePrepare, Expire, RequestApproval,
       DecideApproval, Submit, Status, Crash, Lapse, LapseApproval, Register,
       Block, Index, CloseWindow, PassMargin, Revert
<1>4. ASSUME NEW w \in Workers, Send(w) \/ Resend(w), NEW f \in Flows
      PROVE  /\ tx'[f] = "landed" <=> tx[f] = "landed"
             /\ OnChain(f) => OnChain(f)'
  BY <1>1, <1>4 DEF Send, Resend, Broadcast, OnChain
<1>5. ASSUME NEW g \in Flows, Revert(g), NEW f \in Flows
      PROVE  /\ tx'[f] = "landed" <=> tx[f] = "landed"
             /\ OnChain(f) => OnChain(f)'
  BY <1>1, <1>5 DEF Revert, Include, OnChain
<1> QED  BY <1>3, <1>4, <1>5 DEF OnChain

\* No other step opens an intent, changes an open one but for its status, or
\* ends one that awaits its receipt.
LEMMA IntentQuiet ==
    ASSUME Base, [Next]_vars, ~MovingStep, NEW f \in Flows
    PROVE  /\ Open(f)' => /\ Open(f)
                          /\ intent'[f].kind = intent[f].kind
                          /\ intent'[f].shares = intent[f].shares
           /\ tx[f] = "landed" =>
                (intent'[f].status = "submitted" <=> intent[f].status = "submitted")
<1> USE DEF ledgerVars, chainVars, txVars, handlerVars
<1> DEFINE Goal == /\ Open(f)' => /\ Open(f)
                                  /\ intent'[f].kind = intent[f].kind
                                  /\ intent'[f].shares = intent[f].shares
                   /\ tx[f] = "landed" =>
                        (intent'[f].status = "submitted"
                           <=> intent[f].status = "submitted")
<1>0. intent \in [Flows -> Intent] /\ HasJob /\ HandlerKnows
  BY DEF Base, TypeOK, ControlInv
<1>1. CASE intent' = intent
  BY <1>1 DEF Open
<1>2. CASE intent' = ExpireStale(intent)
  <2>1. \/ intent'[f] = intent[f]
        \/ intent[f].status = "prepared" /\ intent'[f].status = "expired"
    BY <1>0, <1>2 DEF ExpireStale, Intent
  <2> QED  BY <2>1 DEF Open
<1>3. ASSUME NEW g \in Flows, NEW s \in FlowStatus,
             intent' = [intent EXCEPT ![g].status = s],
             Open(g), s = "submitted" => intent[g].status = "prepared",
             s # "prepared",
             tx[g] = "landed" => intent[g].status # "submitted" /\ s # "submitted"
      PROVE  Goal
  <2>1. CASE f = g
    <3>1. /\ intent'[f].status = s /\ intent'[f].kind = intent[f].kind
          /\ intent'[f].shares = intent[f].shares
      BY <1>0, <1>3, <2>1 DEF Intent
    <3> QED  BY <1>3, <2>1, <3>1 DEF Open
  <2>2. CASE f # g
    <3>1. intent'[f] = intent[f]
      BY <1>0, <1>3, <2>2
    <3> QED  BY <3>1 DEF Open
  <2> QED  BY <2>1, <2>2
<1>4. ASSUME NEW g \in Flows, Lapse(g) PROVE Goal
  <2>1. /\ intent'[f].status = intent[f].status /\ intent'[f].kind = intent[f].kind
        /\ intent'[f].shares = intent[f].shares
    BY <1>0, <1>4 DEF Lapse, Intent
  <2> QED  BY <2>1 DEF Open
<1>5. ASSUME NEW g \in Flows, NEW w \in Workers, Submit(w, g) PROVE Goal
  <2>1. intent[g].status = "prepared" /\ tx[g] # "landed"
    BY <1>5, OpenLanded DEF Submit
  <2> QED  BY <1>3, <1>5, <2>1 DEF Submit, FlowStatus, Open
<1>6. ASSUME NEW g \in Flows, Expire(g) PROVE Goal
  <2>1. intent[g].status = "prepared" /\ tx[g] # "landed"
    BY <1>6, OpenLanded DEF Expire
  <2> QED  BY <1>3, <1>6, <2>1 DEF Expire, FlowStatus, Terminal, Open
<1>7. ASSUME NEW w \in Workers, Step(w) PROVE Goal
  <2>1. CASE WriteOff(w)
    <3>1. job[w] \in Flows /\ tx[job[w]] # "landed"
      BY <1>0, <2>1 DEF WriteOff, HasJob, HandlerKnows, Reconciling, OnChain
    <3>2. CASE StillSubmitted(job[w])
      BY <1>3, <2>1, <3>1, <3>2
      DEF WriteOff, StillSubmitted, FlowStatus, Terminal, Open
    <3>3. CASE ~StillSubmitted(job[w])
      BY <1>1, <2>1, <3>3 DEF WriteOff
    <3> QED  BY <3>2, <3>3
  <2>2. CASE FinalizeReverted(w)
    <3>1. job[w] \in Flows /\ tx[job[w]] # "landed"
      BY <1>0, <2>2 DEF FinalizeReverted, HasJob
    <3> QED
      BY <1>3, <2>2, <3>1
      DEF FinalizeReverted, StillSubmitted, FlowStatus, Terminal, Open
  <2>3. CASE ~(WriteOff(w) \/ FinalizeReverted(w))
    <3>1. intent' = intent
      BY <1>7, <2>3 DEF MovingStep, Step, Simulate, Send, Wait, Confirm, Lookup,
           CheckHeight, FinalLookup, Resend, FinalizeLate, Continue, Abandon
    <3> QED  BY <1>1, <3>1
  <2> QED  BY <2>1, <2>2, <2>3
<1>8. \/ intent' = intent \/ intent' = ExpireStale(intent)
      \/ \E g \in Flows : Lapse(g) \/ Expire(g)
      \/ \E g \in Flows, w \in Workers : Submit(w, g)
      \/ \E w \in Workers : Step(w)
  BY DEF Next, vars, MovingStep, RefusePrepare, RequestApproval, DecideApproval,
         Status, Crash, Revert, Block, LapseApproval, Register
<1> HIDE DEF Goal
<1>9. Goal
  BY <1>1, <1>2, <1>4, <1>5, <1>6, <1>7, <1>8 DEF Goal
<1> QED  BY <1>9 DEF Goal

\* No other step changes the shares or the basis of the row.
LEMMA RowQuiet ==
    ASSUME Base, [Next]_vars, ~MovingStep
    PROVE  /\ position'.shares = position.shares
           /\ position'.basis = position.basis
           /\ position'.version >= position.version
<1> USE DEF ledgerVars, chainVars, txVars, handlerVars
<1>1. position \in Position /\ position.version \in Nat
  BY DEF Base, TypeOK, Position
<1>2. CASE position' = position
  BY <1>1, <1>2
<1>3. ASSUME NEW w \in Workers, FinalizeReverted(w)
      PROVE  /\ position'.shares = position.shares
             /\ position'.basis = position.basis
             /\ position'.version >= position.version
  BY <1>1, <1>3 DEF FinalizeReverted, ChargeFee, Position
<1>4. ASSUME NEW f \in Flows, RefusePrepare(f)
      PROVE  /\ position'.shares = position.shares
             /\ position'.basis = position.basis
             /\ position'.version >= position.version
  <2>1. \/ position' = position
        \/ position' = [position EXCEPT !.status = "needs_baseline_reset",
                                        !.version = @ + 1]
    BY <1>4 DEF RefusePrepare
  <2>2. CASE position' = [position EXCEPT !.status = "needs_baseline_reset",
                                          !.version = @ + 1]
    <3>1. /\ position'.shares = position.shares
          /\ position'.basis = position.basis
          /\ position'.version = position.version + 1
      BY <1>1, <2>2 DEF Position
    <3> QED  BY <1>1, <3>1
  <2> QED  BY <1>2, <2>1, <2>2
<1>5. CASE Register
  <2>1. PICK r, t : position' = [position EXCEPT !.ready = r, !.status = t,
                                                 !.version = @ + 1]
    BY <1>5 DEF Register
  <2>2. /\ position'.shares = position.shares
        /\ position'.basis = position.basis
        /\ position'.version = position.version + 1
    BY <1>1, <2>1 DEF Position
  <2> QED  BY <1>1, <2>2
<1>6. ASSUME NEW w \in Workers, Step(w), ~FinalizeReverted(w)
      PROVE  position' = position
  BY <1>6 DEF MovingStep, Step, Simulate, Send, Wait, Confirm, Lookup,
       CheckHeight, FinalLookup, Resend, WriteOff, FinalizeLate, Continue, Abandon
<1>7. \/ position' = position
      \/ \E w \in Workers : FinalizeReverted(w)
      \/ \E f \in Flows : RefusePrepare(f)
      \/ Register
  BY <1>6 DEF Next, vars, MovingStep, Expire, RequestApproval, DecideApproval,
       Submit, Status, Crash, Revert, Block, Lapse, LapseApproval
<1> QED  BY <1>2, <1>3, <1>4, <1>5, <1>7

\* A handler that ends keeps no snapshot, and leaves the others theirs.
LEMMA DoneKeeps ==
    ASSUME TypeOK, NEW w \in Workers, Done(w), NEW v \in Workers
    PROVE  SnapKept(v) /\ (v = w => pc'[v] = "idle")
  BY DEF Done, SnapKept, TypeOK, Syncing

\* No other step advances a sync.
LEMMA SnapQuiet ==
    ASSUME Base, [Next]_vars, ~MovingStep, NEW v \in Workers
    PROVE  SnapKept(v)
<1> USE DEF ledgerVars, chainVars, txVars, handlerVars
<1>1. TypeOK
  BY DEF Base
<1>2. CASE UNCHANGED <<pc, snap>>
  BY <1>2 DEF SnapKept
<1>3. ASSUME NEW w \in Workers, NEW l \in PCs \ Syncing, Goto(w, l), snap' = snap
      PROVE  SnapKept(v)
  BY <1>1, <1>3 DEF Goto, SnapKept, TypeOK
<1>4. ASSUME NEW w \in Workers, Step(w) \/ Crash(w)
      PROVE  SnapKept(v)
  <2>1. \/ Done(w)
        \/ \E l \in PCs \ Syncing : Goto(w, l) /\ snap' = snap
    BY <1>4 DEF MovingStep, Step, Simulate, Send, Wait, Confirm, Lookup,
         CheckHeight, FinalLookup, Resend, WriteOff, FinalizeLate,
         FinalizeReverted, Continue, Abandon, Crash, PCs, Reconciling, Sending,
         Syncing
  <2> QED  BY <1>1, <1>3, <2>1, DoneKeeps
<1>5. ASSUME NEW w \in Workers, NEW f \in Flows, Submit(w, f) \/ Status(w, f)
      PROVE  SnapKept(v)
  <2>1. \E l \in PCs \ Syncing : Goto(w, l) /\ snap' = snap
    BY <1>5 DEF Submit, Status, PCs, Reconciling, Sending, Syncing
  <2> QED  BY <1>3, <2>1
<1>6. \/ UNCHANGED <<pc, snap>>
      \/ \E w \in Workers : Step(w) \/ Crash(w)
      \/ \E w \in Workers, f \in Flows : Submit(w, f) \/ Status(w, f)
  BY DEF Next, vars, MovingStep, RefusePrepare, Expire, RequestApproval,
         DecideApproval, Revert, Block, Lapse, LapseApproval, Register
<1> QED  BY <1>2, <1>4, <1>5, <1>6

\* So every other step keeps the invariant.
LEMMA QuietStep ==
    ASSUME Base, TypeOK', MoneyInv, [Next]_vars, ~MovingStep
    PROVE  MoneyInv'
<1>1. Frame
  BY ChainQuiet, RowQuiet, IntentQuiet DEF Frame, AccountsKept, Awaited
<1>2. BookInv'
  BY <1>1, FrameBook DEF MoneyInv
<1>3. Unbooked' = Unbooked
  BY <1>1 DEF Unbooked, Frame
<1>4. SyncInv'
  BY <1>1, <1>3, SnapQuiet, FrameSync DEF MoneyInv, SyncInv, Base, Frame
<1> QED  BY <1>2, <1>4 DEF MoneyInv

-----------------------------------------------------------------------------
(* Prepare and the chain.                                                   *)

\* The headroom of a realize (config.realizeOverheadRawUsdc) is worth a share
\* at every rate.
OverheadCoversShare == MaxRate <= RateScale * RealizeOverhead + 1

\* The accounts when nothing awaits a receipt and the shares match.
LEMMA MatchedBasis ==
    ASSUME TypeOK, BookInv, ~Unbooked, SharesMatch
    PROVE  principal <= position.basis
<1>1. chainShares - position.shares = 0 /\ chainShares >= position.shares
  BY Numbers DEF SharesMatch
<1>2. principal <= position.basis + AddedCost(0, rate)
  BY <1>1 DEF BookInv, BasisCovers
<1> QED  BY <1>2, Numbers, NothingCosts

\* A realize is prepared only if it leaves the principal: the budget accepts
\* the gross amount and its headroom pays for rounding the shares up.
LEMMA RealizeAllowed ==
    ASSUME OverheadCoversShare, TypeOK, BookInv, ~Unbooked, SharesMatch,
           NEW amount \in Nat \ {0}, AmountAllowed("yield_realize", amount)
    PROVE  LET n == RequestedShares("yield_realize", amount)
           IN  /\ n <= chainShares
               /\ principal <= ComputePositionValue(chainShares - n, rate)
<1> DEFINE t == amount + YieldRounding
           g == GrossWithdraw("yield_realize", amount)
           c == SharesToRedeem(g, rate)
<1>1. g \in Nat
  <2>1. t \in Nat /\ PenaltyBps \in Nat /\ PenaltyLamports \in Nat
        /\ PenaltyBps < FullBps
    BY FlowAssumption
  <2>2. GrossWithdrawForNetTarget(t, PenaltyBps, PenaltyLamports) \in Nat
    BY <2>1, GrossWithdrawIsFloor
  <2> QED  BY <2>2 DEF GrossWithdraw
<1>2. BudgetPosition \in BudgetPositions
  BY Numbers, FlowAssumption DEF BudgetPosition, BudgetPositions
<1>3. EvaluatePaymentBudget(BudgetPosition, g, RealizeOverhead, 0) = "ok"
  BY DEF AmountAllowed
<1>4. /\ BudgetPosition.rate = rate /\ BudgetPosition.shares = chainShares
      /\ BudgetPosition.basis = position.basis /\ BudgetPosition.buffer = Buffer
      /\ BudgetPosition.reserved = 0 /\ BudgetPosition.feeDebt = position.feeDebt
  BY DEF BudgetPosition
<1>5. rate <= RateScale * RealizeOverhead + 1
  <2>1. RateScale * RealizeOverhead \in Nat /\ MaxRate \in Nat
    BY RateScaleAssumption, FlowAssumption
  <2> QED  BY <2>1, Numbers DEF OverheadCoversShare, BookInv, RateBounded
<1> HIDE DEF g
<1>6. /\ c \in 0 .. chainShares
      /\ position.basis + Buffer + 0 + position.feeDebt
           <= ComputePositionValue(chainShares - c, rate)
  <2>1. RealizeOverhead \in Nat /\ 0 \in Nat
    BY FlowAssumption
  <2>2. BudgetPosition.rate <= RateScale * RealizeOverhead + 1
    BY <1>4, <1>5
  <2>3. /\ SharesToRedeem(g, BudgetPosition.rate) \in 0 .. BudgetPosition.shares
        /\ BudgetPosition.basis + BudgetPosition.buffer + BudgetPosition.reserved
             + BudgetPosition.feeDebt
             <= ComputePositionValue(
                  BudgetPosition.shares - SharesToRedeem(g, BudgetPosition.rate),
                  BudgetPosition.rate)
    BY <1>1, <1>2, <1>3, <2>1, <2>2, AcceptedBudgetKeepsPrincipal
  <2> QED  BY <1>4, <2>3
<1>7. RequestedShares("yield_realize", amount) = c
  <2>1. RequestedShares("yield_realize", amount) = MinBigInt(c, chainShares)
    BY DEF RequestedShares, g
  <2>2. c \in Int /\ c <= chainShares
    BY <1>6, Numbers
  <2> QED  BY <2>1, <2>2 DEF MinBigInt
<1> HIDE DEF c
<1>8. ComputePositionValue(chainShares - c, rate) \in Nat
  <2>1. chainShares - c \in Nat /\ rate \in Nat
    BY <1>6, Numbers
  <2> QED  BY <2>1, ValueBounds
<1>9. principal <= ComputePositionValue(chainShares - c, rate)
  <2>1. principal <= position.basis
    BY MatchedBasis
  <2>2. Buffer \in Nat
    BY FlowAssumption
  <2> QED  BY <1>6, <1>8, <2>1, <2>2, Numbers
<1>10. c <= chainShares
  BY <1>6, Numbers
<1> QED  BY <1>7, <1>9, <1>10

\* Prepare keeps the invariant.
LEMMA PrepareStep ==
    ASSUME OverheadCoversShare, Base, TypeOK', MoneyInv, NEW f \in Flows, Prepare(f)
    PROVE  MoneyInv'
<1> USE DEF ledgerVars, chainVars, txVars, handlerVars
<1>1. PICK r \in Requests :
        /\ AmountAllowed(r.kind, r.amount)
        /\ \E a : intent' = [ExpireStale(intent) EXCEPT ![f] =
                               [status |-> "prepared", kind |-> r.kind,
                                amount |-> r.amount,
                                shares |-> RequestedShares(r.kind, r.amount),
                                approval |-> a, lapsed |-> FALSE]]
  BY DEF Prepare
<1>2. /\ UNCHANGED <<position, tx, chainShares, rate, delta, principal, pc, snap>>
      /\ SharesMatch /\ PendingFlows = {}
  BY DEF Prepare, MayPrepare
<1>3. TypeOK /\ BookInv /\ SyncInv /\ intent \in [Flows -> Intent]
  BY DEF Base, MoneyInv, TypeOK
<1>4. /\ intent'[f].status = "prepared" /\ intent'[f].kind = r.kind
      /\ intent'[f].shares = RequestedShares(r.kind, r.amount)
  BY <1>1, <1>3, ExpireStaleType
<1>5. \A g \in Flows \ {f} : intent'[g] = ExpireStale(intent)[g]
  BY <1>1, <1>3, ExpireStaleType
<1>6. \A g \in Flows : intent[g].status # "submitted"
  BY <1>2 DEF PendingFlows, Pending
<1>7. \A g \in Flows \ {f} : ~Open(g)'
  BY <1>2, <1>3, <1>5 DEF PendingFlows, Pending, ExpireStale, Open, Intent
<1>8. ~Unbooked /\ ~Unbooked' /\ \A g \in Flows : ~Awaited(g)'
  BY <1>4, <1>6, <1>7 DEF Unbooked, Awaited, Open
<1>9. RealizeFits'
  <2> SUFFICES ASSUME r.kind = "yield_realize"
               PROVE  /\ intent'[f].shares <= chainShares
                      /\ principal <= ComputePositionValue(
                                        chainShares - intent'[f].shares, rate)
    BY <1>2, <1>4, <1>7 DEF RealizeFits
  <2>1. r.amount \in Nat \ {0}
    BY FlowAssumption
  <2> QED  BY <1>1, <1>2, <1>3, <1>4, <1>8, <2>1, RealizeAllowed
<1>10. OpenUnique' /\ OpenMatches' /\ BasisCovers' /\ ReceiptCovers'
  BY <1>2, <1>3, <1>7, <1>8 DEF OpenUnique, OpenMatches, BasisCovers,
     ReceiptCovers, BookInv, SharesMatch
<1>11. RateBounded' /\ PrincipalNeverSpent'
  BY <1>2, <1>3 DEF BookInv, RateBounded, PrincipalNeverSpent, ChainValue
<1>12. SyncInv'
  <2>1. AccountsKept
    BY <1>2, <1>3, Numbers DEF AccountsKept
  <2>2. \A w \in Workers : SnapKept(w)
    BY <1>2 DEF SnapKept
  <2>3. Unbooked' = Unbooked
    BY <1>8 DEF Unbooked
  <2> QED  BY <1>3, <2>1, <2>2, <2>3, FrameSync DEF SyncInv
<1> QED  BY <1>9, <1>10, <1>11, <1>12 DEF MoneyInv, BookInv

\* A flow lands on shares that the row shows, and nothing else awaits.
LEMMA LandsAlone ==
    ASSUME Base, BookInv, NEW f \in Flows, Land(f)
    PROVE  /\ intent[f].status = "submitted" /\ ~OnChain(f) /\ ~Unbooked
           /\ SharesMatch /\ principal <= position.basis
           /\ \A g \in Flows : Open(g) => g = f
<1>1. tx[f] = "wire" /\ window[f] = "open"
  BY DEF Land, Include
<1>2. intent[f].status = "submitted" /\ ~OnChain(f)
  BY <1>1, OpenLanded DEF OnChain
<1>3. \A g \in Flows : Open(g) => g = f
  BY <1>2 DEF BookInv, OpenUnique, Open
<1>4. ~Unbooked
  BY <1>1, <1>3 DEF Unbooked, Awaited, Open
<1>5. SharesMatch
  BY <1>2, <1>4 DEF BookInv, OpenMatches, Open
<1> QED  BY <1>2, <1>3, <1>4, <1>5, MatchedBasis DEF Base

\* Landing keeps the principal in the vault, and the receipt will cover it.
LEMMA LandAccounts ==
    ASSUME Base, TypeOK', BookInv, NEW f \in Flows, Land(f)
    PROVE  /\ principal' <= ComputePositionValue(chainShares', rate)
           /\ principal' <= position.basis
                 + (IF intent[f].kind = "deposit" THEN delta'[f] ELSE 0)
           /\ intent[f].kind # "deposit" =>
                 chainShares' + intent[f].shares = position.shares
<1> DEFINE i == intent[f]
           v == ComputePositionValue(chainShares, rate)
<1>1. TypeOK /\ chainShares \in Nat /\ rate \in Nat /\ rate > 0 /\ principal \in Nat
      /\ position.basis \in Nat /\ position.shares \in Nat
      /\ i.shares \in Nat /\ i.amount \in Nat /\ i.kind \in Kinds
  BY Numbers DEF Base, TypeOK, Intent
<1>2. /\ SharesMatch /\ principal <= position.basis
      /\ intent[f].status = "submitted" /\ ~OnChain(f)
  BY LandsAlone
<1>3. principal <= v /\ v \in Nat
  BY <1>1, ValueBounds DEF BookInv, PrincipalNeverSpent, ChainValue
<1>4. CASE i.kind = "deposit"
  <2> DEFINE m == MintedShares(i.amount)
             u == ComputePositionValue(m, rate)
             c == AddedCost(m, rate)
  <2>1. m \in Nat
    BY <1>1, RateScaleAssumption, DivNat DEF MintedShares, MulDivFloor
  <2>2. /\ chainShares' = chainShares + m
        /\ principal' = principal + u
        /\ delta' = [delta EXCEPT ![f] = c]
    BY <1>4 DEF Land, AddedCost
  <2>3. delta'[f] = c
    BY <2>2 DEF Base, TypeOK
  <2> HIDE DEF m
  <2>4. u \in Nat /\ c \in Nat /\ u <= c
    BY <1>1, <2>1, ValueBounds, CostBounds, CostCoversValue
  <2>5. v + u <= ComputePositionValue(chainShares + m, rate)
    BY <1>1, <2>1, ValueSplit
  <2>6. ComputePositionValue(chainShares + m, rate) \in Nat
    <3>1. chainShares + m \in Nat
      BY <1>1, <2>1
    <3> QED  BY <1>1, <3>1, ValueBounds
  <2> HIDE DEF u, c, v
  <2> QED  BY <1>1, <1>2, <1>3, <1>4, <2>2, <2>3, <2>4, <2>5, <2>6
<1>5. CASE i.kind = "normal"
  <2>1. /\ i.shares <= chainShares /\ chainShares' = chainShares - i.shares
        /\ principal' = MinBigInt(principal,
                           ComputePositionValue(chainShares - i.shares, rate))
    BY <1>5 DEF Land
  <2>2. ComputePositionValue(chainShares - i.shares, rate) \in Nat
    <3>1. chainShares - i.shares \in Nat
      BY <1>1, <2>1
    <3> QED  BY <1>1, <3>1, ValueBounds
  <2>3. /\ principal' <= ComputePositionValue(chainShares - i.shares, rate)
        /\ principal' <= principal /\ principal' \in Nat
    BY <1>1, <2>1, <2>2 DEF MinBigInt
  <2> QED  BY <1>1, <1>2, <1>5, <2>1, <2>3 DEF SharesMatch
<1>6. CASE i.kind = "yield_realize"
  <2>1. /\ i.shares <= chainShares /\ chainShares' = chainShares - i.shares
        /\ principal' = principal
    BY <1>6 DEF Land
  <2>2. principal <= ComputePositionValue(chainShares - i.shares, rate)
    BY <1>2, <1>6 DEF BookInv, RealizeFits, Open
  <2> QED  BY <1>1, <1>2, <1>6, <2>1, <2>2 DEF SharesMatch
<1> QED  BY <1>1, <1>4, <1>5, <1>6 DEF Kinds

\* Landing keeps the invariant.
LEMMA LandStep ==
    ASSUME Base, TypeOK', MoneyInv, NEW f \in Flows, Land(f)
    PROVE  MoneyInv'
<1> USE DEF ledgerVars, chainVars, txVars, handlerVars
<1>1. BookInv /\ SyncInv /\ tx \in [Flows -> TxStates]
  BY DEF MoneyInv, Base, TypeOK, TxTypeOK, Flows
<1>2. /\ UNCHANGED <<position, intent, rate, pc, snap>>
      /\ tx' = [tx EXCEPT ![f] = "landed"]
  BY DEF Land, Include
<1>3. /\ intent[f].status = "submitted"
      /\ \A g \in Flows : Open(g) => g = f
  BY <1>1, LandsAlone
<1>4. /\ tx'[f] = "landed"
      /\ \A g \in Flows : Open(g)' => g = f
      /\ \A g \in Flows : Awaited(g)' => g = f
  BY <1>1, <1>2, <1>3 DEF Open, Awaited
<1>5. Unbooked'
  BY <1>2, <1>3, <1>4 DEF Unbooked, Awaited
<1>6. RateBounded' /\ OpenUnique' /\ OpenMatches' /\ BasisCovers'
  BY <1>1, <1>2, <1>4, <1>5 DEF BookInv, RateBounded, OpenUnique, OpenMatches,
     BasisCovers
<1>7. RealizeFits'
  BY <1>4 DEF RealizeFits, OnChain
<1>8. ReceiptCovers' /\ PrincipalNeverSpent'
  BY <1>1, <1>2, <1>4, LandAccounts DEF ReceiptCovers, PrincipalNeverSpent, ChainValue
<1>9. SyncInv'
  BY <1>1, <1>2, <1>5 DEF SyncInv, RowRead, SnapshotCovers
<1> QED  BY <1>6, <1>7, <1>8, <1>9 DEF MoneyInv, BookInv

\* The rate rises: values and costs grow, the principal does not.
LEMMA AccrueStep ==
    ASSUME Base, TypeOK', MoneyInv, Accrue
    PROVE  MoneyInv'
<1> USE DEF ledgerVars, chainVars, txVars, handlerVars
<1>1. TypeOK /\ BookInv /\ SyncInv
  BY DEF Base, MoneyInv
<1>2. /\ UNCHANGED <<position, intent, tx, chainShares, delta, principal, pc, snap>>
      /\ rate' = rate + 1 /\ rate < MaxRate /\ MaxRate \in Nat
  BY FlowAssumption DEF Accrue
<1>3. /\ rate \in Nat /\ rate' \in Nat /\ rate <= rate'
      /\ chainShares \in Nat /\ principal \in Nat /\ position.shares \in Nat
      /\ position.basis \in Nat
  BY <1>1, <1>2, Numbers
<1>4. /\ Unbooked' = Unbooked
      /\ \A f \in Flows : /\ Open(f)' = Open(f) /\ OnChain(f)' = OnChain(f)
                          /\ Awaited(f)' = Awaited(f)
  BY <1>2 DEF Unbooked, Awaited, Open, OnChain
<1>5. ASSUME NEW n \in Nat, NEW b \in Nat, principal <= b + AddedCost(n, rate)
      PROVE  principal <= b + AddedCost(n, rate')
  <2>1. /\ AddedCost(n, rate) \in Nat /\ AddedCost(n, rate') \in Nat
        /\ AddedCost(n, rate) <= AddedCost(n, rate')
    BY <1>3, CostBounds, CostMonotone
  <2> QED  BY <1>3, <1>5, <2>1
<1>6. ASSUME NEW n \in Nat, principal <= ComputePositionValue(n, rate)
      PROVE  principal <= ComputePositionValue(n, rate')
  <2>1. /\ ComputePositionValue(n, rate) \in Nat
        /\ ComputePositionValue(n, rate') \in Nat
        /\ ComputePositionValue(n, rate) <= ComputePositionValue(n, rate')
    BY <1>3, ValueBounds, ValueMonotone
  <2> QED  BY <1>3, <1>6, <2>1
<1>7. RateBounded' /\ OpenUnique' /\ OpenMatches' /\ ReceiptCovers'
  BY <1>1, <1>2, <1>3, <1>4 DEF BookInv, RateBounded, OpenUnique, OpenMatches,
     ReceiptCovers, SharesMatch
<1>8. PrincipalNeverSpent'
  BY <1>1, <1>2, <1>3, <1>6 DEF BookInv, PrincipalNeverSpent, ChainValue
<1>9. BasisCovers'
  <2> SUFFICES ASSUME ~Unbooked', chainShares' >= position'.shares
               PROVE  principal' <= position'.basis
                        + AddedCost(chainShares' - position'.shares, rate')
    BY DEF BasisCovers
  <2>1. chainShares - position.shares \in Nat
    BY <1>2, <1>3
  <2>2. principal <= position.basis + AddedCost(chainShares - position.shares, rate)
    BY <1>1, <1>2, <1>4 DEF BookInv, BasisCovers
  <2> QED  BY <1>2, <1>3, <1>5, <2>1, <2>2
<1>10. RealizeFits'
  <2> SUFFICES ASSUME NEW f \in Flows, Open(f), ~OnChain(f),
                      intent[f].kind = "yield_realize"
               PROVE  /\ intent[f].shares <= chainShares
                      /\ principal <= ComputePositionValue(
                                        chainShares - intent[f].shares, rate')
    BY <1>2, <1>4 DEF RealizeFits
  <2>1. /\ intent[f].shares <= chainShares
        /\ principal <= ComputePositionValue(chainShares - intent[f].shares, rate)
    BY <1>1 DEF BookInv, RealizeFits
  <2>2. chainShares - intent[f].shares \in Nat
    BY <1>1, <1>3, <2>1, Numbers
  <2> QED  BY <1>6, <2>1, <2>2
<1>11. SyncInv'
  <2> SUFFICES ASSUME NEW w \in Workers PROVE RowRead(w)' /\ SnapshotCovers(w)'
    BY DEF SyncInv
  <2>1. RowRead(w) /\ SnapshotCovers(w)
    BY <1>1 DEF SyncInv
  <2>2. RowRead(w)'
    BY <1>2, <2>1 DEF RowRead
  <2>3. SnapshotCovers(w)'
    <3> DEFINE s == snap[w]
    <3> SUFFICES ASSUME pc[w] = "sync_apply", s.version = position.version,
                        ~Unbooked, chainShares >= s.shares
                 PROVE  principal <= ComputePositionValue(s.shares, s.rate)
                                  + AddedCost(chainShares - s.shares, rate')
      BY <1>2, <1>4, <2>1 DEF SnapshotCovers
    <3>1. s.shares \in Nat /\ s.rate \in Nat
      BY <1>1, Numbers DEF Snapshot
    <3>2. ComputePositionValue(s.shares, s.rate) \in Nat
      BY <3>1, ValueBounds
    <3>3. chainShares - s.shares \in Nat
      BY <1>3, <3>1
    <3>4. principal <= ComputePositionValue(s.shares, s.rate)
                         + AddedCost(chainShares - s.shares, rate)
      BY <2>1 DEF SnapshotCovers
    <3> QED  BY <1>5, <3>2, <3>3, <3>4
  <2> QED  BY <2>2, <2>3
<1> QED  BY <1>7, <1>8, <1>9, <1>10, <1>11 DEF MoneyInv, BookInv

\* Shares move without the relayer while the row shows those on chain.
LEMMA MoveStep ==
    ASSUME MovesInFlight = FALSE, Base, TypeOK', MoneyInv, NEW d \in Moves,
           ExternalMove(d), SharesMatch
    PROVE  MoneyInv'
<1> USE DEF ledgerVars, chainVars, txVars, handlerVars
<1> DEFINE v == ComputePositionValue(chainShares, rate)
           u == ComputePositionValue(chainShares + d, rate)
<1>1. TypeOK /\ BookInv /\ SyncInv /\ d \in Int
  BY FlowAssumption DEF Base, MoneyInv
<1>2. /\ UNCHANGED <<position, intent, tx, rate, delta, pc, snap>>
      /\ chainShares' = chainShares + d /\ chainShares + d >= 0
      /\ principal' = IF d >= 0 THEN principal + ComputePositionValue(d, rate)
                      ELSE MinBigInt(principal, u)
      /\ \A f \in Flows : ~Open(f)
  BY DEF ExternalMove, Open
<1>3. /\ rate \in Nat /\ chainShares \in Nat /\ principal \in Nat
      /\ position.shares = chainShares /\ position.basis \in Nat
      /\ chainShares + d \in Nat
  BY <1>1, <1>2, Numbers DEF SharesMatch
<1>4. /\ \A f \in Flows : ~Open(f)' /\ ~Awaited(f)'
      /\ ~Unbooked /\ ~Unbooked'
  BY <1>2 DEF Unbooked, Awaited, Open
<1>5. principal <= v /\ v \in Nat /\ u \in Nat
  BY <1>1, <1>3, ValueBounds DEF BookInv, PrincipalNeverSpent, ChainValue
<1>6. principal <= position.basis
  BY <1>1, <1>4, MatchedBasis
<1> HIDE DEF v, u
\* What arrives raises the principal by its value, which its cost covers.
<1>7. ASSUME d >= 0
      PROVE  /\ principal' <= u
             /\ \A b \in Nat : principal <= b => principal' <= b + AddedCost(d, rate)
  <2>1. d \in Nat
    BY <1>1, <1>7
  <2>2. v + ComputePositionValue(d, rate) <= u
    BY <1>3, <2>1, ValueSplit DEF v, u
  <2>3. /\ ComputePositionValue(d, rate) \in Nat /\ AddedCost(d, rate) \in Nat
        /\ ComputePositionValue(d, rate) <= AddedCost(d, rate)
    BY <1>3, <2>1, ValueBounds, CostBounds, CostCoversValue
  <2>4. principal' = principal + ComputePositionValue(d, rate)
    BY <1>2, <1>7
  <2> QED  BY <1>3, <1>5, <2>2, <2>3, <2>4
<1>8. principal' <= u
  BY <1>2, <1>3, <1>5, <1>7 DEF MinBigInt
<1>9. PrincipalNeverSpent'
  BY <1>2, <1>8 DEF PrincipalNeverSpent, ChainValue, u
<1>10. RateBounded' /\ OpenUnique' /\ OpenMatches' /\ ReceiptCovers' /\ RealizeFits'
  BY <1>1, <1>2, <1>4 DEF BookInv, RateBounded, OpenUnique, OpenMatches,
     ReceiptCovers, RealizeFits
<1>11. BasisCovers'
  <2> SUFFICES ASSUME chainShares' >= position'.shares
               PROVE  principal' <= position'.basis
                        + AddedCost(chainShares' - position'.shares, rate')
    BY DEF BasisCovers
  <2>1. chainShares' - position'.shares = d /\ d >= 0
    BY <1>1, <1>2, <1>3
  <2> QED  BY <1>2, <1>3, <1>6, <1>7, <2>1
<1>12. SyncInv'
  <2> SUFFICES ASSUME NEW w \in Workers PROVE RowRead(w)' /\ SnapshotCovers(w)'
    BY DEF SyncInv
  <2>1. RowRead(w) /\ SnapshotCovers(w)
    BY <1>1 DEF SyncInv
  <2>2. RowRead(w)'
    BY <1>2, <2>1 DEF RowRead
  <2>3. SnapshotCovers(w)'
    <3> DEFINE s == snap[w]
    <3> SUFFICES ASSUME pc[w] = "sync_apply", s.version = position.version
                 PROVE  /\ s.shares = position.shares
                        /\ chainShares' >= s.shares =>
                             principal' <= ComputePositionValue(s.shares, s.rate)
                               + AddedCost(chainShares' - s.shares, rate)
                        /\ s.cost = NoCost /\ s.shares = s.ledgerShares
      <4>1. UNCHANGED <<position, rate, pc, snap>>
        BY <1>2
      <4> QED  BY <4>1 DEF SnapshotCovers
    <3>1. s.shares \in Nat /\ s.rate \in Nat /\ s.ledgerShares \in Nat
      BY <1>1, Numbers DEF Snapshot
    <3>2. s.shares = position.shares
      BY <1>3, <1>4, <2>1 DEF SnapshotCovers
    <3>3. s.ledgerShares = position.shares
      BY <2>1 DEF RowRead, Syncing
    <3>4. s.cost = NoCost
      BY <1>4, <2>1, <3>1, <3>2, <3>3 DEF SnapshotCovers
    <3>5. ComputePositionValue(s.shares, s.rate) \in Nat
      BY <3>1, ValueBounds
    <3>6. principal <= ComputePositionValue(s.shares, s.rate)
      <4>1. chainShares >= s.shares /\ chainShares - s.shares = 0
        BY <1>3, <3>2
      <4>2. principal <= ComputePositionValue(s.shares, s.rate) + AddedCost(0, rate)
        BY <1>4, <2>1, <4>1 DEF SnapshotCovers
      <4> QED  BY <1>3, <3>5, <4>2, NothingCosts
    <3>7. ASSUME chainShares' >= s.shares
          PROVE  principal' <= ComputePositionValue(s.shares, s.rate)
                               + AddedCost(chainShares' - s.shares, rate)
      <4>1. chainShares' - s.shares = d /\ d >= 0
        BY <1>1, <1>2, <1>3, <3>2, <3>7
      <4> QED  BY <1>7, <3>5, <3>6, <4>1
    <3> QED  BY <3>2, <3>3, <3>4, <3>7
  <2> QED  BY <2>2, <2>3
<1> QED  BY <1>9, <1>10, <1>11, <1>12 DEF MoneyInv, BookInv

-----------------------------------------------------------------------------
(* Finalizations and syncs.                                                 *)

\* A new version of the row makes every snapshot stale.
LEMMA StaleSnapshots ==
    ASSUME TypeOK, TypeOK', SyncInv, position'.version > position.version,
           NEW w \in Workers, SnapKept(w), pc'[w] \in Syncing
    PROVE  /\ snap'[w].version <= position'.version
           /\ snap'[w].version # position'.version
<1>1. snap'[w] = snap[w] /\ pc[w] \in Syncing
  BY DEF SnapKept
<1>2. snap[w].version <= position.version
  BY <1>1 DEF SyncInv, RowRead
<1>3. snap[w].version \in Nat /\ position.version \in Nat /\ position'.version \in Nat
  BY DEF TypeOK, Snapshot, Position
<1> QED  BY <1>1, <1>2, <1>3

\* So nothing is left to know of them.
LEMMA NewVersion ==
    ASSUME TypeOK, TypeOK', SyncInv, position'.version > position.version,
           \A w \in Workers : SnapKept(w)
    PROVE  SyncInv'
<1> SUFFICES ASSUME NEW w \in Workers PROVE RowRead(w)' /\ SnapshotCovers(w)'
  BY DEF SyncInv
<1>1. CASE pc'[w] \notin Syncing
  BY <1>1 DEF RowRead, SnapshotCovers, Syncing
<1>2. CASE pc'[w] \in Syncing
  BY <1>2, StaleSnapshots DEF RowRead, SnapshotCovers
<1> QED  BY <1>1, <1>2

\* Once the only open flow is closed, the accounts are those of a settled row.
LEMMA ClosedBook ==
    ASSUME TypeOK, TypeOK', BookInv, NEW f \in Flows, Awaited(f),
           UNCHANGED <<chainShares, rate, delta, principal>>,
           \A g \in Flows \ {f} : intent'[g] = intent[g],
           intent'[f].status \in Terminal,
           position'.shares = chainShares, principal <= position'.basis
    PROVE  BookInv'
<1>1. \A g \in Flows : ~Open(g)'
  BY DEF Awaited, Open, BookInv, OpenUnique, Terminal
<1>2. ~Unbooked' /\ \A g \in Flows : ~Awaited(g)'
  BY <1>1 DEF Unbooked, Awaited, Open
<1>3. RateBounded' /\ PrincipalNeverSpent'
  BY DEF BookInv, RateBounded, PrincipalNeverSpent, ChainValue
<1>4. OpenUnique' /\ OpenMatches' /\ ReceiptCovers' /\ RealizeFits'
  BY <1>1, <1>2 DEF OpenUnique, OpenMatches, ReceiptCovers, RealizeFits
<1>5. BasisCovers'
  <2>1. chainShares' - position'.shares = 0
    BY Numbers
  <2>2. AddedCost(0, rate') = 0
    BY Numbers, NothingCosts
  <2>3. position'.basis \in Nat /\ principal \in Nat
    BY DEF TypeOK, Position
  <2> QED  BY <2>1, <2>2, <2>3 DEF BasisCovers
<1> QED  BY <1>3, <1>4, <1>5 DEF BookInv

\* What a booked receipt writes into the row.
LEMMA ReceiptBooked ==
    ASSUME TypeOK, NEW w \in Workers, FinalizeReceipt(w)
    PROVE  /\ position'.shares = chainShares
           /\ position'.basis = BasisAfter(job[w])
           /\ position'.version > position.version
<1> DEFINE booked == [position EXCEPT !.shares = chainShares,
                                      !.basis = BasisAfter(job[w]),
                                      !.established = TRUE,
                                      !.version = @ + 1]
<1>1. PICK charged \in BOOLEAN : position' = ChargeFee(booked, charged)
  BY DEF FinalizeReceipt
<1>2. /\ position \in Position
      /\ booked.shares = chainShares /\ booked.basis = BasisAfter(job[w])
      /\ booked.version = position.version + 1
  BY DEF TypeOK, Position
<1>3. booked.version \in Nat /\ position.version \in Nat
  BY <1>2 DEF Position
<1>4. DOMAIN booked = DOMAIN position
  OBVIOUS
<1>5. {"shares", "basis", "feeDebt", "version"} \subseteq DOMAIN booked
  BY <1>2, <1>4 DEF Position
<1> HIDE DEF booked
<1>6. /\ position'.shares = booked.shares /\ position'.basis = booked.basis
      /\ position'.version \in {booked.version, booked.version + 1}
  BY <1>1, <1>5 DEF ChargeFee
<1> QED  BY <1>2, <1>3, <1>6

\* A booked receipt keeps the invariant: it covers what the flow contributed.
LEMMA ReceiptStep ==
    ASSUME Base, TypeOK', MoneyInv, NEW w \in Workers, FinalizeReceipt(w)
    PROVE  MoneyInv'
<1> USE DEF ledgerVars, chainVars, txVars, handlerVars
<1> DEFINE f == job[w]
<1>1. TypeOK /\ BookInv /\ SyncInv /\ intent \in [Flows -> Intent]
      /\ position \in Position
  BY DEF Base, MoneyInv, TypeOK
<1>2. f \in Flows
  BY DEF FinalizeReceipt, Base, ControlInv, HasJob
<1>3. /\ UNCHANGED <<chainShares, rate, delta, principal>>
      /\ intent' = [intent EXCEPT ![f].status = "confirmed"]
      /\ Done(w) /\ Awaited(f)
  BY DEF FinalizeReceipt, StillSubmitted, Awaited
<1>4. /\ \A g \in Flows \ {f} : intent'[g] = intent[g]
      /\ intent'[f].status \in Terminal
  BY <1>1, <1>2, <1>3 DEF Intent, Terminal
<1>5. /\ position'.shares = chainShares /\ position'.basis = BasisAfter(f)
      /\ position'.version > position.version
  BY <1>1, ReceiptBooked
<1>6. principal <= BasisAfter(f)
  <2>1. /\ principal <= position.basis
             + (IF intent[f].kind = "deposit" THEN delta[f] ELSE 0)
        /\ principal <= ChainValue
    BY <1>1, <1>2, <1>3 DEF BookInv, ReceiptCovers, PrincipalNeverSpent,
       ChainValue
  <2>2. position.basis \in Nat /\ ChainValue \in Nat
    BY <1>1, Numbers, ChainValueType
  <2> QED  BY <2>1, <2>2 DEF BasisAfter, MinBigInt
<1>7. BookInv'
  BY <1>1, <1>2, <1>3, <1>4, <1>5, <1>6, ClosedBook
<1>8. SyncInv'
  BY <1>1, <1>3, <1>5, DoneKeeps, NewVersion
<1> QED  BY <1>7, <1>8 DEF MoneyInv

(***************************************************************************)
(* Every executed operation that moved shares moved USDC: a withdrawal of  *)
(* a few shares whose value the penalty eats up would leave no receipt.    *)
(***************************************************************************)
Receipted ==
    \A f \in Flows : tx[f] = "landed" =>
        delta[f] > 0 \/ (intent[f].kind # "deposit" /\ intent[f].shares = 0)

\* A flow that ends unclassified then moved nothing.
LEMMA UnclassifiedStep ==
    ASSUME ReadsMayFail = FALSE, Receipted, Base, TypeOK', MoneyInv,
           NEW w \in Workers, FinalizeUnclassified(w)
    PROVE  MoneyInv'
<1> USE DEF ledgerVars, chainVars, txVars, handlerVars
<1> DEFINE f == job[w]
<1>1. TypeOK /\ BookInv /\ SyncInv /\ intent \in [Flows -> Intent]
      /\ position \in Position
  BY DEF Base, MoneyInv, TypeOK
<1>2. f \in Flows
  BY DEF FinalizeUnclassified, Base, ControlInv, HasJob
<1>3. /\ UNCHANGED <<chainShares, rate, delta, principal>>
      /\ intent' = [intent EXCEPT ![f].status = "failed"]
      /\ Done(w) /\ Awaited(f) /\ delta[f] = 0
  BY DEF FinalizeUnclassified, StillSubmitted, Awaited
<1>4. /\ \A g \in Flows \ {f} : intent'[g] = intent[g]
      /\ intent'[f].status \in Terminal
  BY <1>1, <1>2, <1>3 DEF Intent, Terminal
<1>5. /\ position'.shares = position.shares /\ position'.basis = position.basis
      /\ position'.version = position.version + 1
  BY <1>1 DEF FinalizeUnclassified, Position
<1>6. intent[f].kind # "deposit" /\ intent[f].shares = 0
  BY <1>2, <1>3 DEF Receipted, Awaited
<1>7. principal <= position.basis /\ position.shares = chainShares
  <2>1. /\ principal <= position.basis + 0
        /\ chainShares + 0 = position.shares
    BY <1>1, <1>2, <1>3, <1>6 DEF BookInv, ReceiptCovers
  <2> QED  BY <1>1, <2>1, Numbers
<1>8. BookInv'
  BY <1>1, <1>2, <1>3, <1>4, <1>5, <1>7, ClosedBook
<1>9. position'.version > position.version
  BY <1>1, <1>5, Numbers
<1>10. SyncInv'
  BY <1>1, <1>3, <1>9, DoneKeeps, NewVersion
<1> QED  BY <1>8, <1>10 DEF MoneyInv

\* A step that leaves the ledger, the chain and the intents alone.
LEMMA IdleFrame ==
    ASSUME TypeOK,
           UNCHANGED <<position, intent, tx, chainShares, rate, delta, principal>>
    PROVE  Frame /\ Unbooked' = Unbooked
  BY Numbers DEF Frame, AccountsKept, Unbooked, Awaited, Open, OnChain

\* A sync that starts copies the row.
LEMMA SyncStartStep ==
    ASSUME Base, TypeOK', MoneyInv, NEW w \in Workers, SyncStart(w)
    PROVE  MoneyInv'
<1> USE DEF ledgerVars, chainVars, txVars, handlerVars
<1>1. TypeOK /\ BookInv /\ SyncInv
  BY DEF Base, MoneyInv
<1>2. UNCHANGED <<position, intent, tx, chainShares, rate, delta, principal>>
  BY DEF SyncStart
<1>3. Frame /\ AccountsKept /\ Unbooked' = Unbooked
  BY <1>1, <1>2, IdleFrame DEF Frame
<1>4. PICK force \in BOOLEAN :
        snap' = [snap EXCEPT ![w] =
                   [NoSnapshot EXCEPT !.version = position.version,
                                      !.force = force,
                                      !.ledgerShares = position.shares,
                                      !.ledgerBasis = position.basis]]
  BY DEF SyncStart
<1>5. /\ pc'[w] = "sync_chain"
      /\ snap'[w].version = position.version
      /\ snap'[w].ledgerShares = position.shares
      /\ snap'[w].ledgerBasis = position.basis
  BY <1>1, <1>4 DEF SyncStart, Goto, TypeOK, NoSnapshot
<1>6. RowRead(w)' /\ SnapshotCovers(w)'
  BY <1>1, <1>2, <1>5, Numbers DEF RowRead, SnapshotCovers
<1>7. ASSUME NEW v \in Workers, v # w PROVE RowRead(v)' /\ SnapshotCovers(v)'
  <2>1. SnapKept(v)
    BY <1>1, <1>4, <1>7 DEF SyncStart, Goto, SnapKept, TypeOK
  <2> QED  BY <1>1, <1>3, <2>1, FrameSync
<1>8. SyncInv'
  BY <1>6, <1>7 DEF SyncInv
<1> QED  BY <1>1, <1>3, <1>8, FrameBook DEF MoneyInv

\* A sync that reads the chain finds shares whose value covers the principal,
\* and asks for a cost that does.
LEMMA SyncChainStep ==
    ASSUME Base, TypeOK', MoneyInv, NEW w \in Workers, SyncChain(w)
    PROVE  MoneyInv'
<1> USE DEF ledgerVars, chainVars, txVars, handlerVars
<1> DEFINE s == snap[w]
           t == snap'[w]
<1>1. TypeOK /\ BookInv /\ SyncInv /\ RowRead(w)
  BY DEF Base, MoneyInv, SyncInv
<1>2. UNCHANGED <<position, intent, tx, chainShares, rate, delta, principal>>
  BY DEF SyncChain
<1>3. Frame /\ AccountsKept /\ Unbooked' = Unbooked
  BY <1>1, <1>2, IdleFrame DEF Frame
<1>4. PICK pnl \in PnlReports : snap' = [snap EXCEPT ![w] = SyncInput(snap[w], pnl)]
  BY DEF SyncChain
<1>5. pc[w] = "sync_chain" /\ pc'[w] = "sync_apply" /\ t = SyncInput(s, pnl)
  BY <1>1, <1>4 DEF SyncChain, Goto, TypeOK
<1> DEFINE added == chainShares - s.ledgerShares
           floor == s.ledgerBasis + MulDivCeil(added, rate, RateScale)
           cost == IF ~s.force /\ added > 0 /\ pnl # NoCost
                     THEN MaxBigInt(pnl, floor) ELSE NoCost
<1>6. /\ t.version = s.version /\ t.shares = chainShares /\ t.rate = rate
      /\ t.force = (s.force \/ (chainShares # s.ledgerShares /\ cost = NoCost))
      /\ t.cost = cost
      /\ t.ledgerShares = s.ledgerShares /\ t.ledgerBasis = s.ledgerBasis
  BY <1>5 DEF SyncInput
<1>7. RowRead(w)'
  BY <1>1, <1>2, <1>5, <1>6 DEF RowRead, Syncing
<1>8. SnapshotCovers(w)'
  <2> SUFFICES ASSUME t.version = position.version, ~Unbooked
               PROVE  /\ chainShares >= t.shares =>
                           principal <= ComputePositionValue(t.shares, t.rate)
                             + AddedCost(chainShares - t.shares, rate)
                      /\ t.cost = NoCost => t.force \/ t.shares = t.ledgerShares
                      /\ t.cost # NoCost => /\ t.shares > t.ledgerShares
                                            /\ principal <= t.cost
    <3>1. t.shares \in {chainShares', position'.shares}
      BY <1>2, <1>6
    <3> QED  BY <1>2, <1>3, <3>1 DEF SnapshotCovers
  <2>1. s.ledgerShares = position.shares /\ s.ledgerBasis = position.basis
    BY <1>1, <1>5, <1>6 DEF RowRead, Syncing
  <2>2. /\ chainShares \in Nat /\ rate \in Nat /\ principal \in Nat
        /\ position.shares \in Nat /\ position.basis \in Nat
    BY <1>1, Numbers
  <2>3. principal <= ComputePositionValue(t.shares, t.rate)
                       + AddedCost(chainShares - t.shares, rate)
    <3>1. principal <= ComputePositionValue(chainShares, rate)
      BY <1>1 DEF BookInv, PrincipalNeverSpent, ChainValue
    <3>2. ComputePositionValue(chainShares, rate) \in Nat
      BY <2>2, ValueBounds
    <3>3. chainShares - t.shares = 0
      BY <1>6, <2>2
    <3> QED  BY <1>6, <2>2, <3>1, <3>2, <3>3, NothingCosts
  <2>4. t.cost = NoCost => t.force \/ t.shares = t.ledgerShares
    BY <1>6
  <2>5. ASSUME t.cost # NoCost
        PROVE  t.shares > t.ledgerShares /\ principal <= t.cost
    <3>1. added > 0 /\ pnl # NoCost /\ t.cost = MaxBigInt(pnl, floor)
      BY <1>6, <2>5
    <3>2. added \in Nat /\ chainShares > position.shares
      BY <2>1, <2>2, <3>1
    <3>3. floor = position.basis + AddedCost(chainShares - position.shares, rate)
      BY <2>1 DEF AddedCost
    <3>4. AddedCost(chainShares - position.shares, rate) \in Nat
      BY <2>1, <2>2, <3>2, CostBounds
    <3>5. principal <= floor /\ floor \in Nat
      BY <1>1, <2>2, <3>2, <3>3, <3>4 DEF BookInv, BasisCovers
    <3>6. pnl \in Nat
      BY <1>1, <3>1, ChainValueType DEF PnlReports
    <3>7. principal <= t.cost
      BY <2>2, <3>1, <3>5, <3>6 DEF MaxBigInt
    <3> QED  BY <1>6, <2>1, <3>2, <3>7
  <2> QED  BY <2>3, <2>4, <2>5
<1>9. ASSUME NEW v \in Workers, v # w PROVE RowRead(v)' /\ SnapshotCovers(v)'
  <2>1. SnapKept(v)
    BY <1>1, <1>4, <1>9 DEF SyncChain, Goto, SnapKept, TypeOK
  <2> QED  BY <1>1, <1>3, <2>1, FrameSync
<1>10. SyncInv'
  BY <1>7, <1>8, <1>9 DEF SyncInv
<1> QED  BY <1>1, <1>3, <1>10, FrameBook DEF MoneyInv

\* What an accepted sync writes as the basis covers the principal, with the
\* cost of the shares that arrived since it read the chain.
LEMMA AppliedBasis ==
    ASSUME TypeOK, BookInv, NEW w \in Workers, RowRead(w), SnapshotCovers(w),
           pc[w] = "sync_apply", ~SyncRefused(snap[w]),
           chainShares >= snap[w].shares
    PROVE  principal <= SyncedBasis(snap[w])
                          + AddedCost(chainShares - snap[w].shares, rate)
<1> DEFINE s == snap[w]
           value == ComputePositionValue(s.shares, s.rate)
           gap == AddedCost(chainShares - s.shares, rate)
<1>1. /\ s.shares \in Nat /\ s.rate \in Nat /\ s.ledgerShares \in Nat
      /\ s.cost \in Nat \cup {NoCost} /\ s.force \in BOOLEAN
  BY Numbers DEF Snapshot
<1>2. /\ chainShares \in Nat /\ rate \in Nat /\ principal \in Nat
      /\ position.shares \in Nat /\ position.basis \in Nat
  BY Numbers
<1>3. s.version = position.version /\ ~Unbooked
  BY DEF SyncRefused, SubmittedFlows, Unbooked, Awaited
<1>4. s.ledgerShares = position.shares
  BY <1>3 DEF RowRead, Syncing
<1>5. /\ s.shares \in {chainShares, position.shares}
      /\ principal <= value + gap
      /\ s.cost = NoCost => s.force \/ s.shares = s.ledgerShares
      /\ s.cost # NoCost => s.shares > s.ledgerShares /\ principal <= s.cost
  BY <1>3 DEF SnapshotCovers
<1>6. value \in Nat /\ gap \in Nat /\ SyncedBasis(s) \in Nat
  <2>1. chainShares - s.shares \in Nat
    BY <1>1, <1>2
  <2> QED  BY <1>1, <1>2, <2>1, ValueBounds, CostBounds, SyncedBasisType, Numbers
<1>7. CASE RunConservativeReset(s)
  BY <1>5, <1>7 DEF SyncedBasis
<1>8. CASE ~RunConservativeReset(s) /\ s.cost = NoCost
  <2>1. s.shares = position.shares
    BY <1>4, <1>5, <1>8 DEF RunConservativeReset
  <2>2. principal <= position.basis + gap
    BY <1>3, <2>1 DEF BookInv, BasisCovers
  <2>3. SyncedBasis(s) \in {position.basis, value}
    BY <1>8 DEF SyncedBasis
  <2> HIDE DEF value, gap
  <2>4. principal <= SyncedBasis(s) + gap
    BY <1>5, <2>2, <2>3
  <2> QED  BY <2>4 DEF gap
<1>9. CASE ~RunConservativeReset(s) /\ s.cost # NoCost
  <2>1. principal <= s.cost /\ s.cost \in Nat
    BY <1>1, <1>5, <1>9
  <2>2. PICK floor : SyncedBasis(s) = MaxBigInt(MaxBigInt(position.basis, s.cost), floor)
    BY <1>9 DEF SyncedBasis
  <2>3. s.cost <= MaxBigInt(position.basis, s.cost)
        /\ MaxBigInt(position.basis, s.cost) \in Nat
    BY <1>2, <2>1 DEF MaxBigInt
  <2>4. MaxBigInt(position.basis, s.cost) <= SyncedBasis(s)
    <3> DEFINE m == MaxBigInt(position.basis, s.cost)
    <3> HIDE DEF m
    <3>1. m \in Nat /\ SyncedBasis(s) = MaxBigInt(m, floor)
      BY <2>2, <2>3 DEF m
    <3>2. SyncedBasis(s) = m \/ (~(m >= floor) /\ SyncedBasis(s) = floor)
      BY <3>1 DEF MaxBigInt
    <3>3. m <= SyncedBasis(s)
      BY <1>6, <3>1, <3>2
    <3> QED  BY <3>3 DEF m
  <2> HIDE DEF value, gap
  <2>5. principal <= SyncedBasis(s) + gap
    BY <1>2, <1>6, <2>1, <2>3, <2>4
  <2> QED  BY <2>5 DEF gap
<1> QED  BY <1>7, <1>8, <1>9

\* Applying a sync keeps the invariant.
LEMMA SyncApplyStep ==
    ASSUME Base, TypeOK', MoneyInv, NEW w \in Workers, SyncApply(w)
    PROVE  MoneyInv'
<1> USE DEF ledgerVars, chainVars, txVars, handlerVars
<1> DEFINE s == snap[w]
<1>1. /\ TypeOK /\ BookInv /\ SyncInv /\ RowRead(w) /\ SnapshotCovers(w)
      /\ position \in Position
  BY DEF Base, MoneyInv, SyncInv, TypeOK
<1>2. /\ UNCHANGED <<intent, tx, chainShares, rate, delta, principal>>
      /\ Done(w) /\ pc[w] = "sync_apply"
  BY DEF SyncApply
<1>3. \A v \in Workers : SnapKept(v)
  BY <1>1, <1>2, DoneKeeps
<1>4. CASE SyncRefused(s)
  <2>1. position' = position
    BY <1>4 DEF SyncApply
  <2>2. Frame /\ AccountsKept /\ Unbooked' = Unbooked
    BY <1>1, <1>2, <2>1, IdleFrame DEF Frame
  <2>3. SyncInv'
    BY <1>1, <1>3, <2>2, FrameSync DEF SyncInv
  <2> QED  BY <1>1, <2>2, <2>3, FrameBook DEF MoneyInv
<1>5. CASE ~SyncRefused(s)
  <2>1. PICK st : position' = [position EXCEPT !.shares = s.shares,
                                               !.basis = SyncedBasis(s),
                                               !.established = TRUE,
                                               !.status = st,
                                               !.version = @ + 1]
    BY <1>5 DEF SyncApply
  <2>2. /\ position'.shares = s.shares /\ position'.basis = SyncedBasis(s)
        /\ position'.version = position.version + 1
    BY <1>1, <2>1 DEF Position
  <2>3. position'.version > position.version
    BY <1>1, <2>2, Numbers
  <2>4. SyncInv'
    BY <1>1, <1>3, <2>3, NewVersion
  <2>5. ~Unbooked /\ s.version = position.version
    BY <1>5 DEF SyncRefused, SubmittedFlows, Unbooked, Awaited
  <2>6. ~Unbooked' /\ \A f \in Flows : /\ ~Awaited(f)' /\ Open(f)' = Open(f)
                                       /\ OnChain(f)' = OnChain(f)
    BY <1>2, <2>5 DEF Unbooked, Awaited, Open, OnChain
  <2>7. OpenMatches'
    <3>1. s.shares \in {chainShares, position.shares}
      BY <1>1, <1>2, <2>5 DEF SnapshotCovers
    <3> QED  BY <1>1, <1>2, <2>2, <2>5, <2>6, <3>1 DEF BookInv, OpenMatches, SharesMatch
  <2>8. BasisCovers'
    BY <1>1, <1>2, <1>5, <2>2, AppliedBasis DEF BasisCovers
  <2>9. RateBounded' /\ OpenUnique' /\ ReceiptCovers' /\ RealizeFits'
        /\ PrincipalNeverSpent'
    BY <1>1, <1>2, <2>6 DEF BookInv, RateBounded, OpenUnique, ReceiptCovers,
       RealizeFits, PrincipalNeverSpent, ChainValue
  <2> QED  BY <2>4, <2>7, <2>8, <2>9 DEF MoneyInv, BookInv
<1> QED  BY <1>4, <1>5

-----------------------------------------------------------------------------
(* Theorems.                                                                *)

(***************************************************************************)
(* A movement outside Subly is synchronised before the next one: two that  *)
(* cancel each other cannot be told from none.                             *)
(***************************************************************************)
MovedWhenSynced == (\E d \in Moves : ExternalMove(d)) => SharesMatch

\* Initially the row is the chain's.
LEMMA MoneyInit == Init => MoneyInv
<1> SUFFICES ASSUME Init PROVE MoneyInv
  OBVIOUS
<1> USE DEF Init
<1>1. TypeOK
  BY TypeInit
<1>2. /\ \A f \in Flows : ~Open(f) /\ ~Awaited(f)
      /\ ~Unbooked
  BY DEF Open, Awaited, Unbooked
<1>3. SyncInv
  BY DEF SyncInv, RowRead, SnapshotCovers, Syncing
<1>4. position.shares = chainShares /\ position.basis = principal
      /\ principal = ComputePositionValue(chainShares, rate)
  OBVIOUS
<1>5. RateBounded /\ PrincipalNeverSpent
  <2>1. rate <= MaxRate
    BY FlowAssumption
  <2> QED  BY <1>1, <1>4, <2>1, Numbers DEF RateBounded, PrincipalNeverSpent, ChainValue
<1>6. BasisCovers
  <2>1. chainShares - position.shares = 0
    BY <1>1, <1>4, Numbers
  <2> QED  BY <1>1, <1>4, <2>1, Numbers, NothingCosts DEF BasisCovers
<1>7. OpenUnique /\ OpenMatches /\ ReceiptCovers /\ RealizeFits
  BY <1>2 DEF OpenUnique, OpenMatches, ReceiptCovers, RealizeFits
<1> QED  BY <1>3, <1>5, <1>6, <1>7 DEF MoneyInv, BookInv

\* Every step keeps the invariant.
LEMMA MoneyStep ==
    ASSUME MovesInFlight = FALSE, ReadsMayFail = FALSE, OverheadCoversShare,
           Base, TypeOK', MoneyInv, Receipted, [Next]_vars, [MovedWhenSynced]_vars
    PROVE  MoneyInv'
<1>1. CASE ~MovingStep
  BY <1>1, QuietStep
<1>2. ASSUME NEW f \in Flows, Prepare(f) \/ Land(f) PROVE MoneyInv'
  BY <1>2, PrepareStep, LandStep
<1>3. ASSUME NEW w \in Workers, FinalizeReceipt(w) \/ FinalizeUnclassified(w)
      PROVE  MoneyInv'
  BY <1>3, ReceiptStep, UnclassifiedStep
<1>4. ASSUME NEW w \in Workers, SyncStart(w) \/ SyncChain(w) \/ SyncApply(w)
      PROVE  MoneyInv'
  BY <1>4, SyncStartStep, SyncChainStep, SyncApplyStep
<1>5. ASSUME NEW d \in Moves, ExternalMove(d) PROVE MoneyInv'
  <2>1. SharesMatch \/ UNCHANGED vars
    BY <1>5 DEF MovedWhenSynced
  <2>2. moves' = moves + 1 /\ moves \in Nat
    BY <1>5 DEF ExternalMove, Base, TypeOK
  <2>3. moves' # moves
    BY <2>2
  <2> QED  BY <1>5, <2>1, <2>3, MoveStep DEF vars
<1>6. CASE Accrue
  BY <1>6, AccrueStep
<1> QED  BY <1>1, <1>2, <1>3, <1>4, <1>5, <1>6 DEF MovingStep

(***************************************************************************)
(* The accounts hold in every state, if no shares move without the relayer *)
(* while a flow is open, the reads of a finalization succeed, an executed  *)
(* operation leaves a receipt, and movements are synchronised one by one.  *)
(***************************************************************************)
THEOREM MoneyInvariance ==
    ASSUME MovesInFlight = FALSE, ReadsMayFail = FALSE, OverheadCoversShare
    PROVE  Spec /\ []Receipted /\ [][MovedWhenSynced]_vars => []MoneyInv
<1>1. Base /\ Base' /\ MoneyInv /\ Receipted /\ [Next]_vars
        /\ [MovedWhenSynced]_vars => MoneyInv'
  BY MoneyStep DEF Base
<1>2. Spec => []Base
  BY Invariance, SentInvariance, PTL DEF Base
<1> QED  BY <1>1, <1>2, MoneyInit, PTL DEF Spec

(***************************************************************************)
(* The deposited principal is never spent: whenever a realize executes,    *)
(* after any rise of the rate and whatever syncs ran since it was          *)
(* prepared, what stays in the vault is worth the principal.               *)
(***************************************************************************)
THEOREM PrincipalIsNeverSpent ==
    ASSUME MovesInFlight = FALSE, ReadsMayFail = FALSE, OverheadCoversShare
    PROVE  Spec /\ []Receipted /\ [][MovedWhenSynced]_vars
             => []PrincipalNeverSpent
<1>1. MoneyInv => PrincipalNeverSpent
  BY DEF MoneyInv, BookInv
<1> QED  BY <1>1, MoneyInvariance, PTL

(***************************************************************************)
(* Unknown value is never treated as yield: in a settled state the basis   *)
(* that finalizations and syncs have written covers the principal.         *)
(***************************************************************************)
THEOREM YieldIsEarned ==
    ASSUME MovesInFlight = FALSE, ReadsMayFail = FALSE, OverheadCoversShare
    PROVE  Spec /\ []Receipted /\ [][MovedWhenSynced]_vars
             => []PrincipalCovered
<1>1. TypeOK /\ MoneyInv => PrincipalCovered
  <2> SUFFICES ASSUME TypeOK, MoneyInv, Settled PROVE position.basis >= principal
    BY DEF PrincipalCovered
  <2>1. ~Unbooked /\ SharesMatch
    BY DEF Settled, SubmittedFlows, Unbooked, Awaited
  <2>2. principal <= position.basis
    BY <2>1, MatchedBasis DEF MoneyInv
  <2> QED  BY <2>2, Numbers
<1> QED  BY <1>1, MoneyInvariance, TypeCorrect, PTL

-----------------------------------------------------------------------------
(* No movement is counted twice.                                            *)

\* Units lost by rounding costs up, so far.
DustCount == Cardinality({f \in Flows : delta[f] > 0})
Dust == DustCount + moves

\* The basis exceeds what the row's own shares are worth by dust only.
RowBounded == position.basis <= ComputePositionValue(position.shares, rate) + Dust

\* A movement that no sync has seen has not been rounded yet.
LagBounded ==
    ~Unbooked /\ ~SharesMatch =>
        /\ moves > 0
        /\ position.basis + 1 <= ComputePositionValue(position.shares, rate) + Dust

\* A receipt to come is worth the shares that landed.
AwaitedBounded ==
    \A f \in Flows : Awaited(f) /\ intent[f].kind = "deposit" =>
        position.basis + delta[f] <= ChainValue + Dust

\* Only executed transactions have receipts.
NoEarlyDelta == \A f \in Flows : tx[f] # "landed" => delta[f] = 0

\* The cost a sync asks for is that of the shares it read.
SnapshotBounded(w) ==
    LET s == snap[w]
    IN  pc[w] = "sync_apply" /\ s.version = position.version /\ ~Unbooked =>
            /\ s.rate <= rate
            /\ s.cost # NoCost =>
                 /\ s.cost <= ComputePositionValue(s.shares, s.rate) + Dust
                 /\ s.ledgerBasis + AddedCost(s.shares - s.ledgerShares, s.rate)
                      <= s.cost

DustBook == RowBounded /\ LagBounded /\ AwaitedBounded /\ NoEarlyDelta
DustInv == DustBook /\ \A w \in Workers : SnapshotBounded(w)

\* The cost of shares is their value, or one unit more.
LEMMA CostValueGap ==
    ASSUME NEW n \in Nat, NEW r \in Nat
    PROVE  AddedCost(n, r) <= ComputePositionValue(n, r) + 1
<1> DEFINE c == AddedCost(n, r)
           v == ComputePositionValue(n, r)
<1>1. c \in Nat /\ RateScale * c < n * r + RateScale
  BY CostBounds
<1>2. v \in Nat
  BY ValueBounds
<1>3. n * r < RateScale * v + RateScale
  <2>1. n * r \in Int
    OBVIOUS
  <2> QED  BY <2>1, DivBounds, RateScaleAssumption DEF ComputePositionValue, MulDivFloor
<1> HIDE DEF c, v
<1>4. PICK a \in Int, x \in Int, y \in Int :
        a = n * r /\ x = RateScale * c /\ y = RateScale * v
  BY <1>1, <1>2, RateScaleAssumption
<1>5. RateScale * (v + 2) = y + RateScale + RateScale
  BY <1>2, <1>4, RateScaleAssumption
<1>6. RateScale * c < RateScale * (v + 2)
  BY <1>1, <1>3, <1>4, <1>5, RateScaleAssumption
<1>7. c < v + 2
  BY <1>1, <1>2, <1>6, RateScaleAssumption, Cancel
<1>8. c <= v + 1
  BY <1>1, <1>2, <1>7
<1> QED  BY <1>8 DEF c, v

\* Shares cost something.
LEMMA CostPositive ==
    ASSUME NEW n \in Nat, NEW r \in Nat, n > 0, r > 0
    PROVE  AddedCost(n, r) > 0
<1> DEFINE c == AddedCost(n, r)
<1>1. c \in Nat /\ n * r <= RateScale * c
  BY CostBounds
<1> HIDE DEF c
<1>2. n * r > 0
  OBVIOUS
<1>3. c # 0
  BY <1>1, <1>2, RateScaleAssumption
<1> QED  BY <1>1, <1>3 DEF c

\* Dust is counted by a natural.
LEMMA DustType ==
    ASSUME IsFiniteSet(Flows), TypeOK
    PROVE  DustCount \in Nat /\ Dust \in Nat /\ moves \in Nat
<1>1. IsFiniteSet({f \in Flows : delta[f] > 0})
  BY FS_Subset
<1>2. DustCount \in Nat /\ moves \in Nat
  BY <1>1, FS_CardinalityType DEF DustCount, TypeOK
<1> QED  BY <1>2 DEF Dust

\* A receipt adds at most its unit.
LEMMA DustGrows ==
    ASSUME IsFiniteSet(Flows), TypeOK, NEW f \in Flows, NEW n \in Nat,
           delta[f] = 0, delta' = [delta EXCEPT ![f] = n]
    PROVE  /\ DustCount' \in Nat /\ DustCount' >= DustCount
           /\ n > 0 => DustCount' = DustCount + 1
<1> DEFINE A == {g \in Flows : delta[g] > 0}
           B == {g \in Flows : delta'[g] > 0}
<1>1. delta \in [Flows -> Nat]
  BY DEF TypeOK
<1>2. IsFiniteSet(A) /\ f \notin A
  BY FS_Subset
<1>3. Cardinality(A) \in Nat
  BY <1>2, FS_CardinalityType
<1>4. CASE n > 0
  <2>1. B = A \cup {f}
    BY <1>1, <1>4
  <2>2. Cardinality(A \cup {f}) = Cardinality(A) + 1
    BY <1>2, FS_AddElement
  <2> QED  BY <1>3, <2>1, <2>2 DEF DustCount
<1>5. CASE ~(n > 0)
  <2>1. B = A
    BY <1>1, <1>5
  <2> QED  BY <1>3, <1>5, <2>1 DEF DustCount
<1> QED  BY <1>4, <1>5

\* A step that keeps the accounts and leaves no more to book keeps the bounds.
LEMMA DustFrameBook ==
    ASSUME TypeOK, TypeOK', DustBook, AccountsKept, moves' = moves,
           Unbooked' = Unbooked,
           \A f \in Flows : /\ tx'[f] # "landed" => tx[f] # "landed"
                            /\ Awaited(f)' => /\ Awaited(f)
                                              /\ intent'[f].kind = intent[f].kind
    PROVE  DustBook' /\ Dust' = Dust
<1>1. Dust' = Dust
  BY DEF Dust, DustCount, AccountsKept
<1>2. RowBounded' /\ LagBounded'
  BY <1>1 DEF DustBook, RowBounded, LagBounded, AccountsKept, SharesMatch
<1>3. AwaitedBounded' /\ NoEarlyDelta'
  BY <1>1 DEF DustBook, AwaitedBounded, NoEarlyDelta, AccountsKept, ChainValue
<1> QED  BY <1>1, <1>2, <1>3 DEF DustBook

\* The same for the snapshot of a sync that stands still.
LEMMA DustFrameSync ==
    ASSUME TypeOK, TypeOK', AccountsKept, Dust' = Dust, Unbooked' = Unbooked,
           NEW w \in Workers, SnapKept(w), SnapshotBounded(w), RowRead(w)
    PROVE  SnapshotBounded(w)'
<1> SUFFICES ASSUME pc'[w] = "sync_apply", snap'[w].version = position'.version,
                    ~Unbooked'
             PROVE  SnapshotBounded(w)'
  BY DEF SnapshotBounded
<1>1. pc'[w] = pc[w] /\ snap'[w] = snap[w]
  BY DEF SnapKept, Syncing
<1>2. snap[w].version <= position.version
  BY <1>1 DEF RowRead, Syncing
<1>3. snap[w].version = position.version
  <2>1. snap[w].version \in Nat /\ position.version \in Nat
        /\ position'.version \in Nat /\ position'.version >= position.version
    BY DEF TypeOK, Position, Snapshot, AccountsKept
  <2> QED  BY <1>1, <1>2, <2>1
<1> QED  BY <1>1, <1>3 DEF SnapshotBounded, AccountsKept

\* And a new version of the row leaves no snapshot to speak of.
LEMMA DustNewVersion ==
    ASSUME TypeOK, TypeOK', SyncInv, position'.version > position.version,
           \A w \in Workers : SnapKept(w)
    PROVE  \A w \in Workers : SnapshotBounded(w)'
  BY StaleSnapshots DEF SnapshotBounded, Syncing

\* Steps that move no money, and prepare.
LEMMA DustQuiet ==
    ASSUME IsFiniteSet(Flows), Base, TypeOK', MoneyInv, DustInv, [Next]_vars,
           ~MovingStep \/ \E f \in Flows : Prepare(f)
    PROVE  DustInv'
<1> USE DEF ledgerVars, chainVars, txVars, handlerVars
<1>1. TypeOK /\ SyncInv /\ intent \in [Flows -> Intent]
  BY DEF Base, MoneyInv, TypeOK
<1>2. CASE ~MovingStep
  <2>1. AccountsKept
    BY <1>2, ChainQuiet, RowQuiet DEF AccountsKept
  <2>2. \A f \in Flows : /\ tx'[f] # "landed" => tx[f] # "landed"
                         /\ Awaited(f)' = Awaited(f)
                         /\ Awaited(f)' => intent'[f].kind = intent[f].kind
    BY <1>2, ChainQuiet, IntentQuiet DEF Awaited, Open
  <2>3. Unbooked' = Unbooked
    BY <2>2 DEF Unbooked
  <2>4. moves' = moves
    <3>1. ASSUME NEW w \in Workers, Step(w) PROVE moves' = moves
      BY <1>2, <3>1 DEF MovingStep, Step, Simulate, Send, Wait, Confirm, Lookup,
           CheckHeight, FinalLookup, Resend, WriteOff, FinalizeLate,
           FinalizeReverted, Continue, Abandon
    <3> QED
      BY <1>2, <3>1 DEF Next, vars, MovingStep, RefusePrepare, Expire,
           RequestApproval, DecideApproval, Submit, Status, Crash, Revert, Block,
           Lapse, LapseApproval, Register
  <2>5. DustBook' /\ Dust' = Dust
    BY <1>1, <2>1, <2>2, <2>3, <2>4, DustFrameBook DEF DustInv
  <2>6. \A w \in Workers : SnapshotBounded(w)'
    BY <1>1, <1>2, <2>1, <2>3, <2>5, SnapQuiet, DustFrameSync DEF DustInv, SyncInv
  <2> QED  BY <2>5, <2>6 DEF DustInv
<1>3. ASSUME NEW f \in Flows, Prepare(f) PROVE DustInv'
  <2>1. /\ UNCHANGED <<position, tx, chainShares, rate, delta, principal, pc, snap,
                       moves>>
        /\ PendingFlows = {}
    BY <1>3 DEF Prepare, MayPrepare
  <2>2. \A g \in Flows : intent[g].status # "submitted"
    BY <2>1 DEF PendingFlows, Pending
  <2>3. \A g \in Flows : intent'[g].status # "submitted"
    <3>1. PICK i : i.status = "prepared"
                   /\ intent' = [ExpireStale(intent) EXCEPT ![f] = i]
      BY <1>3 DEF Prepare
    <3> QED  BY <1>1, <2>2, <3>1, ExpireStaleType DEF ExpireStale, Intent
  <2>4. Unbooked' = Unbooked /\ \A g \in Flows : ~Awaited(g)'
    BY <2>2, <2>3 DEF Unbooked, Awaited
  <2>5. AccountsKept
    BY <1>1, <2>1, Numbers DEF AccountsKept
  <2>6. DustBook' /\ Dust' = Dust
    BY <1>1, <2>1, <2>4, <2>5, DustFrameBook DEF DustInv
  <2>7. \A w \in Workers : SnapKept(w)
    BY <2>1 DEF SnapKept
  <2>8. \A w \in Workers : SnapshotBounded(w)'
    BY <1>1, <2>4, <2>5, <2>6, <2>7, DustFrameSync DEF DustInv, SyncInv
  <2> QED  BY <2>6, <2>8 DEF DustInv
<1> QED  BY <1>2, <1>3

\* A deposit that lands brings shares worth its receipt, but for one unit.
LEMMA DustLand ==
    ASSUME IsFiniteSet(Flows), Base, TypeOK', MoneyInv, DustInv,
           NEW f \in Flows, Land(f)
    PROVE  DustInv'
<1> USE DEF ledgerVars, chainVars, txVars, handlerVars
<1>1. TypeOK /\ BookInv /\ tx \in [Flows -> TxStates] /\ delta \in [Flows -> Nat]
  BY DEF Base, MoneyInv, TypeOK, TxTypeOK, Flows
<1>2. /\ UNCHANGED <<position, intent, rate, pc, snap, moves>>
      /\ tx' = [tx EXCEPT ![f] = "landed"]
  BY DEF Land, Include
<1>3. /\ intent[f].status = "submitted" /\ SharesMatch /\ ~OnChain(f)
      /\ \A g \in Flows : Open(g) => g = f
  BY <1>1, LandsAlone
<1>4. /\ tx'[f] = "landed" /\ tx[f] # "landed"
      /\ \A g \in Flows \ {f} : tx'[g] = tx[g]
      /\ \A g \in Flows : Awaited(g)' => g = f
  BY <1>1, <1>2, <1>3 DEF Open, Awaited, OnChain
<1>5. Unbooked'
  BY <1>2, <1>3, <1>4 DEF Unbooked, Awaited
<1>6. PICK n : delta' = [delta EXCEPT ![f] = n]
  BY DEF Land
<1>7. n \in Nat /\ delta'[f] = n /\ delta[f] = 0
  BY <1>1, <1>4, <1>6 DEF DustInv, DustBook, NoEarlyDelta, TypeOK
<1>8. /\ DustCount' \in Nat /\ DustCount' >= DustCount
      /\ DustCount \in Nat /\ moves \in Nat
  BY <1>1, <1>6, <1>7, DustGrows, DustType
<1>9. /\ Dust \in Nat /\ Dust' \in Nat /\ Dust' >= Dust
      /\ n > 0 => Dust' = Dust + 1
  <2>1. Dust = DustCount + moves /\ Dust' = DustCount' + moves
    BY <1>2 DEF Dust
  <2>2. \A j, k, m \in Nat : j + m \in Nat /\ (k >= j => k + m >= j + m)
    OBVIOUS
  <2>3. Dust \in Nat /\ Dust' \in Nat /\ Dust' >= Dust
    BY <1>8, <2>1, <2>2, Zenon
  <2>4. ASSUME n > 0 PROVE Dust' = Dust + 1
    <3>1. DustCount' = DustCount + 1
      BY <1>1, <1>6, <1>7, <2>4, DustGrows
    <3> QED  BY <1>8, <2>1, <3>1
  <2> QED  BY <2>3, <2>4
<1>10. /\ position.basis \in Nat /\ position.shares = chainShares
       /\ chainShares \in Nat /\ rate \in Nat /\ rate > 0
       /\ intent[f].amount \in Nat
  BY <1>1, <1>3, Numbers DEF SharesMatch
<1>11. ComputePositionValue(chainShares, rate) \in Nat
  BY <1>10, ValueBounds
<1>12. position.basis <= ComputePositionValue(chainShares, rate) + Dust
  BY <1>10 DEF DustInv, DustBook, RowBounded
<1>13. RowBounded'
  <2>1. position.basis <= ComputePositionValue(chainShares, rate) + Dust'
    BY <1>9, <1>10, <1>11, <1>12
  <2> QED  BY <1>2, <1>10, <2>1 DEF RowBounded
<1>14. LagBounded' /\ \A w \in Workers : SnapshotBounded(w)'
  BY <1>5 DEF LagBounded, SnapshotBounded
<1>15. NoEarlyDelta'
  BY <1>1, <1>4, <1>6 DEF DustInv, DustBook, NoEarlyDelta
<1>16. AwaitedBounded'
  <2> DEFINE m == MintedShares(intent[f].amount)
             u == ComputePositionValue(m, rate)
             v == ComputePositionValue(chainShares, rate)
             x == ComputePositionValue(chainShares + m, rate)
  <2> SUFFICES ASSUME intent[f].kind = "deposit"
               PROVE  position.basis + n
                        <= ComputePositionValue(chainShares', rate) + Dust'
    BY <1>2, <1>4, <1>7 DEF AwaitedBounded, ChainValue
  <2>1. m \in Nat
    BY <1>10, RateScaleAssumption, DivNat DEF MintedShares, MulDivFloor
  <2>2. /\ chainShares' = chainShares + m /\ m > 0
        /\ delta' = [delta EXCEPT ![f] = AddedCost(m, rate)]
    BY DEF Land, AddedCost
  <2>3. n = AddedCost(m, rate)
    BY <1>1, <1>7, <2>2
  <2> HIDE DEF m
  <2>4. n <= u + 1 /\ n > 0 /\ u \in Nat
    BY <1>10, <2>1, <2>2, <2>3, CostValueGap, CostPositive, ValueBounds
  <2>5. v + u <= x
    BY <1>10, <2>1, ValueSplit
  <2>6. x \in Nat
    <3>1. chainShares + m \in Nat
      BY <1>10, <2>1
    <3> QED  BY <1>10, <3>1, ValueBounds
  <2>7. v \in Nat /\ position.basis <= v + Dust
    BY <1>11, <1>12
  <2> HIDE DEF u, v, x
  <2>8. position.basis + n <= x + Dust'
    BY <1>7, <1>9, <1>10, <2>4, <2>5, <2>6, <2>7
  <2> QED  BY <2>2, <2>8 DEF x
<1> QED  BY <1>13, <1>14, <1>15, <1>16 DEF DustInv, DustBook

\* The rate rises, and with it what shares are worth.
LEMMA DustAccrue ==
    ASSUME IsFiniteSet(Flows), Base, TypeOK', MoneyInv, DustInv, Accrue
    PROVE  DustInv'
<1> USE DEF ledgerVars, chainVars, txVars, handlerVars
<1>1. TypeOK
  BY DEF Base
<1>2. /\ UNCHANGED <<position, intent, tx, chainShares, delta, pc, snap, moves>>
      /\ rate' = rate + 1
  BY DEF Accrue
<1>3. /\ rate \in Nat /\ rate' \in Nat /\ rate <= rate'
      /\ chainShares \in Nat /\ position.shares \in Nat /\ position.basis \in Nat
      /\ Dust \in Nat
  BY <1>1, <1>2, Numbers, DustType
<1>4. /\ Dust' = Dust /\ Unbooked' = Unbooked
      /\ \A f \in Flows : Awaited(f)' = Awaited(f)
  BY <1>2 DEF Dust, DustCount, Unbooked, Awaited
<1>5. /\ ComputePositionValue(position.shares, rate) \in Nat
      /\ ComputePositionValue(position.shares, rate') \in Nat
      /\ ComputePositionValue(position.shares, rate)
           <= ComputePositionValue(position.shares, rate')
      /\ ComputePositionValue(chainShares, rate) \in Nat
      /\ ComputePositionValue(chainShares, rate') \in Nat
      /\ ComputePositionValue(chainShares, rate)
           <= ComputePositionValue(chainShares, rate')
  BY <1>3, ValueBounds, ValueMonotone
<1>6. RowBounded'
  <2>1. position.basis <= ComputePositionValue(position.shares, rate) + Dust
    BY DEF DustInv, DustBook, RowBounded
  <2>2. position.basis <= ComputePositionValue(position.shares, rate') + Dust
    BY <1>3, <1>5, <2>1
  <2> QED  BY <1>2, <1>4, <2>2 DEF RowBounded
<1>7. LagBounded'
  <2> SUFFICES ASSUME ~Unbooked, ~SharesMatch
               PROVE  /\ moves > 0
                      /\ position.basis + 1
                           <= ComputePositionValue(position.shares, rate') + Dust
    BY <1>2, <1>4 DEF LagBounded, SharesMatch
  <2>1. /\ moves > 0
        /\ position.basis + 1 <= ComputePositionValue(position.shares, rate) + Dust
    BY DEF DustInv, DustBook, LagBounded
  <2> QED  BY <1>3, <1>5, <2>1
<1>8. AwaitedBounded'
  <2> SUFFICES ASSUME NEW f \in Flows, Awaited(f), intent[f].kind = "deposit"
               PROVE  position.basis + delta[f]
                        <= ComputePositionValue(chainShares, rate') + Dust
    BY <1>2, <1>4 DEF AwaitedBounded, ChainValue
  <2>1. position.basis + delta[f] <= ComputePositionValue(chainShares, rate) + Dust
    BY DEF DustInv, DustBook, AwaitedBounded, ChainValue
  <2>2. delta[f] \in Nat
    BY <1>1, Numbers
  <2> QED  BY <1>3, <1>5, <2>1, <2>2
<1>9. NoEarlyDelta'
  BY <1>2 DEF DustInv, DustBook, NoEarlyDelta
<1>10. ASSUME NEW w \in Workers PROVE SnapshotBounded(w)'
  <2>1. snap[w].rate \in Nat
    BY <1>1, Numbers DEF Snapshot
  <2> QED  BY <1>2, <1>3, <1>4, <2>1 DEF DustInv, SnapshotBounded
<1> QED  BY <1>6, <1>7, <1>8, <1>9, <1>10 DEF DustInv, DustBook

\* More dust only loosens what is known of a snapshot.
LEMMA DustLoosens ==
    ASSUME TypeOK, NEW w \in Workers, SnapshotBounded(w), Dust \in Nat,
           Dust' \in Nat, Dust <= Dust', ~Unbooked,
           UNCHANGED <<position, rate, pc, snap>>
    PROVE  SnapshotBounded(w)'
<1> DEFINE s == snap[w]
<1>1. s.shares \in Nat /\ s.rate \in Nat /\ s.cost \in Nat \cup {NoCost}
  BY Numbers DEF Snapshot
<1>2. ComputePositionValue(s.shares, s.rate) \in Nat
  BY <1>1, ValueBounds
<1> SUFFICES ASSUME pc[w] = "sync_apply", s.version = position.version
             PROVE  /\ s.rate <= rate
                    /\ s.cost # NoCost =>
                         /\ s.cost <= ComputePositionValue(s.shares, s.rate) + Dust'
                         /\ s.ledgerBasis
                              + AddedCost(s.shares - s.ledgerShares, s.rate)
                                <= s.cost
  BY DEF SnapshotBounded
<1>3. /\ s.rate <= rate
      /\ s.cost # NoCost =>
           /\ s.cost <= ComputePositionValue(s.shares, s.rate) + Dust
           /\ s.ledgerBasis + AddedCost(s.shares - s.ledgerShares, s.rate)
                <= s.cost
  BY DEF SnapshotBounded
<1>4. ASSUME s.cost # NoCost
      PROVE  s.cost <= ComputePositionValue(s.shares, s.rate) + Dust'
  <2>1. s.cost \in Nat /\ s.cost <= ComputePositionValue(s.shares, s.rate) + Dust
    BY <1>1, <1>3, <1>4
  <2> QED  BY <1>2, <2>1
<1> QED  BY <1>3, <1>4

\* A movement outside Subly brings the unit that its cost may be rounded up by.
LEMMA DustMove ==
    ASSUME IsFiniteSet(Flows), MovesInFlight = FALSE, Base, TypeOK', MoneyInv,
           DustInv, NEW d \in Moves, ExternalMove(d), SharesMatch
    PROVE  DustInv'
<1> USE DEF ledgerVars, chainVars, txVars, handlerVars
<1> DEFINE v == ComputePositionValue(position.shares, rate)
<1>1. TypeOK
  BY DEF Base
<1>2. /\ UNCHANGED <<position, intent, tx, rate, delta, pc, snap>>
      /\ moves' = moves + 1
      /\ \A f \in Flows : ~Open(f)
  BY DEF ExternalMove, Open
<1>3. /\ \A f \in Flows : ~Awaited(f)'
      /\ ~Unbooked
  BY <1>2 DEF Unbooked, Awaited, Open
<1>4. DustCount \in Nat /\ Dust \in Nat /\ moves \in Nat
  BY <1>1, DustType
<1>5. Dust = DustCount + moves /\ Dust' = DustCount + moves'
  BY <1>2 DEF Dust, DustCount
<1>6. Dust' = Dust + 1 /\ moves' > 0
  BY <1>2, <1>4, <1>5
<1>7. /\ position.basis \in Nat /\ v \in Nat
      /\ position.basis <= v + Dust
  BY <1>1, Numbers, ValueBounds DEF DustInv, DustBook, RowBounded
<1> HIDE DEF v
<1>8. position.basis <= v + Dust' /\ position.basis + 1 <= v + Dust'
  BY <1>4, <1>6, <1>7
<1>9. RowBounded' /\ LagBounded'
  BY <1>2, <1>6, <1>8 DEF RowBounded, LagBounded, v
<1>10. AwaitedBounded' /\ NoEarlyDelta'
  BY <1>2, <1>3 DEF AwaitedBounded, NoEarlyDelta, DustInv, DustBook
<1>11. \A w \in Workers : SnapshotBounded(w)'
  <2>1. Dust' \in Nat /\ Dust <= Dust'
    BY <1>4, <1>6
  <2> QED  BY <1>1, <1>2, <1>3, <1>4, <2>1, DustLoosens DEF DustInv
<1> QED  BY <1>9, <1>10, <1>11 DEF DustInv, DustBook

\* Once the only open flow is closed on the shares of the chain, its dust is in.
LEMMA ClosedDust ==
    ASSUME TypeOK, TypeOK', BookInv, DustBook, NEW f \in Flows, Awaited(f),
           UNCHANGED <<tx, chainShares, rate, delta, moves>>,
           \A g \in Flows \ {f} : intent'[g] = intent[g],
           intent'[f].status \in Terminal,
           position'.shares = chainShares, position'.basis <= ChainValue + Dust
    PROVE  DustBook'
<1>1. \A g \in Flows : ~Awaited(g)'
  BY DEF Awaited, Open, BookInv, OpenUnique, Terminal
<1>2. Dust' = Dust
  BY DEF Dust, DustCount
<1>3. RowBounded' /\ LagBounded'
  BY <1>2 DEF RowBounded, LagBounded, SharesMatch, ChainValue
<1>4. AwaitedBounded' /\ NoEarlyDelta'
  BY <1>1 DEF AwaitedBounded, NoEarlyDelta, DustBook
<1> QED  BY <1>3, <1>4 DEF DustBook

\* A booked receipt.
LEMMA DustReceipt ==
    ASSUME IsFiniteSet(Flows), Base, TypeOK', MoneyInv, DustInv,
           NEW w \in Workers, FinalizeReceipt(w)
    PROVE  DustInv'
<1> USE DEF ledgerVars, chainVars, txVars, handlerVars
<1> DEFINE f == job[w]
<1>1. TypeOK /\ BookInv /\ SyncInv /\ DustBook /\ intent \in [Flows -> Intent]
  BY DEF Base, MoneyInv, TypeOK, DustInv
<1>2. f \in Flows
  BY DEF FinalizeReceipt, Base, ControlInv, HasJob
<1>3. /\ UNCHANGED <<tx, chainShares, rate, delta, moves>>
      /\ intent' = [intent EXCEPT ![f].status = "confirmed"]
      /\ Done(w) /\ Awaited(f)
  BY DEF FinalizeReceipt, StillSubmitted, Awaited
<1>4. /\ \A g \in Flows \ {f} : intent'[g] = intent[g]
      /\ intent'[f].status \in Terminal
  BY <1>1, <1>2, <1>3 DEF Intent, Terminal
<1>5. /\ position'.shares = chainShares /\ position'.basis = BasisAfter(f)
      /\ position'.version > position.version
  BY <1>1, ReceiptBooked
<1>6. BasisAfter(f) <= ChainValue + Dust
  <2>1. Dust \in Nat /\ ChainValue \in Nat /\ position.basis \in Nat
    BY <1>1, DustType, ChainValueType, Numbers
  <2>2. CASE intent[f].kind = "deposit"
    BY <1>1, <1>2, <1>3, <2>2 DEF BasisAfter, DustBook, AwaitedBounded
  <2>3. CASE intent[f].kind # "deposit"
    <3>1. BasisAfter(f) = MinBigInt(position.basis, ChainValue)
      BY <2>3 DEF BasisAfter
    <3> QED  BY <2>1, <3>1 DEF MinBigInt
  <2> QED  BY <2>2, <2>3
<1>7. DustBook'
  BY <1>1, <1>2, <1>3, <1>4, <1>5, <1>6, ClosedDust
<1>8. \A u \in Workers : SnapshotBounded(u)'
  BY <1>1, <1>3, <1>5, DoneKeeps, DustNewVersion
<1> QED  BY <1>7, <1>8 DEF DustInv

\* A flow that moved nothing.
LEMMA DustUnclassified ==
    ASSUME IsFiniteSet(Flows), ReadsMayFail = FALSE, Receipted, Base, TypeOK',
           MoneyInv, DustInv, NEW w \in Workers, FinalizeUnclassified(w)
    PROVE  DustInv'
<1> USE DEF ledgerVars, chainVars, txVars, handlerVars
<1> DEFINE f == job[w]
<1>1. TypeOK /\ BookInv /\ SyncInv /\ DustBook /\ intent \in [Flows -> Intent]
      /\ position \in Position
  BY DEF Base, MoneyInv, TypeOK, DustInv
<1>2. f \in Flows
  BY DEF FinalizeUnclassified, Base, ControlInv, HasJob
<1>3. /\ UNCHANGED <<tx, chainShares, rate, delta, moves>>
      /\ intent' = [intent EXCEPT ![f].status = "failed"]
      /\ Done(w) /\ Awaited(f) /\ delta[f] = 0
  BY DEF FinalizeUnclassified, StillSubmitted, Awaited
<1>4. /\ \A g \in Flows \ {f} : intent'[g] = intent[g]
      /\ intent'[f].status \in Terminal
  BY <1>1, <1>2, <1>3 DEF Intent, Terminal
<1>5. /\ position'.shares = position.shares /\ position'.basis = position.basis
      /\ position'.version = position.version + 1
  BY <1>1 DEF FinalizeUnclassified, Position
<1>6. intent[f].kind # "deposit" /\ intent[f].shares = 0
  BY <1>2, <1>3 DEF Receipted, Awaited
<1>7. position.shares = chainShares
  <2>1. chainShares + 0 = position.shares
    BY <1>1, <1>2, <1>3, <1>6 DEF BookInv, ReceiptCovers
  <2> QED  BY <1>1, <2>1, Numbers
<1>8. position'.basis <= ChainValue + Dust
  BY <1>1, <1>5, <1>7 DEF DustBook, RowBounded, ChainValue
<1>9. DustBook'
  BY <1>1, <1>2, <1>3, <1>4, <1>5, <1>7, <1>8, ClosedDust
<1>10. position'.version > position.version
  BY <1>1, <1>5, Numbers
<1>11. \A u \in Workers : SnapshotBounded(u)'
  BY <1>1, <1>3, <1>10, DoneKeeps, DustNewVersion
<1> QED  BY <1>9, <1>11 DEF DustInv

\* A sync that starts has read nothing of the chain.
LEMMA DustSyncStart ==
    ASSUME Base, TypeOK', MoneyInv, DustInv, NEW w \in Workers, SyncStart(w)
    PROVE  DustInv'
<1> USE DEF ledgerVars, chainVars, txVars, handlerVars
<1>1. TypeOK /\ SyncInv /\ DustBook
  BY DEF Base, MoneyInv, DustInv
<1>2. UNCHANGED <<position, intent, tx, chainShares, rate, delta, principal, moves>>
  BY DEF SyncStart
<1>3. AccountsKept /\ Unbooked' = Unbooked
  BY <1>1, <1>2, IdleFrame DEF Frame
<1>4. DustBook' /\ Dust' = Dust
  BY <1>1, <1>2, <1>3, DustFrameBook DEF Awaited
<1>5. pc'[w] = "sync_chain"
  BY <1>1 DEF SyncStart, Goto, TypeOK
<1>6. SnapshotBounded(w)'
  BY <1>5 DEF SnapshotBounded
<1>7. ASSUME NEW v \in Workers, v # w PROVE SnapshotBounded(v)'
  <2>1. SnapKept(v)
    BY <1>1, <1>7 DEF SyncStart, Goto, SnapKept, TypeOK
  <2> QED  BY <1>1, <1>3, <1>4, <2>1, DustFrameSync DEF DustInv, SyncInv
<1> QED  BY <1>4, <1>6, <1>7 DEF DustInv

\* The cost a sync asks for counts the added shares once.
LEMMA DustSyncChain ==
    ASSUME IsFiniteSet(Flows), Base, TypeOK', MoneyInv, DustInv,
           NEW w \in Workers, SyncChain(w)
    PROVE  DustInv'
<1> USE DEF ledgerVars, chainVars, txVars, handlerVars
<1> DEFINE s == snap[w]
           t == snap'[w]
<1>1. TypeOK /\ SyncInv /\ RowRead(w) /\ DustBook
  BY DEF Base, MoneyInv, SyncInv, DustInv
<1>2. UNCHANGED <<position, intent, tx, chainShares, rate, delta, principal, moves>>
  BY DEF SyncChain
<1>3. AccountsKept /\ Unbooked' = Unbooked
  BY <1>1, <1>2, IdleFrame DEF Frame
<1>4. DustBook' /\ Dust' = Dust
  BY <1>1, <1>2, <1>3, DustFrameBook DEF Awaited
<1>5. PICK pnl \in PnlReports : snap' = [snap EXCEPT ![w] = SyncInput(snap[w], pnl)]
  BY DEF SyncChain
<1>6. pc[w] = "sync_chain" /\ t = SyncInput(s, pnl)
  BY <1>1, <1>5 DEF SyncChain, Goto, TypeOK
<1> DEFINE added == chainShares - s.ledgerShares
           floor == s.ledgerBasis + AddedCost(added, rate)
           cost == IF ~s.force /\ added > 0 /\ pnl # NoCost
                     THEN MaxBigInt(pnl, floor) ELSE NoCost
<1>7. /\ t.version = s.version /\ t.shares = chainShares /\ t.rate = rate
      /\ t.cost = cost
      /\ t.ledgerShares = s.ledgerShares /\ t.ledgerBasis = s.ledgerBasis
  BY <1>6 DEF SyncInput, AddedCost
<1>8. SnapshotBounded(w)'
  <2> SUFFICES ASSUME t.version = position.version, ~Unbooked
               PROVE  /\ t.rate <= rate
                      /\ t.cost # NoCost => /\ t.cost <= ChainValue + Dust
                                            /\ floor <= t.cost
    BY <1>2, <1>3, <1>4, <1>7 DEF SnapshotBounded, ChainValue
  <2>1. s.ledgerShares = position.shares /\ s.ledgerBasis = position.basis
    BY <1>1, <1>6, <1>7 DEF RowRead, Syncing
  <2>2. /\ chainShares \in Nat /\ rate \in Nat /\ Dust \in Nat
        /\ position.shares \in Nat /\ position.basis \in Nat
        /\ ChainValue \in Nat
    BY <1>1, Numbers, DustType, ChainValueType
  <2>3. ASSUME t.cost # NoCost PROVE t.cost <= ChainValue + Dust /\ floor <= t.cost
    <3> DEFINE x == ComputePositionValue(position.shares, rate)
               y == ComputePositionValue(added, rate)
               c == AddedCost(added, rate)
    <3>1. added > 0 /\ pnl # NoCost /\ t.cost = MaxBigInt(pnl, floor)
      BY <1>7, <2>3
    <3>2. added \in Nat /\ ~SharesMatch /\ position.shares + added = chainShares
      BY <2>1, <2>2, <3>1 DEF SharesMatch
    <3>3. pnl \in Nat /\ pnl <= ChainValue
      BY <2>2, <3>1 DEF PnlReports
    <3>4. position.basis + 1 <= x + Dust
      BY <1>1, <3>2 DEF DustBook, LagBounded
    <3>5. c <= y + 1 /\ c \in Nat /\ y \in Nat /\ x \in Nat
      BY <2>2, <3>2, CostValueGap, CostBounds, ValueBounds
    <3>6. x + y <= ChainValue
      BY <2>2, <3>2, ValueSplit DEF ChainValue
    <3>7. floor = position.basis + c
      BY <2>1
    <3> HIDE DEF x, y, c, added, floor
    <3>8. floor \in Nat /\ floor <= ChainValue + Dust
      BY <2>2, <3>4, <3>5, <3>6, <3>7
    <3>9. t.cost <= ChainValue + Dust /\ floor <= t.cost
      BY <2>2, <3>1, <3>3, <3>8 DEF MaxBigInt
    <3> QED  BY <3>9 DEF floor, added
  <2> QED  BY <1>7, <2>2, <2>3
<1>9. ASSUME NEW v \in Workers, v # w PROVE SnapshotBounded(v)'
  <2>1. SnapKept(v)
    BY <1>1, <1>5, <1>9 DEF SyncChain, Goto, SnapKept, TypeOK
  <2> QED  BY <1>1, <1>3, <1>4, <2>1, DustFrameSync DEF DustInv, SyncInv
<1> QED  BY <1>4, <1>8, <1>9 DEF DustInv

\* What an accepted sync writes as the basis exceeds the value of the shares
\* it writes by dust, and by less if shares have moved since.
LEMMA DustApplied ==
    ASSUME IsFiniteSet(Flows), TypeOK, DustBook, NEW w \in Workers, RowRead(w),
           SnapshotCovers(w), SnapshotBounded(w), pc[w] = "sync_apply",
           ~SyncRefused(snap[w])
    PROVE  /\ SyncedBasis(snap[w])
                <= ComputePositionValue(snap[w].shares, rate) + Dust
           /\ snap[w].shares # chainShares =>
                /\ moves > 0
                /\ SyncedBasis(snap[w]) + 1
                     <= ComputePositionValue(snap[w].shares, rate) + Dust
<1> DEFINE s == snap[w]
           value == ComputePositionValue(s.shares, s.rate)
           worth == ComputePositionValue(s.shares, rate)
<1>1. /\ s.shares \in Nat /\ s.rate \in Nat /\ s.ledgerShares \in Nat
      /\ s.cost \in Nat \cup {NoCost} /\ s.ledgerBasis \in Nat
  BY Numbers DEF Snapshot
<1>2. /\ chainShares \in Nat /\ rate \in Nat /\ Dust \in Nat /\ moves \in Nat
      /\ DustCount \in Nat /\ position.shares \in Nat /\ position.basis \in Nat
  BY Numbers, DustType
<1>3. s.version = position.version /\ ~Unbooked
  BY DEF SyncRefused, SubmittedFlows, Unbooked, Awaited
<1>4. s.ledgerShares = position.shares /\ s.ledgerBasis = position.basis
  BY <1>3 DEF RowRead, Syncing
<1>5. /\ s.shares \in {chainShares, position.shares}
      /\ s.cost = NoCost => s.force \/ s.shares = s.ledgerShares
      /\ s.cost # NoCost => s.shares > s.ledgerShares
  BY <1>3 DEF SnapshotCovers
<1>6. /\ s.rate <= rate
      /\ s.cost # NoCost =>
           /\ s.cost <= value + Dust
           /\ position.basis + AddedCost(s.shares - position.shares, s.rate)
                <= s.cost
  BY <1>3, <1>4 DEF SnapshotBounded
<1>7. value \in Nat /\ worth \in Nat /\ value <= worth
  BY <1>1, <1>2, <1>6, ValueBounds, ValueMonotone
\* Shares that moved since the sync read them are a movement without its cost.
<1>8. ASSUME s.shares # chainShares
      PROVE  /\ moves > 0 /\ Dust >= 1 /\ s.shares = position.shares
             /\ position.basis + 1 <= worth + Dust
  <2>1. s.shares = position.shares /\ ~SharesMatch
    BY <1>5, <1>8 DEF SharesMatch
  <2>2. moves > 0 /\ position.basis + 1 <= worth + Dust
    BY <1>3, <2>1 DEF DustBook, LagBounded
  <2> QED  BY <1>2, <2>1, <2>2 DEF Dust
<1>9. CASE SyncedBasis(s) = value
  <2> HIDE DEF value, worth
  <2>1. SyncedBasis(s) <= worth + Dust
    BY <1>2, <1>7, <1>9
  <2>2. ASSUME s.shares # chainShares PROVE SyncedBasis(s) + 1 <= worth + Dust
    BY <1>2, <1>7, <1>8, <1>9, <2>2
  <2> QED  BY <1>8, <2>1, <2>2 DEF worth
<1>10. CASE s.cost = NoCost /\ SyncedBasis(s) # value
  <2>1. SyncedBasis(s) = position.basis /\ ~RunConservativeReset(s)
    BY <1>10 DEF SyncedBasis
  <2>2. s.shares = position.shares
    BY <1>4, <1>5, <1>10, <2>1 DEF RunConservativeReset
  <2>3. position.basis <= worth + Dust
    BY <2>2 DEF DustBook, RowBounded
  <2> QED  BY <1>8, <2>1, <2>3
<1>11. CASE s.cost # NoCost /\ SyncedBasis(s) # value
  <2>1. s.cost \in Nat /\ s.shares > position.shares
    BY <1>1, <1>4, <1>5, <1>11
  <2>2. s.shares = chainShares
    BY <1>2, <1>5, <2>1
  <2> DEFINE c == AddedCost(s.shares - position.shares, s.rate)
  <2>3. c \in Nat
    <3>1. s.shares - position.shares \in Nat
      BY <1>1, <1>2, <2>1
    <3> QED  BY <1>1, <3>1, CostBounds
  <2>4. position.basis + c <= s.cost /\ s.cost <= value + Dust
    BY <1>6, <1>11
  <2>5. PICK floor \in {position.basis, position.basis + c} :
          SyncedBasis(s) = MaxBigInt(MaxBigInt(position.basis, s.cost), floor)
    BY <1>11 DEF SyncedBasis, AddedCost
  <2> HIDE DEF c, value, worth
  <2>6. MaxBigInt(position.basis, s.cost) = s.cost
    BY <1>2, <2>1, <2>3, <2>4 DEF MaxBigInt
  <2>7. SyncedBasis(s) = s.cost
    BY <1>2, <2>1, <2>3, <2>4, <2>5, <2>6 DEF MaxBigInt
  <2>8. SyncedBasis(s) <= worth + Dust
    BY <1>2, <1>7, <2>1, <2>4, <2>7
  <2> QED  BY <2>2, <2>8 DEF worth
<1> QED  BY <1>9, <1>10, <1>11

\* Applying a sync.
LEMMA DustSyncApply ==
    ASSUME IsFiniteSet(Flows), Base, TypeOK', MoneyInv, DustInv,
           NEW w \in Workers, SyncApply(w)
    PROVE  DustInv'
<1> USE DEF ledgerVars, chainVars, txVars, handlerVars
<1> DEFINE s == snap[w]
<1>1. /\ TypeOK /\ SyncInv /\ RowRead(w) /\ SnapshotCovers(w)
      /\ DustBook /\ SnapshotBounded(w) /\ position \in Position
  BY DEF Base, MoneyInv, SyncInv, TypeOK, DustInv
<1>2. /\ UNCHANGED <<intent, tx, chainShares, rate, delta, principal, moves>>
      /\ Done(w) /\ pc[w] = "sync_apply"
  BY DEF SyncApply
<1>3. \A v \in Workers : SnapKept(v)
  BY <1>1, <1>2, DoneKeeps
<1>4. CASE SyncRefused(s)
  <2>1. position' = position
    BY <1>4 DEF SyncApply
  <2>2. AccountsKept /\ Unbooked' = Unbooked
    BY <1>1, <1>2, <2>1, IdleFrame DEF Frame
  <2>3. DustBook' /\ Dust' = Dust
    BY <1>1, <1>2, <2>2, DustFrameBook DEF Awaited
  <2>4. \A v \in Workers : SnapshotBounded(v)'
    BY <1>1, <1>3, <2>2, <2>3, DustFrameSync DEF DustInv, SyncInv
  <2> QED  BY <2>3, <2>4 DEF DustInv
<1>5. CASE ~SyncRefused(s)
  <2>1. PICK st : position' = [position EXCEPT !.shares = s.shares,
                                               !.basis = SyncedBasis(s),
                                               !.established = TRUE,
                                               !.status = st,
                                               !.version = @ + 1]
    BY <1>5 DEF SyncApply
  <2>2. /\ position'.shares = s.shares /\ position'.basis = SyncedBasis(s)
        /\ position'.version = position.version + 1
    BY <1>1, <2>1 DEF Position
  <2>3. position'.version > position.version
    BY <1>1, <2>2, Numbers
  <2>4. \A v \in Workers : SnapshotBounded(v)'
    BY <1>1, <1>3, <2>3, DustNewVersion
  <2>5. \A f \in Flows : ~Awaited(f)'
    BY <1>2, <1>5 DEF SyncRefused, SubmittedFlows, Awaited
  <2>6. Dust' = Dust
    BY <1>2 DEF Dust, DustCount
  <2>7. /\ SyncedBasis(s) <= ComputePositionValue(s.shares, rate) + Dust
        /\ s.shares # chainShares =>
             /\ moves > 0
             /\ SyncedBasis(s) + 1 <= ComputePositionValue(s.shares, rate) + Dust
    BY <1>1, <1>2, <1>5, DustApplied
  <2>8. RowBounded' /\ LagBounded'
    BY <1>2, <2>2, <2>6, <2>7 DEF RowBounded, LagBounded, SharesMatch
  <2>9. AwaitedBounded' /\ NoEarlyDelta'
    BY <1>1, <1>2, <2>5 DEF AwaitedBounded, NoEarlyDelta, DustBook
  <2> QED  BY <2>4, <2>8, <2>9 DEF DustInv, DustBook
<1> QED  BY <1>4, <1>5

\* Initially the basis is the value.
LEMMA DustInit == IsFiniteSet(Flows) /\ Init => DustInv
<1> SUFFICES ASSUME IsFiniteSet(Flows), Init PROVE DustInv
  OBVIOUS
<1> USE DEF Init
<1>1. TypeOK
  BY TypeInit
<1>2. /\ \A f \in Flows : ~Awaited(f)
      /\ \A w \in Workers : SnapshotBounded(w)
      /\ SharesMatch /\ NoEarlyDelta
  BY DEF Awaited, SnapshotBounded, SharesMatch, NoEarlyDelta
<1>3. position.basis = ComputePositionValue(position.shares, rate)
  OBVIOUS
<1>4. position.basis \in Nat /\ Dust \in Nat
  BY <1>1, Numbers, DustType
<1>5. RowBounded
  BY <1>3, <1>4 DEF RowBounded
<1> QED  BY <1>2, <1>5 DEF DustInv, DustBook, LagBounded, AwaitedBounded

\* Every step keeps the bounds.
LEMMA DustStep ==
    ASSUME IsFiniteSet(Flows), MovesInFlight = FALSE, ReadsMayFail = FALSE,
           Base, TypeOK', MoneyInv, Receipted, DustInv, [Next]_vars,
           [MovedWhenSynced]_vars
    PROVE  DustInv'
<1>1. CASE ~MovingStep
  BY <1>1, DustQuiet
<1>2. ASSUME NEW f \in Flows, Prepare(f) \/ Land(f) PROVE DustInv'
  BY <1>2, DustQuiet, DustLand
<1>3. ASSUME NEW w \in Workers, FinalizeReceipt(w) \/ FinalizeUnclassified(w)
      PROVE  DustInv'
  BY <1>3, DustReceipt, DustUnclassified
<1>4. ASSUME NEW w \in Workers, SyncStart(w) \/ SyncChain(w) \/ SyncApply(w)
      PROVE  DustInv'
  BY <1>4, DustSyncStart, DustSyncChain, DustSyncApply
<1>5. ASSUME NEW d \in Moves, ExternalMove(d) PROVE DustInv'
  <2>1. SharesMatch \/ UNCHANGED vars
    BY <1>5 DEF MovedWhenSynced
  <2>2. moves' = moves + 1 /\ moves \in Nat
    BY <1>5 DEF ExternalMove, Base, TypeOK
  <2>3. moves' # moves
    BY <2>2
  <2> QED  BY <1>5, <2>1, <2>3, DustMove DEF vars
<1>6. CASE Accrue
  BY <1>6, DustAccrue
<1> QED  BY <1>1, <1>2, <1>3, <1>4, <1>5, <1>6 DEF MovingStep

(***************************************************************************)
(* No movement is counted twice: the basis that receipts and syncs have    *)
(* written exceeds the value of a settled position by one unit at most for *)
(* each flow that moved money and each movement outside Subly.             *)
(***************************************************************************)
THEOREM NothingCountedTwice ==
    ASSUME IsFiniteSet(Flows), MovesInFlight = FALSE, ReadsMayFail = FALSE,
           OverheadCoversShare
    PROVE  Spec /\ []Receipted /\ [][MovedWhenSynced]_vars
             => []NoPhantomPrincipal
<1>1. Base /\ Base' /\ MoneyInv /\ DustInv /\ Receipted /\ [Next]_vars
        /\ [MovedWhenSynced]_vars => DustInv'
  BY DustStep DEF Base
<1>2. Init => DustInv
  BY DustInit
<1>3. Spec => []Base
  BY Invariance, SentInvariance, PTL DEF Base
<1>4. TypeOK /\ DustInv => NoPhantomPrincipal
  <2> SUFFICES ASSUME TypeOK, DustInv, Settled
               PROVE  position.basis <= ChainValue + DustCount + moves
    BY DEF NoPhantomPrincipal, DustCount
  <2>1. position.basis <= ChainValue + Dust
    BY DEF DustInv, DustBook, RowBounded, Settled, SharesMatch, ChainValue
  <2>2. ChainValue \in Nat /\ DustCount \in Nat /\ moves \in Nat
        /\ position.basis \in Nat
    BY ChainValueType, DustType, Numbers
  <2>3. Dust = DustCount + moves
    BY DEF Dust
  <2> QED  BY <2>1, <2>2, <2>3
<1> QED  BY <1>1, <1>2, <1>3, <1>4, MoneyInvariance, TypeCorrect, PTL DEF Spec
=============================================================================
