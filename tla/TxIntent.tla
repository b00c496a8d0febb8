------------------------------ MODULE TxIntent ------------------------------
(***************************************************************************)
(* What an agent wallet signs.  The relayer builds a transaction           *)
(* (src/domain/kamino-transaction-builder.ts for payments, the Kamino SDK  *)
(* for deposits and withdrawals) and describes it by an intent; the client *)
(* decodes it and signs only if it is the transaction the intent describes *)
(* (src/client/transaction-intent-validator.ts, agent-wallet-signer.ts and *)
(* withdrawal-preview.ts); the relayer settles only what it built          *)
(* (src/domain/payment-payload-verifier.ts).                               *)
(*                                                                         *)
(* A transaction is a sequence of decoded instructions.  Whatever the      *)
(* client is offered differs from what the builder makes by at most        *)
(* MaxEdits changes, to the instructions, the envelope or the intent.      *)
(* Executed is the reference: what the Solana programs do with it.         *)
(***************************************************************************)
EXTENDS Budget, Sequences, SequencesExt

CONSTANTS
    Amount,         \* the amount the agent asked for
    Rates,          \* USDC per share is rate / RateScale
    PenaltyBps, PenaltyLamports,    \* the vault's withdrawal penalty
    Losses,         \* what the program's rounding may take from an output
    Margin,         \* SHARES_TO_REDEEM_MARGIN
    Rounding,       \* WITHDRAWAL_ROUNDING_RAW_USDC
    Overhead,       \* realizeOverheadRawUsdc
    MaxUnits,       \* compute-unit, compute-price and rent limits of the policy
    Holdings,       \* what the wallet may hold
    MaxEdits        \* bound on changes

ASSUME TxIntentAssumption ==
    /\ Amount \in Nat \ {0} /\ Rates \subseteq Nat \ {0}
    /\ Losses \subseteq Nat
    /\ Holdings \subseteq [free : Nat, staked : Nat, basis : Nat]
    /\ {PenaltyBps, PenaltyLamports, Margin, Rounding, Overhead, MaxUnits, MaxEdits}
         \subseteq Nat
    /\ PenaltyBps < FullBps

VARIABLES
    kind,       \* "payment", "deposit", "withdrawal", or "realize" for one that
                \* realizes yield
    held,       \* the wallet's shares and its principal, [free, staked, basis]
    built,      \* the instructions the relayer built
    intent,     \* the signing intent it describes them with
    offered,    \* the transaction the client decodes
    seen,       \* the market, [rate, loss], of the relayer's simulation
    edits,      \* changes made so far
    stage       \* "offered", "signed" by a client that validates, "returned" by
                \* one that does not, "settled"

vars == <<kind, held, built, intent, offered, seen, edits, stage>>

-----------------------------------------------------------------------------
(* Instructions: program, operation, the authority and the accounts and     *)
(* amount the checks look at.                                               *)

Ix(prog, op, owner, from, to, n) ==
    [prog |-> prog, op |-> op, owner |-> owner, from |-> from, to |-> to, n |-> n]

Limit(n)        == Ix("computeBudget", "limit", "none", "none", "none", n)
Price(n)        == Ix("computeBudget", "price", "none", "none", "none", n)
CreateTemp(payer, n) == Ix("system", "create", payer, payer, "temp", n)
InitTemp(owner) == Ix("token", "init", owner, "usdc", "temp", 0)
Unstake(state)  == Ix("farms", "unstake", "wallet", state, "farm", 1)
FarmWithdraw(state, to) == Ix("farms", "withdraw", "wallet", state, to, 0)
Redeem(to, n)   == Ix("kvault", "withdraw", "wallet", "walletShares", to, n)
Invest(from, to, n) == Ix("kvault", "deposit", "wallet", from, to, n)
Transfer(from, to, n) == Ix("token", "transfer", "wallet", from, to, n)
Close(from, to) == Ix("token", "close", "wallet", from, to, 0)
Memo(text)      == Ix("memo", text, "none", "none", "none", 0)
CreateAta(owner) == Ix("ata", "create", owner, "none", "none", 0)
OtherProgram    == Ix("other", "any", "wallet", "walletUsdc", "strangerUsdc", 1)

FullExit == 99      \* U64_MAX: burn every share

Accounts == {"walletUsdc", "walletShares", "staked", "pending", "temp",
             "sellerUsdc", "strangerUsdc", "strangerShares"}
\* What the wallet holds.
Before == [a \in Accounts |-> CASE a = "walletUsdc" -> 2 * Amount
                                [] a = "walletShares" -> held.free
                                [] a = "staked" -> held.staked
                                [] OTHER -> 0]
WalletShares(bal) == bal["walletShares"] + bal["staked"] + bal["pending"]

-----------------------------------------------------------------------------
(* The reference: the effect of a transaction (external programs).          *)

\* The vault keeps its penalty, and rounding may take a loss.
Output(n, m) ==
    ClampToZero(NetOf(ComputePositionValue(n, m.rate), PenaltyBps, PenaltyLamports)
                  - m.loss)

Move(st, from, to, n) ==
    IF st.bal[from] < n THEN [st EXCEPT !.ok = FALSE]
    ELSE [st EXCEPT !.bal[from] = @ - n, !.bal[to] = @ + n]

Failed(st) == [st EXCEPT !.ok = FALSE]

\* One instruction, in market m.  The token program closes only an empty
\* account, and a vault mints shares only to their depositor.
Step(st, ix, m) ==
    CASE ix.op = "unstake" -> Move(st, "staked", "pending", st.bal["staked"])
      [] ix.prog = "farms" /\ ix.op = "withdraw" ->
           Move(st, "pending", ix.to, st.bal["pending"])
      [] ix.prog = "kvault" /\ ix.op = "withdraw" ->
           LET n == IF ix.n = FullExit THEN st.bal[ix.from] ELSE ix.n
           IN  IF st.bal[ix.from] < n THEN Failed(st)
               ELSE [st EXCEPT !.bal[ix.from] = @ - n,
                               !.bal[ix.to] = @ + Output(n, m),
                               !.burned = @ + n]
      [] ix.prog = "kvault" /\ ix.op = "deposit" ->
           IF st.bal[ix.from] < ix.n \/ ix.to # "walletShares" THEN Failed(st)
           ELSE [st EXCEPT !.bal[ix.from] = @ - ix.n,
                           !.bal[ix.to] = @ + (ix.n * RateScale) \div m.rate]
      [] ix.op = "transfer" \/ ix.prog = "other" -> Move(st, ix.from, ix.to, ix.n)
      [] ix.op = "close" -> IF st.bal[ix.from] > 0 THEN Failed(st)
                            ELSE [st EXCEPT !.rent = ix.to]
      [] OTHER -> st

\* Every step succeeds or the transaction has no effect.
Executed(ixs, m) ==
    FoldLeft(LAMBDA st, ix : IF st.ok THEN Step(st, ix, m) ELSE st,
             [ok |-> TRUE, bal |-> Before, burned |-> 0, rent |-> "none"], ixs)

Markets == [rate : Rates, loss : Losses]

-----------------------------------------------------------------------------
(* Building.                                                                *)

Intent(max) == [vault |-> "pinned", seller |-> "sellerUsdc", amount |-> Amount,
                max |-> max, full |-> FALSE, feePayer |-> "sponsor",
                live |-> TRUE, bound |-> TRUE]

Envelope(ixs) == [ixs |-> ixs, feePayer |-> "sponsor", signers |-> "expected",
                  decodes |-> TRUE]

\* quoteSettlementWithdraw, and the same computation in prepareWithdrawal: the
\* shares whose value, less the penalty, is the target.
Gross(target) == GrossWithdrawForNetTarget(target, PenaltyBps, PenaltyLamports)
Quote(target, rate) == SharesToRedeem(Gross(target), rate)

\* The burn is raised until the simulated output covers the payment, at most
\* three times and never above max; 0 when that is not enough.
Probe(rate, m, max) ==
    LET tried[n \in 0 .. 3] ==
            IF n = 0 THEN MinBigInt(Quote(Amount, rate), max)
            ELSE LET s       == tried[n - 1]
                     deficit == Amount - Output(s, m)
                     bump    == MaxBigInt(CeilDiv(deficit * RateScale, rate), 1)
                 IN  IF s = 0 \/ deficit <= 0 THEN s
                     ELSE IF s + bump > max THEN 0 ELSE s + bump
    IN  IF Output(tried[3], m) >= Amount THEN tried[3] ELSE 0

\* The probe loop of preparePaymentSettlement; the intent approves the quoted
\* shares and a margin.
ProbeShares(quoted, rate, m) == Probe(rate, m, Quote(Amount, quoted) + Margin)

\* unstakeIxs: only when the unstaked shares do not cover the burn.
FarmPair(n) == IF n > Before["walletShares"]
                 THEN <<Unstake("state"), FarmWithdraw("state", "walletShares")>>
                 ELSE <<>>

\* The canonical settlement transaction; dust is swept only when there is any.
CanonicalSettlement(shares, m) ==
    LET dust == Output(shares, m) - Amount
    IN  <<Limit(1), Price(1), CreateTemp("sponsor", 1), InitTemp("wallet")>>
        \o FarmPair(shares) \o <<Redeem("temp", shares)>>
        \o <<Transfer("temp", "sellerUsdc", Amount)>>
        \o (IF dust > 0 THEN <<Transfer("temp", "walletUsdc", dust)>> ELSE <<>>)
        \o <<Close("temp", "sponsor"), Memo("paymentId")>>

Build(k, ixs, i, m) ==
    /\ kind = k
    /\ built = ixs
    /\ intent = i
    /\ offered = Envelope(ixs)
    /\ seen = m
    /\ edits = 0
    /\ stage = "offered"

\* preparePaymentSettlement.  The quote, the cached vault context and the
\* simulation may each have seen another rate.
BuildPayment ==
    \E quoted \in Rates, rate \in Rates, m \in Markets :
        LET shares == ProbeShares(quoted, rate, m)
        IN  /\ 0 < shares /\ shares <= WalletShares(Before)
            /\ Executed(CanonicalSettlement(shares, m), m).ok
            /\ Build("payment", CanonicalSettlement(shares, m),
                     Intent(Quote(Amount, quoted) + Margin), m)

BuildDeposit ==
    \E m \in Markets :
        Build("deposit",
              <<Limit(1), Price(1), CreateAta("wallet"),
                Invest("walletUsdc", "walletShares", Amount)>>, Intent(0), m)

\* YIELD_REALIZE_ROUNDING_RAW_USDC.
Headroom == Rounding \div 2

\* Mutant: a realization aims at the amount.
TargetExact(k) == Amount

\* A realization aims above the amount, so that rounding does not leave it short.
Target(k) == IF k = "realize" THEN Amount + Headroom ELSE Amount

\* prepareWithdrawal never asks for more than every share.
RequestedShares(k, rate) == MinBigInt(Quote(Target(k), rate), WalletShares(Before))

\* A realization must fit in the yield, with the overhead the sponsor is owed;
\* nothing is reserved or owed yet and the vault is liquid.
WithinYield(rate) ==
    LET gross    == Gross(Target("realize"))
        position == [shares |-> WalletShares(Before), rate |-> rate,
                     basis |-> held.basis, reserved |-> 0, feeDebt |-> 0,
                     buffer |-> 0, capacity |-> gross]
    IN  EvaluatePaymentBudget(position, gross, Overhead, 0) = "ok"

\* A withdrawal that needs every share exits the vault.
BuildWithdrawal(k) ==
    \E m \in Markets :
        LET n    == RequestedShares(k, m.rate)
            exit == n >= WalletShares(Before)
        IN  /\ k = "realize" => WithinYield(m.rate)
            /\ Build(k,
                  <<Limit(1), Price(1), CreateAta("wallet")>> \o FarmPair(n)
                  \o <<Redeem("walletUsdc", IF exit THEN FullExit ELSE n)>>
                  \o (IF exit THEN <<Close("walletShares", "wallet")>> ELSE <<>>),
                  [Intent(n) EXCEPT !.full = exit], m)

-----------------------------------------------------------------------------
(* Changes on the way to the client.                                        *)

Alphabet ==
    {Limit(MaxUnits + 1), CreateTemp("sponsor", MaxUnits + 1),
     CreateTemp("wallet", 1), InitTemp("stranger"),
     Unstake("state"), FarmWithdraw("state", "walletShares"),
     FarmWithdraw("state", "strangerShares"), FarmWithdraw("other", "walletShares"),
     Redeem("walletUsdc", 1), Redeem("temp", 3), Redeem("strangerUsdc", 1),
     Redeem("walletUsdc", FullExit), Invest("walletUsdc", "walletShares", Amount),
     Invest("walletUsdc", "strangerShares", Amount),
     Transfer("temp", "sellerUsdc", Amount + 1), Transfer("temp", "walletUsdc", 1),
     Transfer("walletUsdc", "strangerUsdc", 1), Transfer("walletUsdc", "sellerUsdc", Amount),
     Close("temp", "stranger"), Close("temp", "wallet"), Close("walletShares", "wallet"),
     CreateAta("stranger"), Memo("other"), OtherProgram}

\* An instruction is replaced, inserted or left out.
EditInstructions ==
    /\ \E i \in 1 .. Len(offered.ixs) :
         LET ixs == offered.ixs
         IN  \/ \E x \in Alphabet :
                  \/ offered' = [offered EXCEPT !.ixs[i] = x]
                  \/ offered' = [offered EXCEPT !.ixs = InsertAt(ixs, i, x)]
             \/ offered' = [offered EXCEPT !.ixs = RemoveAt(ixs, i)]
    /\ UNCHANGED intent

EditEnvelope ==
    /\ \/ offered' = [offered EXCEPT !.feePayer = "wallet"]
       \/ offered' = [offered EXCEPT !.signers = "other"]
       \/ offered' = [offered EXCEPT !.decodes = FALSE]
    /\ UNCHANGED intent

EditIntent ==
    /\ \/ intent' = [intent EXCEPT !.vault = "other"]
       \/ intent' = [intent EXCEPT !.seller = "strangerUsdc"]
       \/ intent' = [intent EXCEPT !.amount = @ + 1]
       \/ intent' = [intent EXCEPT !.full = TRUE]
       \/ intent' = [intent EXCEPT !.feePayer = "wallet"]
       \/ intent' = [intent EXCEPT !.live = FALSE]
       \/ intent' = [intent EXCEPT !.bound = FALSE]
    /\ UNCHANGED offered

Edit ==
    /\ stage = "offered"
    /\ edits < MaxEdits
    /\ edits' = edits + 1
    /\ EditInstructions \/ EditEnvelope \/ EditIntent
    /\ UNCHANGED <<kind, held, built, seen, stage>>

-----------------------------------------------------------------------------
(* Validating.                                                              *)

\* assertVaultIntentTargets, the expiry, and the client's own comparison of
\* the intent with the operation it asked for.
IntentAccepted ==
    /\ intent.live
    /\ intent.vault = "pinned"
    /\ intent.amount = Amount

\* validateComputeBudgetInstruction.
BudgetOK(ix) == /\ ix.prog = "computeBudget"
                /\ ix.n <= MaxUnits /\ (ix.op = "limit" => ix.n > 0)
\* expectAtaCreateForOwner.
AtaOK(ix) == ix.owner = "wallet"
\* validateFarmUnstakeInstruction.
UnstakeOK(ix) == ix.prog = "farms" /\ ix.op = "unstake" /\ ix.n > 0
                 /\ ix.owner = "wallet" /\ ix.to = "farm"
\* validateFarmWithdrawInstruction.
FarmWithdrawOK(ix, unstake) ==
    /\ ix.prog = "farms" /\ ix.op = "withdraw"
    /\ ix.owner = "wallet"
    /\ ix.from = unstake.from
    /\ ix.to = "walletShares"

\* validateKvaultWithdrawInstruction.
RedeemOK(ix, to, full) ==
    /\ ix.prog = "kvault" /\ ix.op = "withdraw"
    /\ IF ix.n = FullExit THEN full ELSE ix.n <= intent.max
    /\ ix.owner = "wallet" /\ ix.from = "walletShares" /\ ix.to = to

IsTransfer(ix, to) ==
    ix.op = "transfer" /\ ix.from = "temp" /\ ix.to = to /\ ix.owner = "wallet"

\* expectTransferChecked.
TransferOK(ix, to, amount) == IsTransfer(ix, to) /\ ix.n = amount
SweepOK(ix) == IsTransfer(ix, "walletUsdc")
\* expectCreateTemporaryAccount, expectInitializeTemporaryAccount.
TempOK(create, init) ==
    /\ create.prog = "system" /\ create.n <= MaxUnits
    /\ create.from = intent.feePayer /\ create.to = "temp"
    /\ init.op = "init" /\ init.owner = "wallet" /\ init.to = "temp"
\* expectCloseAccount, expectMemo.
CloseOK(ix) == ix.op = "close" /\ ix.from = "temp" /\ ix.to = intent.feePayer
MemoOK(ix) == ix.prog = "memo" /\ ix.op = "paymentId"

\* decodeIntentTransaction and the checks of the envelope.
EnvelopeOK == offered.decodes /\ offered.feePayer = intent.feePayer

(***************************************************************************)
(* validatePaymentIntentTransaction: exactly the canonical sequence, in    *)
(* order, the farm pair and the dust sweep optional.                       *)
(***************************************************************************)
PaymentAccepted ==
    LET ixs   == offered.ixs
        farm  == IF Len(ixs) > 4 /\ ixs[5].prog = "farms" THEN 2 ELSE 0
        sweep == IF Len(ixs) > farm + 6 /\ ixs[farm + 7].op = "transfer" THEN 1
                 ELSE 0
    IN  /\ intent.seller = "sellerUsdc" /\ intent.bound
        /\ EnvelopeOK /\ offered.signers = "expected"
        /\ Len(ixs) = 8 + farm + sweep
        /\ BudgetOK(ixs[1]) /\ ixs[1].op = "limit"
        /\ BudgetOK(ixs[2]) /\ ixs[2].op = "price"
        /\ TempOK(ixs[3], ixs[4])
        /\ farm = 2 => UnstakeOK(ixs[5]) /\ FarmWithdrawOK(ixs[6], ixs[5])
        /\ RedeemOK(ixs[farm + 5], "temp", FALSE)
        /\ TransferOK(ixs[farm + 6], intent.seller, intent.amount)
        /\ sweep = 1 => SweepOK(ixs[farm + 7])
        /\ CloseOK(ixs[farm + sweep + 7])
        /\ MemoOK(ixs[farm + sweep + 8])

\* The positions of the instructions of one program.
Of(prog) == {i \in DOMAIN offered.ixs : offered.ixs[i].prog = prog}

\* Mutant: every deposit of the right amount is accepted.
DepositAcceptedRepeatedly ==
    /\ EnvelopeOK
    /\ Of("kvault") # {}
    /\ \A i \in DOMAIN offered.ixs :
         LET ix == offered.ixs[i]
         IN  CASE ix.prog = "computeBudget" -> BudgetOK(ix)
               [] ix.prog = "ata" -> AtaOK(ix)
               [] ix.prog = "memo" -> TRUE
               [] ix.prog = "kvault" -> ix.op = "deposit" /\ ix.n = intent.amount
                                        /\ ix.from = "walletUsdc"
               [] OTHER -> FALSE

\* validateDepositIntentTransaction: in any order, exactly one deposit.
DepositAccepted ==
    /\ EnvelopeOK
    /\ Cardinality(Of("kvault")) = 1
    /\ \A i \in DOMAIN offered.ixs :
         LET ix == offered.ixs[i]
         IN  CASE ix.prog = "computeBudget" -> BudgetOK(ix)
               [] ix.prog = "ata" -> AtaOK(ix)
               [] ix.prog = "memo" -> TRUE
               [] ix.prog = "kvault" -> ix.op = "deposit" /\ ix.n = intent.amount
                                        /\ ix.owner = "wallet" /\ ix.from = "walletUsdc"
               [] OTHER -> FALSE

\* validateWithdrawalIntentTransaction: in any order, exactly one withdrawal,
\* and no farm instruction or an unstake before its withdrawal.
WithdrawalAccepted ==
    /\ EnvelopeOK
    /\ Cardinality(Of("kvault")) = 1
    /\ Cardinality(Of("farms")) \in {0, 2}
    /\ \A i \in DOMAIN offered.ixs :
         LET ix    == offered.ixs[i]
             first == \A j \in Of("farms") : i <= j
             prior == CHOOSE j \in Of("farms") : j # i
         IN  CASE ix.prog = "computeBudget" -> BudgetOK(ix)
               [] ix.prog = "ata" -> AtaOK(ix)
               [] ix.prog = "memo" -> TRUE
               [] ix.prog = "farms" -> IF first THEN UnstakeOK(ix)
                                       ELSE FarmWithdrawOK(ix, offered.ixs[prior])
               [] ix.prog = "token" -> ix.op = "close" /\ ix.to = "wallet"
                                       /\ ix.owner = "wallet"
               [] ix.prog = "kvault" -> RedeemOK(ix, "walletUsdc", intent.full)
               [] OTHER -> FALSE

\* The least a withdrawal may yield: a realization covers its payment.
Minimum == IF kind = "realize" THEN Amount ELSE Amount - Rounding

\* assertWithdrawalPreview, on what the client's own RPC simulates.
PreviewOK(m) ==
    LET e        == Executed(offered.ixs, m)
        received == e.bal["walletUsdc"] - Before["walletUsdc"]
    IN  /\ e.ok
        /\ Minimum <= received /\ received <= Amount + Rounding
        /\ received > 0

\* assertPreparedWithdrawal: a realization never exits the vault.
PreparedOK == kind = "realize" => ~intent.full

\* signPayment, signDeposit, and signWithdrawal after its preview.
Accepted(m) ==
    /\ IntentAccepted
    /\ CASE kind = "payment" -> PaymentAccepted
         [] kind = "deposit" -> DepositAccepted
         [] OTHER -> PreparedOK /\ WithdrawalAccepted /\ PreviewOK(m)

Sign ==
    /\ stage = "offered"
    /\ \E m \in Markets : Accepted(m) /\ seen' = m
    /\ stage' = "signed"
    /\ UNCHANGED <<kind, held, built, intent, offered, edits>>

\* A client with a signer of its own returns the transaction unchecked.
SignBlindly ==
    /\ stage = "offered"
    /\ stage' = "returned"
    /\ UNCHANGED <<kind, held, built, intent, offered, seen, edits>>

\* It parses, and its hash is that of the prepared message.
MessagePrepared == /\ offered.decodes
                   /\ offered.ixs = built /\ offered.feePayer = "sponsor"

\* verifyRequiredSigner.
RequiredSigned == offered.signers = "expected"

\* Mutant: only the signatures are checked.
SignaturesVerified == RequiredSigned

\* StrictPaymentPayloadVerifier: the message is the prepared one and carries
\* the signatures of the agent and of the temporary account.
PayloadVerified == MessagePrepared /\ RequiredSigned

\* verifyAgentSignedFlowTransaction: the same for the agent alone.
FlowVerified == MessagePrepared /\ RequiredSigned

\* The sponsor signs and submits.
Settle ==
    /\ stage \in {"signed", "returned"}
    /\ IF kind = "payment" THEN PayloadVerified ELSE FlowVerified
    /\ stage' = "settled"
    /\ UNCHANGED <<kind, held, built, intent, offered, seen, edits>>

Init ==
    /\ held \in Holdings
    /\ BuildPayment \/ BuildDeposit
       \/ \E k \in {"withdrawal", "realize"} : BuildWithdrawal(k)

Next == Edit \/ Sign \/ SignBlindly \/ Settle

Spec == Init /\ [][Next]_vars

-----------------------------------------------------------------------------
(* Properties.                                                              *)

Foreign == {"sellerUsdc", "strangerUsdc", "strangerShares"}

\* e does to the wallet what the intent says and nothing else.
AsAsked(e) ==
    LET spent  == {a \in Foreign : e.bal[a] > 0}
        shares == WalletShares(Before) - WalletShares(e.bal)
    IN  CASE kind = "payment" ->
               /\ spent = {"sellerUsdc"} /\ e.bal["sellerUsdc"] = Amount
               /\ e.bal["walletUsdc"] >= Before["walletUsdc"]
               /\ shares <= intent.max
               /\ e.bal["temp"] = 0 /\ e.rent = intent.feePayer
          [] kind = "deposit" ->
               /\ spent = {}
               /\ e.bal["walletUsdc"] = Before["walletUsdc"] - Amount
               /\ shares <= 0
          [] OTHER ->
               /\ spent = {}
               /\ shares = e.burned /\ (shares <= intent.max \/ (intent.full /\ kind # "realize"))
               /\ e.bal["walletUsdc"] >= Before["walletUsdc"]

(***************************************************************************)
(* A client that validates never signs a transaction that does something   *)
(* else than it asked for: whatever it was offered, and at whatever rate   *)
(* the transaction is executed, it either has no effect or pays exactly    *)
(* the amount to the seller, deposits exactly the amount, or returns what  *)
(* it redeems to the wallet, within the approved shares                    *)
(* (validate*IntentTransaction).                                           *)
(***************************************************************************)
SignedDoesAsAsked ==
    stage = "signed" =>
        \A m \in Markets : LET e == Executed(offered.ixs, m)
                           IN  e.ok => AsAsked(e)

\* Constants for which the two sides agree: the policy allows some compute; a
\* share's rounding and the vault's stay within the preview's bounds on both
\* sides of the target; an amount is more than what rounding takes; a quote is
\* no full exit; the wallet holds what it asks for (prepareWithdrawal builds a
\* full exit otherwise, which the preview refuses), and it holds principal, of
\* which the overhead keeps a realization clear.
Sensible ==
    /\ MaxUnits > 0
    /\ \A l \in Losses : l <= Headroom /\ l < Amount
    /\ \A r \in Rates : /\ (r - 1) \div RateScale <= Rounding - Headroom
                        /\ r <= RateScale * Overhead + 1
                        /\ Quote(Amount + Headroom, r) + Margin < FullExit
                        /\ Quote(Amount, r) + Margin < FullExit
                        /\ \A h \in Holdings : Quote(Amount, r) <= h.free + h.staked
    /\ \A h \in Holdings : h.basis > 0

(***************************************************************************)
(* The two sides agree: what the relayer's builder makes is accepted by    *)
(* the client's validator, and executes as long as the vault is as it was  *)
(* simulated, although the quote, the cached context and the simulation    *)
(* may each have seen another rate (preparePaymentSettlement).             *)
(***************************************************************************)
BuiltIsSigned ==
    edits = 0 /\ stage = "offered" =>
        Accepted(seen) /\ Executed(built, seen).ok

(***************************************************************************)
(* Whatever a client returns, a settlement the sponsor signs gives it back *)
(* the rent it advances for the temporary account                          *)
(* (StrictPaymentPayloadVerifier).                                         *)
(***************************************************************************)
SponsorKeepsRent ==
    stage = "settled" /\ kind = "payment" =>
        \A m \in Markets : LET e == Executed(offered.ixs, m)
                           IN  e.ok => e.rent = "sponsor"
=============================================================================
