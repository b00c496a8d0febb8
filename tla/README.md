# Verification of the Subly payment protocol

Subly keeps an agent's USDC in a Kamino vault and lets the agent pay for x402
resources out of the yield, never out of the principal. This project models the
relayer that keeps the accounts, the mandate that binds the agent, the client
that pays and signs, and the seller that is paid; it checks the models with TLC
and proves the central results with TLAPS.

## The system

| component | state | operations | what makes it correct |
|---|---|---|---|
| vault flows (`domain/vault-flow-service.ts`) | deposit and withdrawal intents, the wallet position | prepare, submit, status poll, finalize | one flow in flight; a landed flow is booked once and never written off; a `yield_realize` withdrawal leaves the principal |
| payments and settlement (`domain/payment-service.ts`, `domain/kamino-settlement-submitter.ts`) | payment intents, the position's reservations and fee debt | prepare, settle, reconcile, recover, expire | a seller request is paid once; reservations are exact; terminal is final |
| position sync (`domain/chain-wallet-sync.ts`, `syncWalletPosition`) | shares, rate, principal basis, status, version | read the chain, apply or refuse, conservative reset | unknown value never becomes yield; nothing is counted twice |
| yield budget (`domain/budget.ts`, `lib/raw-units.ts`, quote of `kamino/vault-adapter.ts`) | none | position value, spendable yield, gross withdraw, shares to redeem | rounding never costs principal |
| spending mandates (`domain/spending-mandate-service.ts`, `domain/spending-mandate.ts`) | mandates, approvals, setup and owner links | register, replace, revoke, recover, authorize, request and decide approvals, consume | caps hold; an approval is used once; the owner stays in control |
| ledgers (`domain/ledger.ts`, `domain/postgres-ledger.ts`) | all rows | locks per wallet-vault and per seller request | a locked section is atomic; the two ledgers differ when it throws |
| transaction engine (`solana/submission.ts`) | none | send, wait, look up, test blockhash expiry | absence past the margin is final |
| Kamino adapter and builder, intent validator, signers, payload verifier (`kamino/`, `domain/kamino-transaction-builder.ts`, `client/transaction-intent-validator.ts`, ...) | a cached vault context | quote, probe, build, validate, preview, sign, verify | what is signed does what was asked; what is built is signed |
| standard x402 payer and its yield realizer (`client/`) | a journal file of pending payments, a lock file | probe, realize, pay, poll, resume | no step is repeated after a crash, as long as its marker is on disk |
| seller gate, demo seller, x402 client, rate limiter (`x402/`, `demo/seller.ts`) | open challenges, token buckets | challenge, verify, settle, retry | content only for a settled payment; the limit holds |
| HTTP API, MCP server, CLI, fee estimators, passkeys | none of their own | glue, I/O, pure checks | |

A client prepares an operation over HTTP, signs the returned transaction, and
submits it. The service stores the signed bytes, sends them to a Solana RPC node
and waits; whatever it does not learn then is settled by later status polls, by
retries of `/settle`, or by the operator's recovery run. All handlers of a wallet
share its position row. A section inside `withWalletVaultLock` is atomic;
between sections every `await` on the network lets other handlers run.

What is hard here: handlers of the same intent racing each other; a transaction
that is on the wire but not visible; a block-height test racing a lookup; syncs
whose chain reads are stale when they are applied; a process dying between the
save and the send; sums that are rounded in different directions; a throw that
undoes, or does not undo, what was saved. `PROJECT.json` lists these hazards by
line, with the properties that guard each, or the reason why none does.

## Modules

| module | models |
|---|---|
| `Budget` | integer arithmetic, position value, spendable yield, `evaluatePaymentBudget`, the gross-withdraw quote |
| `SolanaTx` | one transaction's life (unsent, sent, landed, reverted), its visibility to lookups and its blockhash window; the engine's lookup, expiry test and send |
| `FlowContract` | abstract: what the relayer promises about a wallet's deposits and withdrawals |
| `VaultFlow` | deposits, withdrawals, realizes, owner approvals, registration and sync of one wallet position; extends `Budget` and `SolanaTx`, implements `FlowContract` |
| `Settlement` | x402 payments settled directly from the position, their reservations, recovery and the sync; extends `Budget` and `SolanaTx` |
| `Mandate` | the mandate of one wallet in one vault, its owner, links and approvals, over the operations of `FlowContract` |
| `Payer` | the buyer's realize-then-pay client, its journal and lock file, over the withdrawals of `FlowContract` |
| `TxIntent` | the transactions an agent signs (payments, deposits, withdrawals, realizations): built, validated, signed, verified, and executed |
| `Limiter` | the token-bucket limiter, as operators on a sequence of buckets |
| `Seller` | the demo seller, its gate, two limiters, and the relayer's answers; extends `Limiter` |
| `VaultFlowProofs` | theorems on `VaultFlow`: control, then money |
| `SettlementProofs`, `MandateProofs`, `PayerProofs`, `SellerProofs`, `TxIntentProofs` | theorems on the module of that name |
| `BudgetProofs`, `SumProofs` | theorems on `Budget`, lemmas on sums over finite sets |
| `MC...` | instances for TLC: documents, requests, configurations, symmetry |

`VaultFlow` implements `FlowContract` (`ImplementsContract`, by `INSTANCE ... WITH`
a refinement mapping: a prepared intent that has lapsed counts as expired, a
transaction that has landed as moved). `Mandate` and `Payer` extend `FlowContract`
and conjoin their own steps to its actions, so what they rely on is what
`VaultFlow` is shown to provide.

`Settlement` is the seller API that the server offers when
`SUBLY_ENABLE_LEGACY_X402=1`.

### VaultFlow

`position`, `intent` and `approval` are ledger rows. `chainShares`, `rate`, `tx`,
`visible` and `window` are the chain. `pc`, `job`, `resubmit` and `snap` are what
a handler remembers between two awaits. `receipts`, `delta`, `principal`,
`refused` and `moves`, `crashes` are history used by properties and bounds:
`principal` is the USDC invested that has not been taken out as principal,
computed from executed transactions and external movements and never from the
ledger.

One action per locked section or await: `Prepare` and `RefusePrepare`
(`prepareDeposit`, `prepareWithdrawal` with their budget, mandate and share
tests), `RequestApproval`, `DecideApproval`, `Submit`, `Status` and `Expire`
(`getDeposit`, `getWithdrawal`), then `Simulate`, `Send`, `Wait`, `Confirm` of
`sendAndConfirmFlow`, `Lookup`, `CheckHeight`, `FinalLookup`, `Resend` of
`reconcileFlow`, and the outcomes `WriteOff`, `FinalizeLate`, `FinalizeReverted`,
`FinalizeUnclassified`, `FinalizeReceipt`. `SyncStart`, `SyncChain` and
`SyncApply` are the three stages of a chain sync; `Register` is
`registerAgentWallet`. `Land`, `Revert`, `Block`, `Accrue`, `ExternalMove`,
`Lapse`, `LapseApproval` and `Crash` are the environment.

### Settlement

`wallet` and `payment` are ledger rows, `held` and `now` the shares and the rate
on chain, `at`, `on`, `outcome` and `seen` the handlers. `PreparePayment` and
`RefusePayment` are `preparePayment`; `SettlePrepared` and `Settle` enter
`submitPreparedSettlement` or `reconcileSubmittedPayment`; the `Submit...` and
`Reconcile...` actions are the awaits of the Kamino submitter, with
`MarkSubmitted` as its `onBeforeSend`; `RecordPending`, `Finalize` and
`AlreadyTerminal` record the outcome under the lock. `RefuseWithdrawal` is the
share-mismatch path of `prepareWithdrawal`, the only vault-flow call that touches
payments.

### Mandate

`mandate`, `session` and `approval` are ledger rows, `op` what a vault-flow intent
records of its authorization. A document stands for its payload hash. Owners'
signatures are unforgeable but detached: `signed` holds the revoke and
recovery-cancel messages that owners have signed, and anybody may deliver one late
or again. `RegisterMandate` uses a clock read before the locks were taken, as
`registerMandate` does. `Register`, `Deliver`, `ScheduleRecovery`, `CreateSession`,
`CompleteSetup`, `CompleteOwnerAction`, `RequestApproval` and `DecideApproval` are
the service's mutations; `Prepare`, `Submit` and `Resolve` are the vault-flow calls
with the authorization each makes; `Level` is `SUBLY_MANDATE_ENFORCEMENT`.

### Payer

`disk` is the journal, `locked` the lock file, `call[c]` what a running `pay()`
holds in memory: its position, the map it loaded, and its record. The realizer's
calls are steps of their own (`PrepareWithdrawal`, `Checkpoint`, `SignAndSubmit`,
`Resume`, `Poll`), then `JournalRealized`, `Barrier` and `Fetch`. `Delivered` clears
the marker, and `Report` is the report to the relayer that the call awaits before it
returns. Any of them may be followed by a crash, an answer may be lost, and a write
may fail before or after the rename. A submit request that has left the client (`posted`) may reach the
relayer at any later time. A record in `realizing` without a withdrawal, or with
one that ended otherwise than confirmed, is refused for good: the code asks for a
reconciliation by hand, so `Payer` claims no liveness.

A client that dies between clearing the marker (`standard-x402-payer.ts:448`) and the
return of `pay()` (`:473`), for instance while the report is awaited, has made a
payment that neither the journal nor an answer tells of, and a retry pays again. The
history variable `cut` counts those calls. `PaidOnce` allows for them and for forced
payments, and says that nothing else pays twice.

### TxIntent

An instruction is its program, operation and the accounts and amount that matter;
`Executed` is the reference semantics of the programs involved, at a market state
(an exchange rate and a rounding loss). `BuildPayment` contains the probe loop of
`preparePaymentSettlement` with the quote, the cached context and the simulation
free to have seen different rates. `BuildWithdrawal` makes normal withdrawals and the
realizations the payer asks for, as `prepareWithdrawal` does: it grosses the target up
by the penalty (`Gross`); the target of a realization is the amount and half of the
client's rounding allowance (`Target`, `Headroom`), and what it withdraws must fit in
the yield (`WithinYield`); it asks for no more than every share (`RequestedShares`) and
exits the vault when it needs them all. `Edit` changes what the client is offered: the
instructions, the envelope, or the intent, with its fee payer and its permission to
exit. `PaymentAccepted`, `DepositAccepted` and `WithdrawalAccepted` are the validators,
and `PreviewOK` is the simulated preview of a withdrawal, whose `Minimum` is the amount
itself for a realization and the amount less the allowance otherwise; `PreparedOK`
refuses a realization that would exit. `SignBlindly` is a client that
does not validate, whose transaction only the relayer's verifier checks.

### Limiter and Seller

A bucket sequence keeps the insertion order of the JavaScript `Map`, which decides
which bucket is evicted. Tokens are counted in units of `1/Unit` so that partial refills
exist. In `Seller` a challenge number stands for the binding hash, `handler[h]` is a
request between two awaits, and `inbox` holds `/settle` calls that the relayer may
process after the seller has timed out. A header may combine any payment with any
challenge. The per-address token is spent even if the global limiter then refuses.
A restart of the demo seller forgets every open challenge and is not modelled.
`Prepare` is the relayer's `preparePayment`: it expires stale payments, for one wallet
that the buyers share, and then accepts a request that no live payment answers.

### What the models assume

- `loadContext` and `getUserSharesRaw` give one snapshot, and chain reads do not
  go back in time, so the `lastSyncedSlot` test never refuses and is left out.
- The vault's rate does not fall. Its withdrawal penalty, its capacity and the
  safety buffer are constants.
- `VaultFlow` has no payments (`reserved` is 0); `Settlement` has no vault flows,
  and shares only leave the wallet outside Subly, so the sync needs no P&L data.
- `Settlement`: the executed transaction pays the seller exactly the amount, so
  `settlementResultValidationError` accepts every result of the Kamino submitter.
  In the checked instances the fee estimate is worth at least the share rounding
  and the margin, which the theorems on the budget and on `PrincipalReserved` also
  need (`FeeCoversMargin`). Liquidity policies are absent, as by default.
- `Settlement`: a quote sees the chain as it is. `quoteSettlementWithdraw` reads through
  a cache of five seconds (`kamino-transaction-builder.ts:355`) that nothing
  invalidates. A cached rate is at most the current one, so it makes the position look
  smaller and the burn larger than in the model. Cached shares may differ from the row
  where the chain agrees with it, after a payment was booked, and the prepare is then
  refused and the position flagged; or agree with it after an exit that has not been
  synchronised, and the prepare is then not refused.
- In `VaultFlow` a mandate is in force and does not change, and the
  pending-approval limit is not reached; `Mandate` models both. A submission of
  bytes that do not verify changes nothing and is not an action; neither is a
  registration that would activate a wallet without a signer provider, which throws
  before it saves (`payment-service.ts:207`).
- Clocks do not go back. One wallet holds one position in one vault. There are
  finitely many intents.
- Journal records that an earlier version of `Payer`'s program left are of the form
  that version wrote.
- `Mandate` keeps an approval row for ever; the code prunes rows long past their
  retention, when they can no longer be used.
- `SellerAssumption`: the store holds what the global limiter lets through in the
  lifetime of a challenge, and one challenge per request in progress. The defaults
  (120 a minute, two minutes, 1000 challenges) satisfy it with room to spare.

## Runs

Bounds are named constants in the cfg files. Amounts are tiny but not trivial:
`RateScale = 2` with rates 2 and 3 makes one share worth 1 or 1.5 units, so every
division rounds. `LastVersion`/`MaxVersion` bound the syncs and refusals,
`MaxCrashes`/`MaxFaults` the failures, `MaxMoves`/`Exits` the movements outside
Subly. Deadlock is not checked: an instance stops when its intents are terminal
and its bounds are used up, as the server does when nobody calls it.

| run | checks | instance |
|---|---|---|
| `VaultFlowRace` | `TypeOK`, `PrincipalCovered`, `NoPhantomPrincipal` | one flow of any kind, two handlers (submit, poll or sync), one external movement either way, rising rate |
| `VaultFlowSequence` | `PrincipalCovered`, `PrincipalNeverSpent`, `RefusalIsRecorded` | two flows in sequence, 10% penalty, rounding headroom, re-registration, in-memory ledger |
| `VaultFlowRecovery` | `LandedNeverWrittenOff`, `BookedOnce`, `TerminalIsFinal`, `ImplementsContract` | two deposits, two handlers, a crash, unreadable receipts |
| `VaultFlowApproval` | `ApprovalSingleUse`, `SubmittedResolves` | two deposits behind one approval, receipts readable, a crash, fair |
| `SettlementRecovery` | `SettlementTypeOK`, `RequestPaidOnce`, `FailedNeverPaid`, `LedgerFollowsChain`, `PrincipalReserved` | two payments, two requests, one handler at a time, a fault, fees above the estimate, rising rate, one exit |
| `SettlementConcurrent` | `ReservedExact`, `TerminalPaymentIsFinal`, `PaymentResolves` | one payment, two handlers, a fault, syncs, fair |
| `MandateOwner` | `MandateTypeOK`, `RevokedMovesNothing`, `OwnerKeepsControl`, `LinkNeverUndoesRevocation` | two owners, five documents (one refused), one link, one signed message, one operation, warn mode, four instants |
| `MandateSpending` | `CapsHold`, `OwnerApproved`, `ApprovalSpentOnce` | two documents of two owners, two operations, two approvals, windows of one and three ticks |
| `Payer` | `PayerTypeOK`, `PaidOnce`, `PaymentFunded`, `RealizationOnRecord` | two clients, two requests, three withdrawals, two prices, legacy records, one forced payment per request |
| `TxIntent` | `SignedDoesAsAsked`, `BuiltIsSigned`, `SponsorKeepsRent` | payments, deposits, withdrawals and realizations, two rates, two losses, a penalty of 10% and at least one unit, two holdings, two changes out of twenty-four instructions, the envelope and the intent |
| `Seller` | `SellerTypeOK`, `AccessPaid`, `SettlingExclusive`, `RoomForBuyers`, `AllowancePerEviction`, `InvitedOnlyTooLate` | two addresses, two handlers, four challenges, two payments, a per-address limiter with room for one bucket |

Two of everything that can race is enough for these properties: each is violated,
when the code is changed as in `PROJECT.json`'s mutants, by at most two actors and
two intents. Three withdrawals in `Payer` allow one to be lost, one abandoned by
force and one to pay. Two changes in `TxIntent` are what a compensating pair of
edits needs (an instruction moved or replaced and another adapted to it). The
windows of `MandateSpending` are shorter than its clock, so operations leave them;
its operations include the first deposit that a registration approves. In
`Seller` the one-bucket limiter makes two addresses evict each other.

Symmetry is used only in runs without liveness and only over sets whose members
the model never tells apart.

Fairness. Handlers advance weakly fairly: promises settle (an RPC call that
hangs is a crash of its handler). Blocks are produced and indexed. The server runs no worker for
vault flows, so `SubmittedResolves` is conditional on status calls: the client of
`client/vault-flows.ts` polls for 90 seconds, about as long as a blockhash and the
margin last, and a flow that is still submitted then waits for the next status
call of the client or the user; `PaymentResolves` needs the seller's
retries or `POST /v1/admin/settlements/recover`. Those two are strongly fair only
because the model has a fixed number of handlers.

### Where code and documentation disagree

`VaultFlowFlagIgnored` is a run that TLC must find violated. A normal withdrawal of two
of four shares lands, but its finalization cannot read the position: the row is flagged
`needs_baseline_reset` and keeps its four shares and its basis. Two shares then arrive
from outside. The chain holds four shares again, as the row says, so the comparison of
shares at `vault-flow-service.ts:454` refuses nothing; and `requireSignerReadyPosition`
does not look at the status. A realize is accepted against the old basis, although the
shares are worth no more than the principal now, and burns one of them. Without the
movement from outside the comparison of shares would refuse the realize; so it does
after an unclassified deposit.

Four more disagreements of the same kind were found with the same models and
constants, and can be reproduced by setting the constant named:

- `MovesInFlight = TRUE`: shares arriving while a deposit is in flight enter the
  position at its finalization (`vault-flow-service.ts:899`) without basis and
  count as yield, although `chain-wallet-sync.ts:13` says that "unknown value is
  never treated as yield" (`PrincipalCovered`).
- `ReadsMayFail = TRUE` in the approval run: a landed deposit that could not be
  classified returns (`vault-flow-service.ts:888`) before its approval is consumed,
  and the approval funds another (`ApprovalSingleUse`; `models.ts:235` says
  "Single-use").
- `Ledger = "postgres"` in the sequence run: a refusal's `needs_baseline_reset`
  (`vault-flow-service.ts:195`) is rolled back with the refusal
  (`postgres-ledger.ts:563`), while `tests/vault-flow-service.test.ts:241` expects
  it to be kept (`RefusalIsRecorded`).
- Two workers in the recovery run of `Settlement`: of two submissions of one
  payment, one broadcasts, the other records `failed_not_submitted`, and the
  payment lands, although `payment-service.ts:647` says that terminal failures
  "never moved USDC to the seller" (`FailedNeverPaid`).

Each is excluded from the passing runs by that constant, so that they still say
what holds otherwise. Two more constants exclude behaviour of the same
sort from `Settlement`'s passing runs:

- `PromptReads`. `reconcilePaymentSettlement` looks the signature up, then reads
  the block height, and does not look again as `reconcileFlow` does. If the reads
  are further apart than the indexing margin (thirty-two blocks), a payment that
  landed in between is written off. With `PromptReads = FALSE`, TLC finds
  `FailedNeverPaid` violated by one handler.
- `KeepsOnThrow`. `prepareWithdrawal` reads the position, expires stale payments
  (which lowers the reservations) and, on a share mismatch, saves the copy it read
  first. Postgres rolls that back; the in-memory ledger keeps it, and the
  reservation with it: with `KeepsOnThrow = TRUE` and an exit, `ReservedExact` is
  violated.

## Proofs

Everything is proved for arbitrary sets of flows, handlers and approvals and
arbitrary numbers satisfying the named assumptions of the modules.

Conditions that a theorem puts on the constants, beyond the modules' assumptions,
are those that the runs of its property satisfy.

`VaultFlowProofs`. `Invariance` is `Spec => [](TypeOK /\ ControlInv)`. None of the
safety properties is inductive alone: that a written-off flow is not on chain
depends on what the handler at `write_off` learned two awaits earlier.
`ControlInv` therefore says

- `HasJob`: a handler that is under way has a flow;
- `HandlerKnows`: at `finalize` the transaction is visible; at `final_lookup` the
  window has passed the margin; at `write_off` it has and the transaction is not
  on chain;
- `StatusSays`: past the margin, on chain implies visible; each terminal status
  tells the truth about the chain;
- `PendingUnique`: pending intents are unique;
- `BookedOnce`.

Initial states satisfy it (`ControlInit`); each action preserves each part (one
lemma per part, one step per group of actions). From it follow `TypeCorrect`,
`NeverWrittenOff`, `BookedExactlyOnce`, `AtMostOneInFlight` (`OneInFlight`, which
`ImplementsContract` shows in the runs) and, as an action property,
`TerminalStaysFinal`.

`FlowsImplementContract` is `Spec => ImplementsContract`: initial states map to the
contract's initial state, and every step of `VaultFlow` maps to one step of
`FlowContract` or to none. `ControlInv` makes the final statuses truthful and keeps
one intent open; that a transaction is executed only while its intent is submitted
also needs `SentOnlySubmitted`: bytes that were sent, and handlers that could send
them, belong to intents that have been submitted.

`RefusalStaysRecorded` is `RefusalIsRecorded` for the in-memory ledger.
`ApprovalsUsedOnce` is `ApprovalSingleUse`, by `ApprovalInv`: what landed holds or has
used up its approval, a submitted flow holds it, and nothing that has executed
shares its approval with a flow that still may. It needs finalizations that can read the
chain (`ReadsMayFail = FALSE`), and that an approved operation leaves a receipt
(`ApprovedReceipted`), since one that ends unclassified keeps its approval.

The second half of `VaultFlowProofs` is about money. `PrincipalIsNeverSpent`, `YieldIsEarned` (`PrincipalCovered`) and
`NothingCountedTwice` (`NoPhantomPrincipal`) follow from `MoneyInv` and `DustInv`. The
properties speak of settled states; the invariants say what holds in between:

- `BasisCovers`, `ReceiptCovers`: the basis covers the principal together with the
  cost of shares no sync has seen, or with the receipt still to be booked;
- `OpenMatches`, `RealizeFits`: while an intent is open the shares stay where
  prepare saw them, so a realize leaves the principal at whatever rate it lands;
- `RowRead`, `SnapshotCovers`: a sync whose version is still current holds a copy of
  the row, and what it will write covers the principal;
- `RowBounded`, `LagBounded`, `AwaitedBounded`, `SnapshotBounded`: each of those
  exceeds the position's value by dust at most. Costs are rounded up and values
  down, so dust is one unit per flow that moved money and per movement outside
  Subly, which is the bound `NoPhantomPrincipal` states. A movement counted twice
  would exceed it by its whole value.

Besides `MovesInFlight = FALSE` and `ReadsMayFail = FALSE` they rest on three
conditions. `OverheadCoversShare`: the realize overhead is worth a share at every
rate, but for one unit of the scale. `Receipted`: what moved shares moved USDC, as
a withdrawal so small that the penalty eats its value leaves no receipt to book.
`MovedWhenSynced`: a movement outside Subly is synchronised before the next one, as
two that cancel each other cannot be told from none. TLC finds the last two to hold
throughout `VaultFlowRace` and `VaultFlowSequence`.

`SettlementProofs`. `ShapeInvariant` and `TerminalPaymentsAreFinal` hold for any
number of concurrent handlers: a payment under way was stored, bytes on the wire
were marked first, one live payment answers a request. `ReservationsExact` needs a
ledger that rolls back (`KeepsOnThrow = FALSE`). `PrincipalAlwaysReserved`, also for
any number of handlers, needs `FeeCoversMargin`: the fee reserved pays for rounding,
the probe's margin and the rise of the rate. Its invariant says that the shares
no live payment will burn are worth the principal (`PrincipalKept`), that a live
payment's reservation covers its shares at any rate (`ShareCost`), and that a
snapshot the sync will accept shows the row's shares (`SnapshotFresh`). `FailedPaymentsNeverPaid`,
`RequestsPaidOnce` and `LedgerAlwaysFollowsChain` need one handler at a time
(`OneHandler`) that reconciles promptly (`PromptReads`), by `SoleInv`: a payment
under way is live, nothing is on the wire before it is marked, and what is written
off never lands.

`MandateProofs`. Types, `ControlKept`, `LinksRespectRevocation`, `OwnerAlwaysApproved`
and `CapsAlwaysHold` are unconditional. The caps are tested at prepare and counted
at confirmation: `OpenFits` says that the one open operation fits on top of what is
confirmed now, which ageing and revocation only make easier, and `DoneFits` that a
confirmed one fits with those before it. `KillSwitchHolds` needs mandates to be
looked at (`Level # "off"`) and `CutInv`: a revocation stays, and no operation it
cut gets past `prepared`. `ApprovalsSpentOnce` needs landed operations to be
classified, for the reason given above, and `ClaimedOnce`: no two live operations
claim one approval.

`PayerProofs`. `PayerInv` relates the journal, the lock file, what a running `pay()`
knows at each of its points (`PcOK`), the copy of the journal it holds
(`CopyCurrent`) and the relayer: what was posted is on record until it pays or is
given up, and a record whose payment may have been made says so. All four
properties follow without conditions; `PaysOnce` counts the payments for a request
that no call has returned and whose call did not die after clearing its marker
(`Accounted`: the one on record, if any, or the one whose call is reporting back).

`SellerProofs`. `SettlingIsALock` is `Spec => []SettlingExclusive`. The invariant
`LockInv` adds that a request in progress is about a challenge already issued, so
that opening a new one cannot clear the flag of one being settled; with it,
`NeverInvitedEarly` is `InvitedOnlyTooLate`: it is about settlements in progress at the
seller. A call that the seller gave up on stays in `inbox`, and once the challenge has
run out a retry is invited to pay again although the relayer may still process it. `SettleBeforeDeliver` is
`Spec => []AccessPaid`, from two facts: a settled payment stays settled whatever
the relayer does next (`SettledStays`), and a request that is about to be answered
with content is paid for (`GrantedPaid`). Lemmas on what the limiter's operators do
to a sequence of buckets give `SellerTypeCorrect`, then `AllowanceBounded`: the
bucket of an address accounts for all it has taken, and an address without one has
a burst to come. `AlwaysRoomForBuyers` counts, for every instant, the
challenges open since then against what the global bucket has let through
(`IssuedWithinLimit`).

`TxIntentProofs`. `Executed` is a fold over instructions of any number and order, and
the library's induction theorems cannot be instantiated. `ExecutedRuns` shows, by a
smallest counterexample, that the fold is the last state of a run with one step per
instruction; then one lemma says what each instruction leaves alone. A payment's
layout is fixed, so its run is followed position by position; for deposits and
withdrawals the validators only count instructions, so an induction on positions
says what has moved before and after the one that matters.

`IntentInvariant` is the inductive invariant `IntentInv`: the relayer's own
payment is a canonical settlement (`CanonicalBuilt`), what is signed was checked
(`SignedChecked`), and what is settled is what was built (`SettledIsBuilt`).
`SignedAlwaysDoesAsAsked` and `SponsorAlwaysKeepsRent` follow without conditions, at
every rate and loss, not just those seen when building; so does `SettledAlwaysPays`:
a settled payment that executes pays the seller the amount exactly, even if its
client checked nothing.

`BuiltIsAlwaysSigned` unfolds the four tries of the probe: the shares it settles on
lie within the signed maximum and yield the amount in the simulated market, so its
own test of the simulation refuses nothing. For withdrawals and realizations, the gross
withdraw nets the target exactly (`GrossWithdrawIsFloor`, `GrossFloorNetsTarget`,
`GrossFloorNetsNoMore`); rounding up to whole shares adds less than a share to it, of
which the net keeps no more (`NetGrows`); so the output, less what the vault's rounding
takes, is between the preview's minimum and its maximum. A realization that fits in the
yield leaves shares worth the principal (`AcceptedBudgetKeepsPrincipal`), so it never
exits. The theorem needs `Sensible`, which `MCTxIntent` assumes of its instance, so that
TLC evaluates it:

- the policy allows some compute, or no transaction is signed;
- the vault's rounding takes less than the amount and no more than the headroom, and a
  share is worth no more than what the allowance leaves above the headroom, but for one
  unit of the scale;
- the realize overhead is worth a share, but for one unit of the scale, and the wallet
  has principal;
- a quote with its margin is below `FullExit`, which stands for the largest u64 and
  would otherwise be read as a request for every share;
- the wallet holds the shares quoted. `prepareWithdrawal` does not refuse a
  withdrawal worth more: it builds a full exit, which the client's preview then
  refuses, as it yields too little.

`BudgetProofs`. `GrossFloorNetsTarget`: the closed form of
`grossWithdrawForNetTarget` nets the target for every penalty below 100%;
`GrossWithdrawIsFloor`: so its correction loop never runs; `GrossFloorNetsNoMore`: and it nets nothing beyond
the target. `NetGrows`: withdrawing more nets more, by at most what was added.
`PostStateTestRedundant`: the last test of `evaluatePaymentBudget` refuses nothing
the others accept. `AcceptedBudgetKeepsPrincipal`: an accepted payment leaves the
principal, the buffer, the fee debt and the other reservations, provided the
estimated fee is worth a share, but for one unit of the rate's scale.

`SumProofs`. Adding, removing or changing one term of a sum over a finite set. The
library's induction theorems cannot be instantiated, so each lemma takes a smallest
set that violates it.

Only model-checked: the liveness properties `SubmittedResolves` and `PaymentResolves`,
which are out of the prover's reach.

## Not modelled

- HTTP routing and request authentication, SQL and row mapping, transaction
  encoding, and the checks of passkey signatures carry no protocol state; a signed
  message or transaction is genuine or it is not.
- `reportPayment` annotates a confirmed withdrawal for the audit log; to the payer it is
  a call it awaits, to the relayer it changes nothing modelled. Liquidity
  policies are configuration. The operator's manual sync route feeds values of the
  operator's choice to the modelled `syncWalletPosition`.
- The client's deposit call, its budget and mandate reads, the MCP server and the
  CLI call modelled operations and keep no state between calls. The local-sponsor
  realizer and the legacy paid fetch are superseded by the relayer path.
- Payments and vault flows over one position. `prepareDeposit` does not look at
  submitted payments: a deposit finalized from the chain may already contain the
  shares that a settlement subtracts later. `VaultFlow` and `Settlement` keep their
  own positions; their composition is beyond TLC at bounds where both kinds of
  operation complete.

## Plan

1. One position under both flows and payments, as a reduced module in which each
   settlement and each flow is one landing and one booking.
2. The seller's restart, and a payment retried across it.
