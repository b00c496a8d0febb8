------------------------------- MODULE Payer -------------------------------
(***************************************************************************)
(* The buyer's payer for standard x402 sellers                             *)
(* (src/client/standard-x402-payer.ts), its journal and lock file          *)
(* (standard-x402-state-store.ts), and the client of the relayer's         *)
(* withdrawals it realizes yield with (relayer-yield-realizer.ts,          *)
(* vault-flows.ts).  A purchase is two transactions, the withdrawal that   *)
(* realizes yield and the payment to the seller, and the client may die,   *)
(* lose a response or fail to write its journal at any point between them. *)
(*                                                                         *)
(* Clients share one journal.  The relayer is FlowContract, which          *)
(* VaultFlow implements; the seller answers as it likes.                   *)
(***************************************************************************)
EXTENDS FlowContract, Sequences, FiniteSetsExt

CONSTANTS
    Clients,        \* processes sharing the journal
    Keys,           \* requests: method, URL and body hash
    Prices,         \* amounts a challenge may ask for
    NoFlow,
    Legacy,         \* journal records written before recovery existed
    MaxForces       \* bound on forceNewPayment

ASSUME PayerAssumption ==
    /\ Prices \subseteq Nat /\ NoFlow \notin Flows /\ IsFiniteSet(Flows)
    /\ MaxForces \in Nat

VARIABLES
    disk,       \* disk[k]: the StandardX402PendingPaymentRecord of k
    locked,     \* the lock file exists
    call,       \* call[c]: the pay() of c and what it holds in memory
    posted,     \* withdrawals whose submit request has left a client
    ask,        \* ask[w]: the payment the relayer has on record for w, and
                \* whether w yields its full price when it is executed
    paid,       \* paid[w]: amounts handed to sellers after w was realized
    delivered,  \* history: delivered[k] calls returned paid
    cut,        \* history: cut[k] calls died with the marker cleared
    forced,     \* history: forced[k] markers discarded by the user
    abandoned   \* history: the withdrawals those markers named

journalVars == <<disk, locked>>
historyVars == <<delivered, cut, forced, abandoned>>
vars == <<contractVars, disk, locked, call, posted, ask, paid, historyVars>>

NoRecord == [status |-> "none", recovery |-> FALSE, w |-> NoFlow, price |-> 0]
Old(status) == [NoRecord EXCEPT !.status = status]
Records == [status : {"none", "realizing", "realized", "unknown"},
            recovery : BOOLEAN, w : Flows \cup {NoFlow}, price : Prices \cup {0}]
Idle == [pc |-> "idle"]
NoAsk == [key |-> "none"]

\* They name no withdrawal that could be resumed.
ASSUME LegacyAssumption ==
    /\ Legacy \subseteq Records
    /\ \A rec \in Legacy : ~rec.recovery /\ rec.w = NoFlow

PayerTypeOK ==
    /\ ContractTypeOK
    /\ disk \in [Keys -> Records]
    /\ locked \in BOOLEAN
    /\ \A k \in Keys : disk[k].recovery /\ disk[k].status \in {"realized", "unknown"}
         => disk[k].w # NoFlow
    /\ \A c \in Clients : call[c] # Idle => locked
    /\ posted \subseteq Flows

-----------------------------------------------------------------------------
(* The journal.                                                             *)

\* save(): the whole map replaces the file.  It throws before the rename or
\* after it, when the directory cannot be synced.
Saves(records) == disk' = records
SaveThrows(records) == disk' \in {disk, records}

With(c, rec) == [call[c].pending EXCEPT ![call[c].key] = rec]

\* pay() ends, by returning or by throwing; the lock file is removed.
Finish(c) ==
    /\ call' = [call EXCEPT ![c] = Idle]
    /\ locked' = FALSE

Goto(c, pc) ==
    /\ call' = [call EXCEPT ![c].pc = pc]
    /\ UNCHANGED locked

\* persistCheckpoint: a checkpoint that cannot be written ends the call.
Persist(c, rec, pc) ==
    \/ /\ Saves(With(c, rec))
       /\ call' = [call EXCEPT ![c].pc = pc, ![c].rec = rec,
                               ![c].pending = With(c, rec)]
       /\ UNCHANGED locked
    \/ /\ SaveThrows(With(c, rec))
       /\ Finish(c)

\* untrack, then the end of the call, whether or not it could be written.
Untrack(c) ==
    /\ Saves(With(c, NoRecord)) \/ SaveThrows(With(c, NoRecord))
    /\ Finish(c)

-----------------------------------------------------------------------------
(* The beginning of pay() and run().                                        *)

\* Mutant: the lock file of a running client is taken over.
MayLockAlways == TRUE

\* withExclusiveLock: openSync "wx".
MayLock == ~locked

\* A record that belongs to a realization this call may carry on with.
Resumable(rec) == rec.recovery /\ rec.status \in {"realizing", "realized"}

\* What forceNewPayment may discard: never an incomplete realization.
MayForce(rec) == ~Resumable(rec) /\ rec.status \in {"realized", "unknown"}

\* The records a call may go on with: none, or one it can resume.
Proceeds(rec) ==
    \/ rec.status = "none"
    \/ Resumable(rec) /\ (rec.status = "realizing" => rec.w # NoFlow)

\* pay() takes the lock and loads the journal; run() refuses or goes on.
Begin(c, k) ==
    /\ call[c] = Idle
    /\ MayLock
    /\ Proceeds(disk[k])
    /\ locked' = TRUE
    /\ call' = [call EXCEPT ![c] =
                  [pc |-> "probe", key |-> k, pending |-> disk,
                   rec |-> disk[k], resuming |-> Resumable(disk[k]),
                   price |-> 0]]
    /\ UNCHANGED <<contractVars, disk, posted, ask, paid, historyVars>>

\* forceNewPayment: the marker is discarded before anything else happens.
BeginForced(c, k) ==
    /\ call[c] = Idle
    /\ MayLock
    /\ MayForce(disk[k])
    /\ \A j \in Keys : forced[j] < MaxForces
    /\ LET cleared == [disk EXCEPT ![k] = NoRecord]
       IN  \/ /\ Saves(cleared)
              /\ locked' = TRUE
              /\ call' = [call EXCEPT ![c] =
                   [pc |-> "probe", key |-> k, pending |-> cleared,
                    rec |-> NoRecord, resuming |-> FALSE, price |-> 0]]
           \/ SaveThrows(cleared) /\ UNCHANGED <<locked, call>>
    /\ LET discarded == disk'[k] = NoRecord
       IN  /\ forced' = [forced EXCEPT ![k] = IF discarded THEN @ + 1 ELSE @]
           /\ abandoned' = IF discarded THEN abandoned \cup {disk[k].w}
                           ELSE abandoned
    /\ UNCHANGED <<contractVars, posted, ask, paid, delivered, cut>>

\* Mutant: the challenge of a resumed payment is not compared with the record.
AnyChallengeAccepted(c, price) == TRUE

\* A resumed payment must be the one on record.
ChallengeAccepted(c, price) == call[c].resuming => call[c].rec.price = price

\* The seller answers the unpaid probe with a challenge; a new purchase
\* is journaled before anything is realized.
Probe(c, price) ==
    /\ call[c].pc = "probe"
    /\ ChallengeAccepted(c, price)
    /\ LET rec == [NoRecord EXCEPT !.status = "realizing", !.recovery = TRUE,
                                   !.price = price]
       IN  IF call[c].resuming
             THEN /\ call' = [call EXCEPT ![c].price = price,
                       ![c].pc = IF call[c].rec.status = "realized"
                                   THEN "realized" ELSE "resume"]
                  /\ UNCHANGED <<disk, locked>>
             ELSE \/ /\ Saves(With(c, rec))
                     /\ call' = [call EXCEPT ![c].pc = "ensure", ![c].rec = rec,
                                   ![c].price = price, ![c].pending = With(c, rec)]
                     /\ UNCHANGED locked
                  \/ SaveThrows(With(c, rec)) /\ Finish(c)
    /\ UNCHANGED <<contractVars, posted, ask, paid, historyVars>>

\* The seller offers no challenge, no payable one, one above the client's cap,
\* or another than the one on record.
ProbeRefused(c) ==
    /\ call[c].pc = "probe"
    /\ Finish(c)
    /\ UNCHANGED <<contractVars, disk, posted, ask, paid, historyVars>>

-----------------------------------------------------------------------------
(* Realizing yield.                                                         *)

\* Mutant: whatever goes wrong before the withdrawal is confirmed may be
\* tried again.
SafeToRetryUnlessConfirmed(c) ==
    ~call[c].resuming /\ call[c].pc \in {"ensure", "checkpoint", "sign", "poll"}

\* RelayerRealizeError.realizationSafeToRetry: this call cannot have
\* submitted anything, and did not resume what another one may have.
SafeToRetry(c) ==
    ~call[c].resuming /\ call[c].pc \in {"ensure", "sign"}

\* The realizer throws: the budget or the prepare is refused, or its answer
\* lost; the preview or the signer refuses; submitting or polling fails, or
\* the withdrawal ends otherwise than confirmed.
RealizeFails(c) ==
    /\ call[c].pc \in {"ensure", "sign", "resume", "poll"}
    /\ IF SafeToRetry(c) THEN Untrack(c)
       ELSE Finish(c) /\ UNCHANGED disk
    /\ UNCHANGED <<contractVars, posted, ask, paid, historyVars>>

\* POST /withdrawals/prepare; the answer arrives or is lost.
PrepareWithdrawal(c, w) ==
    /\ call[c].pc = "ensure"
    /\ PrepareFlow(w)
    /\ \E full \in BOOLEAN :
         ask' = [ask EXCEPT ![w] =
                   [key |-> call[c].key, price |-> call[c].price, full |-> full]]
    /\ \/ /\ call' = [call EXCEPT ![c].pc = "checkpoint", ![c].rec.w = w]
          /\ UNCHANGED <<disk, locked>>
       \/ Untrack(c)
    /\ UNCHANGED <<posted, paid, historyVars>>

\* onPrepared: the withdrawal is journaled before it is signed.
Checkpoint(c) ==
    /\ call[c].pc = "checkpoint"
    /\ Persist(c, call[c].rec, "sign")
    /\ UNCHANGED <<contractVars, posted, ask, paid, historyVars>>

\* submitPreparedWithdrawal: preview, signature, POST /withdrawals/submit.
SignAndSubmit(c) ==
    /\ call[c].pc = "sign"
    /\ posted' = posted \cup {call[c].rec.w}
    /\ Goto(c, "poll")
    /\ UNCHANGED <<contractVars, disk, ask, paid, historyVars>>

\* resumeWithdrawal: the saved withdrawal is looked up, never replaced.
Resume(c) ==
    /\ call[c].pc = "resume"
    /\ \/ flow[call[c].rec.w] = "prepared" /\ Goto(c, "sign")
       \/ flow[call[c].rec.w] = "confirmed" /\ Goto(c, "realized")
    /\ UNCHANGED <<contractVars, disk, posted, ask, paid, historyVars>>

\* pollUntilTerminal and confirmedRealization.
Poll(c) ==
    /\ call[c].pc = "poll"
    /\ flow[call[c].rec.w] = "confirmed"
    /\ Goto(c, "realized")
    /\ UNCHANGED <<contractVars, disk, posted, ask, paid, historyVars>>

-----------------------------------------------------------------------------
(* Paying the seller.                                                       *)

\* The realization is journaled; one that falls short of the price ends the
\* call.
JournalRealized(c) ==
    /\ call[c].pc = "realized"
    /\ LET rec == [call[c].rec EXCEPT !.status = "realized"]
       IN  IF ask[rec.w].full THEN Persist(c, rec, "barrier")
           ELSE /\ Saves(With(c, rec)) \/ SaveThrows(With(c, rec))
                /\ Finish(c)
    /\ UNCHANGED <<contractVars, posted, ask, paid, historyVars>>

\* Mutant: the marker is written when the payment has failed.
BarrierAfterwards(c) ==
    /\ call[c].pc = "barrier"
    /\ Goto(c, "fetch")
    /\ UNCHANGED <<contractVars, disk, posted, ask, paid, historyVars>>

\* From here on the payment may have been made.
Barrier(c) ==
    /\ call[c].pc = "barrier"
    /\ Persist(c, [call[c].rec EXCEPT !.status = "unknown"], "fetch")
    /\ UNCHANGED <<contractVars, posted, ask, paid, historyVars>>

\* x402Fetch: a signed payment leaves the client.
Fetch(c) ==
    /\ call[c].pc = "fetch"
    /\ paid' = [paid EXCEPT ![call[c].rec.w] = Append(@, call[c].price)]
    /\ Goto(c, "response")
    /\ UNCHANGED <<contractVars, disk, posted, ask, historyVars>>

\* A 2xx answer without a bad receipt: clearDelivered, whose failure to
\* write is only logged.  Nothing else the call holds is used again.
Delivered(c) ==
    /\ call[c].pc = "response"
    /\ Saves(With(c, NoRecord)) \/ SaveThrows(With(c, NoRecord))
    /\ call' = [call EXCEPT ![c] = [pc |-> "report", key |-> @.key]]
    /\ UNCHANGED <<contractVars, locked, posted, ask, paid, historyVars>>

\* reportPayment has answered or failed, and the caller is told.
Report(c) ==
    /\ call[c].pc = "report"
    /\ delivered' = [delivered EXCEPT ![call[c].key] = @ + 1]
    /\ Finish(c)
    /\ UNCHANGED <<contractVars, disk, posted, ask, paid, cut, forced, abandoned>>

\* An error, another status or a bad receipt: markUnknown leaves the record
\* in the status the barrier gave it.
OutcomeUnknown(c) ==
    /\ call[c].pc = "response"
    /\ Finish(c)
    /\ UNCHANGED <<contractVars, disk, posted, ask, paid, historyVars>>

-----------------------------------------------------------------------------
(* The client dies; the operator removes the lock once no client runs.      *)

\* The payment was made and nothing on disk says so.
Silent(c) == call[c].pc = "report" /\ disk[call[c].key] = NoRecord

Crash(c) ==
    /\ call[c] # Idle
    /\ call' = [call EXCEPT ![c] = Idle]
    /\ cut' = IF Silent(c) THEN [cut EXCEPT ![call[c].key] = @ + 1] ELSE cut
    /\ UNCHANGED <<contractVars, disk, locked, posted, ask, paid, delivered,
                   forced, abandoned>>

RemoveLock ==
    /\ locked /\ \A c \in Clients : call[c] = Idle
    /\ locked' = FALSE
    /\ UNCHANGED <<contractVars, disk, call, posted, ask, paid, historyVars>>

\* The relayer: a submit request is handled, however late.
Relayer(w) ==
    /\ \/ ExpireFlow(w)
       \/ w \in posted /\ SubmitFlow(w)
       \/ \E e \in {"moved", "reverted"} : ExecuteFlow(w, e)
       \/ \E s \in FinalStatus : ResolveFlow(w, s)
    /\ UNCHANGED <<disk, locked, call, posted, ask, paid, historyVars>>

Init ==
    /\ ContractInit
    /\ disk \in [Keys -> Legacy \cup {NoRecord}]
    /\ locked = FALSE
    /\ call = [c \in Clients |-> Idle]
    /\ posted = {}
    /\ ask = [w \in Flows |-> NoAsk]
    /\ paid = [w \in Flows |-> <<>>]
    /\ delivered = [k \in Keys |-> 0]
    /\ cut = [k \in Keys |-> 0]
    /\ forced = [k \in Keys |-> 0]
    /\ abandoned = {}

Next ==
    \/ \E c \in Clients, k \in Keys : Begin(c, k) \/ BeginForced(c, k)
    \/ \E c \in Clients, price \in Prices : Probe(c, price)
    \/ \E c \in Clients, w \in Flows : PrepareWithdrawal(c, w)
    \/ \E c \in Clients :
         \/ ProbeRefused(c) \/ RealizeFails(c) \/ Checkpoint(c)
         \/ SignAndSubmit(c) \/ Resume(c) \/ Poll(c)
         \/ JournalRealized(c) \/ Barrier(c) \/ Fetch(c)
         \/ Delivered(c) \/ Report(c) \/ OutcomeUnknown(c) \/ Crash(c)
    \/ RemoveLock
    \/ \E w \in Flows : Relayer(w)

Spec == Init /\ [][Next]_vars

-----------------------------------------------------------------------------
(* Properties.                                                              *)

\* How many payments were made for k.
Payments(k) ==
    SumFunctionOnSet([w \in Flows |-> Len(paid[w])],
                     {w \in Flows : ask[w].key = k})

(***************************************************************************)
(* A purchase is not paid twice behind the user's back: whatever crashes,  *)
(* timeouts and failed writes happen, there is at most one payment that no *)
(* call has returned, beyond those the user forced and those of calls that *)
(* died while they reported back (the barrier in run()).  The last ones    *)
(* leave neither a marker nor an answer: the marker is cleared before the  *)
(* report is awaited, and a retry pays again (clearDelivered).             *)
(***************************************************************************)
PaidOnce ==
    \A k \in Keys : Payments(k) <= delivered[k] + cut[k] + forced[k] + 1

(***************************************************************************)
(* A payment spends yield that was realized for it: its own confirmed      *)
(* withdrawal, in full and for the price of the accepted challenge, and no *)
(* withdrawal funds two payments (resumeWithdrawal and the saved           *)
(* requirement).                                                           *)
(***************************************************************************)
PaymentFunded ==
    \A w \in Flows :
        paid[w] # <<>> => /\ effect[w] = "moved" /\ flow[w] = "confirmed"
                          /\ ask[w].full /\ paid[w] = <<ask[w].price>>

(***************************************************************************)
(* Realized yield is never forgotten: until it funds a payment, or the     *)
(* user discards the record, the journal names the withdrawal that moved   *)
(* it, so that no restart realizes it a second time (onPrepared).          *)
(***************************************************************************)
RealizationOnRecord ==
    \A w \in Flows :
        effect[w] = "moved" /\ paid[w] = <<>> /\ w \notin abandoned =>
            disk[ask[w].key].w = w
=============================================================================
