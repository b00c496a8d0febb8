---------------------------- MODULE PayerProofs ----------------------------
(***************************************************************************)
(* Proofs about Payer for any number of clients, requests, withdrawals and *)
(* prices, and any sequence of crashes and failed writes.                  *)
(***************************************************************************)
EXTENDS Payer, SumProofs, SequenceTheorems

Pcs == {"probe", "ensure", "checkpoint", "sign", "resume", "poll",
        "realized", "barrier", "fetch", "response"}
Calls == [pc : Pcs, key : Keys, pending : [Keys -> Records], rec : Records,
          resuming : BOOLEAN, price : Prices \cup {0}]

Reporting == [pc : {"report"}, key : Keys]

Running(c) == call[c] # Idle
Working(c) == call[c].pc \in Pcs

ShapeOK ==
    /\ ContractTypeOK
    /\ disk \in [Keys -> Records]
    /\ locked \in BOOLEAN
    /\ call \in [Clients -> Calls \cup Reporting \cup {Idle}]
    /\ posted \subseteq Flows
    /\ DOMAIN ask = Flows
    /\ paid \in [Flows -> Seq(Prices \cup {0})]

\* One client runs at a time, and it holds the lock.
Exclusive ==
    /\ \A c \in Clients : Running(c) => locked
    /\ \A c, d \in Clients : Running(c) /\ Running(d) => c = d

\* The running client's copy of the journal is the journal, but for the
\* withdrawal it has prepared and not yet written down.
CopyCurrent ==
    \A c \in Clients : Working(c) =>
        /\ call[c].pending = disk
        /\ IF call[c].pc = "checkpoint"
             THEN disk[call[c].key] = [call[c].rec EXCEPT !.w = NoFlow]
             ELSE disk[call[c].key] = call[c].rec

\* A withdrawal in the hands of the payer was asked for key k at that price.
AskedFor(w, k, price) ==
    w \in Flows /\ flow[w] # "absent" /\ ask[w].key = k /\ ask[w].price = price

\* What a journal record for k means.
RecordOK(rec, k) ==
    /\ rec.w # NoFlow => AskedFor(rec.w, k, rec.price)
    /\ rec.status = "none" => rec.w = NoFlow
    /\ rec.recovery /\ rec.status \in {"realized", "unknown"} =>
         rec.w # NoFlow /\ flow[rec.w] = "confirmed"
    /\ rec.w # NoFlow /\ paid[rec.w] # <<>> => rec.status = "unknown"

DiskOK == \A k \in Keys : RecordOK(disk[k], k)

\* What a client knows at each point of pay().
PcOK(call_, rec) ==
    LET pc == call_.pc
        w  == rec.w
    IN  /\ pc # "probe" => /\ rec.recovery
                           /\ call_.price = rec.price
        /\ pc = "probe" => /\ call_.resuming = Resumable(rec)
                           /\ Proceeds(rec)
        /\ pc = "ensure" => ~call_.resuming /\ rec.status = "realizing" /\ w = NoFlow
        /\ pc \notin {"probe", "ensure"} => AskedFor(w, call_.key, rec.price)
        /\ pc = "checkpoint" => ~call_.resuming /\ rec.status = "realizing"
        /\ pc \in {"checkpoint", "sign"} /\ ~call_.resuming => w \notin posted
        /\ pc = "resume" => call_.resuming
        /\ pc \in {"sign", "resume", "poll"} => rec.status = "realizing"
        /\ pc \in {"realized", "barrier"} => rec.status \in {"realizing", "realized"}
        /\ pc \in {"fetch", "response"} => rec.status = "unknown"
        /\ pc \in {"realized", "barrier", "fetch", "response"} => flow[w] = "confirmed"
        /\ pc \in {"barrier", "fetch"} => ask[w].full
        /\ pc \in {"ensure", "checkpoint", "sign", "resume", "poll", "realized",
                   "barrier", "fetch"} /\ w # NoFlow => paid[w] = <<>>
        /\ pc = "response" => paid[w] # <<>>

ClientOK == \A c \in Clients : Working(c) => PcOK(call[c], call[c].rec)

\* What the relayer's side guarantees.
RelayerOK ==
    \A w \in Flows :
        /\ flow[w] = "absent" => w \notin posted /\ effect[w] = "none"
        /\ flow[w] # "absent" => ask[w].key \in Keys
        /\ effect[w] # "none" => w \in posted
        /\ flow[w] \in {"submitted", "confirmed"} => w \in posted
        /\ flow[w] = "confirmed" => effect[w] = "moved"

\* A submitted withdrawal is on record until it pays or is given up.
PostedOnRecord ==
    \A w \in posted : paid[w] = <<>> /\ w \notin abandoned => disk[ask[w].key].w = w

PayerInv == /\ ShapeOK /\ Exclusive /\ CopyCurrent /\ DiskOK /\ ClientOK
            /\ RelayerOK /\ PostedOnRecord /\ PaymentFunded

\* The payments for k that no call has answered for are the one on record, or
\* the one a call is about to answer for.
PaidFor(k) == {w \in Flows : ask[w].key = k /\ paid[w] # <<>>}
OnRecord(k) == IF disk[k].w # NoFlow /\ paid[disk[k].w] # <<>> THEN 1 ELSE 0
Telling(k) == \E c \in Clients : call[c].pc = "report" /\ call[c].key = k
Untold(k) == IF OnRecord(k) = 1 \/ Telling(k) THEN 1 ELSE 0
Accounted == \A k \in Keys :
    Cardinality(PaidFor(k)) <= delivered[k] + cut[k] + forced[k] + Untold(k)

\* A marker that could not be cleared still names the payment.
ReportOK == \A c \in Clients : call[c].pc = "report" =>
    disk[call[c].key] = NoRecord \/ OnRecord(call[c].key) = 1

-----------------------------------------------------------------------------
(* The acting client.                                                       *)

USE DEF contractVars, journalVars, historyVars

\* A client inside pay() runs alone, and what it would save is the journal
\* with its own record replaced.
LEMMA Acting ==
    ASSUME PayerInv, NEW c \in Clients, call[c].pc \in Pcs
    PROVE  /\ Running(c) /\ call[c] \in Calls /\ locked
           /\ \A d \in Clients \ {c} : call[d] = Idle
           /\ call[c].pending = disk
           /\ \A rec : With(c, rec) = [disk EXCEPT ![call[c].key] = rec]
           /\ PcOK(call[c], call[c].rec)
<1>1. Running(c) /\ call[c] \in Calls
  BY DEF Running, Idle, Pcs, Reporting, PayerInv, ShapeOK
<1>2. locked /\ \A d \in Clients \ {c} : call[d] = Idle
  BY <1>1 DEF PayerInv, Exclusive, Running
<1>3. call[c].pending = disk /\ PcOK(call[c], call[c].rec)
  BY DEF PayerInv, CopyCurrent, ClientOK, Working
<1> QED  BY <1>1, <1>2, <1>3 DEF With

Quits(c) == call' = [call EXCEPT ![c] = Idle]
Writes(c, rec) == disk' = [disk EXCEPT ![call[c].key] = rec]
Realizing(price) == [NoRecord EXCEPT !.status = "realizing", !.recovery = TRUE,
                                     !.price = price]

\* The ways a client may write the journal.
LEMMA JournalSteps ==
    ASSUME PayerInv, Next
    PROVE  \/ UNCHANGED disk
           \/ \E c \in Clients, k \in Keys :
                BeginForced(c, k) /\ disk' = [disk EXCEPT ![k] = NoRecord]
           \/ \E c \in Clients, price \in Prices :
                /\ Probe(c, price) /\ ~call[c].resuming
                /\ Writes(c, Realizing(price))
           \/ \E c \in Clients :
                \/ RealizeFails(c) /\ SafeToRetry(c) /\ Writes(c, NoRecord)
                \/ Checkpoint(c) /\ Writes(c, call[c].rec)
                \/ /\ JournalRealized(c)
                   /\ Writes(c, [call[c].rec EXCEPT !.status = "realized"])
                \/ /\ Barrier(c)
                   /\ Writes(c, [call[c].rec EXCEPT !.status = "unknown"])
                \/ Delivered(c) /\ Writes(c, NoRecord)
           \/ \E c \in Clients, w \in Flows :
                PrepareWithdrawal(c, w) /\ Writes(c, NoRecord)
<1> USE DEF Saves, SaveThrows, Writes
<1>1. CASE \E c \in Clients, k \in Keys : BeginForced(c, k)
  BY <1>1 DEF BeginForced
<1>2. ASSUME NEW c \in Clients, NEW price \in Prices, Probe(c, price)
      PROVE  UNCHANGED disk \/ (~call[c].resuming /\ Writes(c, Realizing(price)))
  <2>1. \A rec : With(c, rec) = [disk EXCEPT ![call[c].key] = rec]
    BY <1>2, Acting DEF Probe, Pcs
  <2> QED  BY <1>2, <2>1 DEF Probe, Realizing
<1>3. ASSUME NEW c \in Clients, RealizeFails(c)
      PROVE  UNCHANGED disk \/ (SafeToRetry(c) /\ Writes(c, NoRecord))
  <2>1. \A rec : With(c, rec) = [disk EXCEPT ![call[c].key] = rec]
    BY <1>3, Acting DEF RealizeFails, Pcs
  <2> QED  BY <1>3, <2>1 DEF RealizeFails, Untrack
<1>4. ASSUME NEW c \in Clients, Checkpoint(c)
      PROVE  UNCHANGED disk \/ Writes(c, call[c].rec)
  <2>1. \A rec : With(c, rec) = [disk EXCEPT ![call[c].key] = rec]
    BY <1>4, Acting DEF Checkpoint, Pcs
  <2> QED  BY <1>4, <2>1 DEF Checkpoint, Persist
<1>5. ASSUME NEW c \in Clients, JournalRealized(c)
      PROVE  UNCHANGED disk \/ Writes(c, [call[c].rec EXCEPT !.status = "realized"])
  <2>1. \A rec : With(c, rec) = [disk EXCEPT ![call[c].key] = rec]
    BY <1>5, Acting DEF JournalRealized, Pcs
  <2> QED  BY <1>5, <2>1 DEF JournalRealized, Persist
<1>6. ASSUME NEW c \in Clients, Barrier(c)
      PROVE  UNCHANGED disk \/ Writes(c, [call[c].rec EXCEPT !.status = "unknown"])
  <2>1. \A rec : With(c, rec) = [disk EXCEPT ![call[c].key] = rec]
    BY <1>6, Acting DEF Barrier, Pcs
  <2> QED  BY <1>6, <2>1 DEF Barrier, Persist
<1>7. ASSUME NEW c \in Clients, Delivered(c)
      PROVE  UNCHANGED disk \/ Writes(c, NoRecord)
  <2>1. \A rec : With(c, rec) = [disk EXCEPT ![call[c].key] = rec]
    BY <1>7, Acting DEF Delivered, Pcs
  <2> QED  BY <1>7, <2>1 DEF Delivered
<1>8. ASSUME NEW c \in Clients, NEW w \in Flows, PrepareWithdrawal(c, w)
      PROVE  UNCHANGED disk \/ Writes(c, NoRecord)
  <2>1. \A rec : With(c, rec) = [disk EXCEPT ![call[c].key] = rec]
    BY <1>8, Acting DEF PrepareWithdrawal, Pcs
  <2> QED  BY <1>8, <2>1 DEF PrepareWithdrawal, Untrack
<1>9. \/ UNCHANGED disk
      \/ \E c \in Clients, k \in Keys : BeginForced(c, k)
      \/ \E c \in Clients, price \in Prices : Probe(c, price)
      \/ \E c \in Clients, w \in Flows : PrepareWithdrawal(c, w)
      \/ \E c \in Clients : RealizeFails(c) \/ Checkpoint(c) \/ JournalRealized(c)
                            \/ Barrier(c) \/ Delivered(c)
  BY DEF Next, Begin, ProbeRefused, SignAndSubmit, Resume, Poll, Fetch, Report,
         OutcomeUnknown, Crash, RemoveLock, Relayer
<1> HIDE DEF Writes
<1> QED  BY <1>1, <1>2, <1>3, <1>4, <1>5, <1>6, <1>7, <1>8, <1>9

-----------------------------------------------------------------------------
(* The relayer's side.                                                      *)

\* The flow changes when it is prepared or by the relayer.
LEMMA FlowSteps ==
    ASSUME Next
    PROVE  \/ UNCHANGED <<flow, effect, ask>>
           \/ \E c \in Clients, w \in Flows : PrepareWithdrawal(c, w)
           \/ \E w \in Flows : Relayer(w) /\ UNCHANGED ask
BY DEF Next, Begin, BeginForced, Probe, ProbeRefused, RealizeFails, Checkpoint,
       SignAndSubmit, Resume, Poll, JournalRealized, Barrier, Fetch, Delivered,
       Report, OutcomeUnknown, Crash, RemoveLock, Relayer

\* A flow that is not absent never becomes so, what is on record for it stays,
\* and a confirmed one stays confirmed.
LEMMA FlowStays ==
    ASSUME PayerInv, [Next]_vars, NEW w \in Flows, flow[w] # "absent"
    PROVE  /\ flow'[w] # "absent" /\ ask'[w] = ask[w]
           /\ flow[w] = "confirmed" => flow'[w] = "confirmed"
           /\ effect[w] = "moved" => effect'[w] = "moved"
<1> USE DEF PayerInv, ShapeOK, ContractTypeOK
<1>1. CASE UNCHANGED <<flow, effect, ask>>
  BY <1>1
<1>2. CASE \E c \in Clients, u \in Flows : PrepareWithdrawal(c, u)
  BY <1>2 DEF PrepareWithdrawal, PrepareFlow, SetFlow
<1>3. CASE \E u \in Flows : Relayer(u) /\ UNCHANGED ask
  BY <1>3 DEF Relayer, ExpireFlow, SubmitFlow, ExecuteFlow, ResolveFlow, SetFlow,
              FinalStatus
<1> QED  BY <1>1, <1>2, <1>3, FlowSteps DEF vars

\* Only signing posts a withdrawal.
LEMMA PostedSteps ==
    ASSUME Next
    PROVE  UNCHANGED posted \/ \E c \in Clients : SignAndSubmit(c)
BY DEF Next, Begin, BeginForced, Probe, ProbeRefused, PrepareWithdrawal,
       RealizeFails, Checkpoint, Resume, Poll, JournalRealized, Barrier, Fetch,
       Delivered, Report, OutcomeUnknown, Crash, RemoveLock, Relayer

\* Only the paid request makes a payment.
LEMMA PaidSteps ==
    ASSUME Next
    PROVE  UNCHANGED paid \/ \E c \in Clients : Fetch(c)
BY DEF Next, Begin, BeginForced, Probe, ProbeRefused, PrepareWithdrawal,
       RealizeFails, Checkpoint, SignAndSubmit, Resume, Poll, JournalRealized,
       Barrier, Delivered, Report, OutcomeUnknown, Crash, RemoveLock, Relayer

\* The relayer's side of the invariant.
LEMMA RelayerStep == ASSUME PayerInv, [Next]_vars PROVE RelayerOK'
<1> USE DEF RelayerOK, PayerInv, ShapeOK, ContractTypeOK
<1>0. posted \subseteq posted'
  BY PostedSteps DEF vars, SignAndSubmit
<1>1. CASE UNCHANGED <<flow, effect, ask>>
  <2>1. CASE UNCHANGED posted
    BY <1>1, <2>1
  <2>2. CASE \E c \in Clients : SignAndSubmit(c)
    <3>1. PICK c \in Clients : SignAndSubmit(c)
      BY <2>2
    <3>2. AskedFor(call[c].rec.w, call[c].key, call[c].rec.price)
      BY <3>1, Acting DEF SignAndSubmit, Pcs, PcOK
    <3>3. flow[call[c].rec.w] # "absent" /\ posted' = posted \cup {call[c].rec.w}
      BY <3>1, <3>2 DEF SignAndSubmit, AskedFor
    <3> QED  BY <1>1, <3>3
  <2> QED  BY <2>1, <2>2, PostedSteps DEF vars
<1>2. CASE \E c \in Clients, w \in Flows : PrepareWithdrawal(c, w)
  <2>1. PICK c \in Clients, w \in Flows : PrepareWithdrawal(c, w)
    BY <1>2
  <2>2. call[c].key \in Keys
    BY <2>1, Acting DEF PrepareWithdrawal, Pcs, Calls
  <2>3. /\ flow[w] = "absent" /\ flow' = [flow EXCEPT ![w] = "prepared"]
        /\ effect' = effect /\ posted' = posted
        /\ ask'[w].key = call[c].key /\ \A u \in Flows \ {w} : ask'[u] = ask[u]
    BY <2>1 DEF PrepareWithdrawal, PrepareFlow, SetFlow
  <2> QED  BY <2>2, <2>3
<1>3. CASE \E w \in Flows : Relayer(w) /\ UNCHANGED ask
  BY <1>3 DEF Relayer, ExpireFlow, SubmitFlow, ExecuteFlow, ResolveFlow, SetFlow,
              FinalStatus, Truthful
<1> QED  BY <1>1, <1>2, <1>3, FlowSteps DEF vars

-----------------------------------------------------------------------------
(* The journal.                                                             *)

\* A record keeps its meaning while nobody rewrites it.
LEMMA RecordStays ==
    ASSUME PayerInv, [Next]_vars, NEW k \in Keys
    PROVE  RecordOK(disk[k], k) /\ disk'[k] = disk[k] => RecordOK(disk[k], k)'
<1> SUFFICES ASSUME RecordOK(disk[k], k), disk'[k] = disk[k]
             PROVE  RecordOK(disk[k], k)'
  OBVIOUS
<1>1. disk[k].w # NoFlow => AskedFor(disk[k].w, k, disk[k].price)'
  BY FlowStays DEF RecordOK, AskedFor
<1>2. ASSUME disk[k].w # NoFlow, paid'[disk[k].w] # <<>>
      PROVE  disk[k].status = "unknown"
  <2>1. CASE UNCHANGED paid
    BY <1>2, <2>1 DEF RecordOK
  <2>2. CASE \E c \in Clients : Fetch(c)
    <3>1. PICK c \in Clients : Fetch(c)
      BY <2>2
    <3>2. /\ Running(c) /\ call[c].pc = "fetch" /\ PcOK(call[c], call[c].rec)
          /\ call[c] \in Calls
      BY <3>1, Acting DEF Fetch, Pcs
    <3>3. disk[call[c].key] = call[c].rec /\ call[c].rec.status = "unknown"
          /\ ask[call[c].rec.w].key = call[c].key
      BY <3>2 DEF PayerInv, CopyCurrent, Working, Pcs, PcOK, AskedFor
    <3>4. CASE disk[k].w = call[c].rec.w
      <4>1. ask[disk[k].w].key = k
        BY <1>2 DEF RecordOK, AskedFor
      <4> QED  BY <3>3, <3>4, <4>1
    <3>5. CASE disk[k].w # call[c].rec.w
      <4>1. disk[k].w \in Flows
        BY <1>2 DEF RecordOK, AskedFor
      <4>2. paid'[disk[k].w] = paid[disk[k].w]
        BY <3>1, <3>5, <4>1 DEF Fetch, PayerInv, ShapeOK
      <4> QED  BY <1>2, <4>2 DEF RecordOK
    <3> QED  BY <3>4, <3>5
  <2> QED  BY <2>1, <2>2, PaidSteps DEF vars
<1>3. disk[k].recovery /\ disk[k].status \in {"realized", "unknown"} =>
        disk[k].w # NoFlow /\ flow'[disk[k].w] = "confirmed"
  BY FlowStays DEF RecordOK, AskedFor
<1> QED  BY <1>1, <1>2, <1>3 DEF RecordOK

\* An empty record means nothing.
LEMMA NoRecordOK == ASSUME NEW k PROVE RecordOK(NoRecord, k)'
BY DEF RecordOK, NoRecord

\* Every write leaves a record that means something.
LEMMA DiskStep == ASSUME PayerInv, [Next]_vars PROVE DiskOK'
<1>0. /\ disk \in [Keys -> Records] /\ \A k \in Keys : RecordOK(disk[k], k)
  BY DEF PayerInv, ShapeOK, DiskOK
<1>1. CASE UNCHANGED disk
  BY <1>0, <1>1, RecordStays DEF DiskOK
<1>2. ASSUME NEW k \in Keys, NEW rec, disk' = [disk EXCEPT ![k] = rec], RecordOK(rec, k)'
      PROVE  DiskOK'
  BY <1>0, <1>2, RecordStays DEF DiskOK
<1>3. CASE \E c \in Clients, k \in Keys :
             BeginForced(c, k) /\ disk' = [disk EXCEPT ![k] = NoRecord]
  BY <1>2, <1>3, NoRecordOK
<1>4. ASSUME NEW c \in Clients, call[c].pc \in Pcs, Writes(c, NoRecord)
      PROVE  DiskOK'
  <2>1. PICK k \in Keys : k = call[c].key
    BY <1>4, Acting DEF Calls
  <2> QED  BY <1>2, <1>4, <2>1, NoRecordOK DEF Writes
<1>5. CASE \/ \E c \in Clients :
                \/ RealizeFails(c) /\ SafeToRetry(c) /\ Writes(c, NoRecord)
                \/ Delivered(c) /\ Writes(c, NoRecord)
           \/ \E c \in Clients, w \in Flows :
                PrepareWithdrawal(c, w) /\ Writes(c, NoRecord)
  BY <1>4, <1>5 DEF RealizeFails, Delivered, PrepareWithdrawal, Pcs
<1>6. CASE \E c \in Clients, price \in Prices : Probe(c, price) /\ Writes(c, Realizing(price))
  <2>1. PICK c \in Clients, price \in Prices : Probe(c, price) /\ Writes(c, Realizing(price))
    BY <1>6
  <2>2. PICK k \in Keys : k = call[c].key
    BY <2>1, Acting DEF Calls, Probe, Pcs
  <2>3. RecordOK(Realizing(price), k)'
    BY DEF RecordOK, Realizing, NoRecord
  <2> QED  BY <1>2, <2>1, <2>2, <2>3 DEF Writes
<1>7. ASSUME NEW c \in Clients, call[c].pc \in Pcs, NEW rec \in Records, Writes(c, rec),
             AskedFor(rec.w, call[c].key, rec.price), rec.status # "none",
             UNCHANGED paid,
             rec.status \in {"realized", "unknown"} => flow[rec.w] = "confirmed",
             paid[rec.w] # <<>> => rec.status = "unknown"
      PROVE  DiskOK'
  <2>1. PICK k \in Keys : k = call[c].key
    BY <1>7, Acting DEF Calls
  <2>2. AskedFor(rec.w, k, rec.price)'
    BY <1>7, <2>1, FlowStays DEF AskedFor
  <2>3. rec.w # NoFlow
    BY <1>7, PayerAssumption DEF AskedFor
  <2>4. rec.status \in {"realized", "unknown"} => flow'[rec.w] = "confirmed"
    BY <1>7, FlowStays DEF AskedFor
  <2>5. RecordOK(rec, k)'
    BY <1>7, <2>2, <2>3, <2>4 DEF RecordOK
  <2> QED  BY <1>2, <1>7, <2>1, <2>5 DEF Writes
<1>8. ASSUME NEW c \in Clients, call[c].pc \in {"checkpoint", "realized", "barrier"}
      PROVE  /\ call[c].pc \in Pcs
             /\ call[c].rec \in Records
             /\ AskedFor(call[c].rec.w, call[c].key, call[c].rec.price)
             /\ call[c].rec.status # "none" /\ paid[call[c].rec.w] = <<>>
             /\ call[c].pc = "checkpoint" => call[c].rec.status = "realizing"
             /\ call[c].pc # "checkpoint" => flow[call[c].rec.w] = "confirmed"
  <2>1. call[c].pc \in Pcs
    BY <1>8 DEF Pcs
  <2>2. call[c] \in Calls /\ PcOK(call[c], call[c].rec)
    BY <2>1, Acting
  <2> QED
    BY <1>8, <2>1, <2>2, PayerAssumption DEF Calls, PcOK, AskedFor
<1>9. CASE \E c \in Clients : Checkpoint(c) /\ Writes(c, call[c].rec)
  <2>1. PICK c \in Clients : Checkpoint(c) /\ Writes(c, call[c].rec)
    BY <1>9
  <2>2. PICK rec \in Records : rec = call[c].rec
    BY <1>8, <2>1 DEF Checkpoint
  <2> QED  BY <1>7, <1>8, <2>1, <2>2 DEF Checkpoint
<1>10. ASSUME NEW c \in Clients, NEW s \in {"realized", "unknown"},
              call[c].pc \in {"realized", "barrier"}, UNCHANGED paid,
              Writes(c, [call[c].rec EXCEPT !.status = s])
       PROVE  DiskOK'
  <2>1. PICK rec : rec = [call[c].rec EXCEPT !.status = s]
    OBVIOUS
  <2>2. /\ rec \in Records /\ rec.w = call[c].rec.w /\ rec.price = call[c].rec.price
        /\ rec.status = s
    BY <1>8, <1>10, <2>1 DEF Records
  <2> QED  BY <1>7, <1>8, <1>10, <2>1, <2>2
<1>11. CASE \E c \in Clients :
               \/ /\ JournalRealized(c)
                  /\ Writes(c, [call[c].rec EXCEPT !.status = "realized"])
               \/ /\ Barrier(c)
                  /\ Writes(c, [call[c].rec EXCEPT !.status = "unknown"])
  BY <1>10, <1>11 DEF JournalRealized, Barrier
<1> QED
  BY <1>1, <1>3, <1>5, <1>6, <1>9, <1>11, JournalSteps DEF vars

\* A payment made stays made, and is appended by one client only.
LEMMA PaidGrows ==
    ASSUME PayerInv, [Next]_vars, NEW w \in Flows, paid'[w] = <<>>
    PROVE  paid[w] = <<>>
<1>1. CASE \E c \in Clients : Fetch(c)
  <2>1. PICK c \in Clients : Fetch(c)
    BY <1>1
  <2>2. /\ paid' = [paid EXCEPT ![call[c].rec.w] = Append(@, call[c].price)]
        /\ call[c].price \in Prices \cup {0}
        /\ paid \in [Flows -> Seq(Prices \cup {0})]
    BY <2>1, Acting DEF Fetch, Pcs, Calls, PayerInv, ShapeOK
  <2>3. CASE w = call[c].rec.w
    <3>1. paid'[w] = Append(paid[w], call[c].price) /\ paid[w] \in Seq(Prices \cup {0})
      BY <2>2, <2>3
    <3>2. PICK q \in Seq(Prices \cup {0}), p \in Prices \cup {0} :
            q = paid[w] /\ p = call[c].price
      BY <2>2, <3>1
    <3>3. Append(q, p) # <<>>
      BY AppendProperties
    <3> QED  BY <3>1, <3>2, <3>3
  <2> QED  BY <2>2, <2>3
<1> QED  BY <1>1, PaidSteps DEF vars

\* The journal names a submitted withdrawal until it pays or is given up.
LEMMA PostedStep == ASSUME PayerInv, [Next]_vars PROVE PostedOnRecord'
<1> SUFFICES ASSUME NEW w \in posted', paid'[w] = <<>>, w \notin abandoned'
             PROVE  disk'[ask'[w].key].w = w
  BY DEF PostedOnRecord
<1>1. CASE w \notin posted
  <2>1. PICK c \in Clients : SignAndSubmit(c)
    BY <1>1, PostedSteps DEF vars
  <2>2. w = call[c].rec.w
    BY <1>1, <2>1 DEF SignAndSubmit
  <2>3. Running(c) /\ PcOK(call[c], call[c].rec)
    BY <2>1, Acting DEF SignAndSubmit, Pcs
  <2>4. ask[w].key = call[c].key /\ disk[call[c].key] = call[c].rec
    BY <2>1, <2>2, <2>3 DEF SignAndSubmit, PcOK, AskedFor, PayerInv, CopyCurrent,
                                Working, Pcs
  <2>5. ask' = ask /\ disk' = disk
    BY <2>1 DEF SignAndSubmit
  <2> QED  BY <2>2, <2>4, <2>5
<1>2. CASE w \in posted
  <2>1. w \in Flows /\ flow[w] # "absent" /\ w # NoFlow
    BY <1>2, PayerAssumption DEF PayerInv, ShapeOK, RelayerOK
  <2>2. ask'[w] = ask[w] /\ paid[w] = <<>> /\ ask[w].key \in Keys
    BY <2>1, FlowStays, PaidGrows DEF PayerInv, RelayerOK
  <2>3. abandoned \subseteq abandoned'
    BY DEF vars, Next, Begin, BeginForced, Probe, ProbeRefused, PrepareWithdrawal,
       RealizeFails, Checkpoint, SignAndSubmit, Resume, Poll, JournalRealized,
       Barrier, Fetch, Delivered, Report, OutcomeUnknown, Crash, RemoveLock,
       Relayer
  <2>4. PICK k \in Keys : k = ask[w].key
    BY <2>2
  <2>5. disk[k].w = w /\ disk \in [Keys -> Records]
    BY <1>2, <2>2, <2>3, <2>4 DEF PayerInv, PostedOnRecord, ShapeOK
  <2>6. SUFFICES disk'[k].w = w
    BY <2>2, <2>4
  <2>7. CASE UNCHANGED disk
    BY <2>5, <2>7
  <2>8. ASSUME NEW c \in Clients, NEW j \in Keys, BeginForced(c, j),
               disk' = [disk EXCEPT ![j] = NoRecord]
        PROVE  disk'[k].w = w
    <3>1. j # k
      BY <2>5, <2>8 DEF BeginForced
    <3> QED  BY <2>5, <2>8, <3>1
  <2>9. ASSUME NEW c \in Clients, call[c].pc \in Pcs, NEW rec, Writes(c, rec),
               call[c].key = k => rec.w = w
        PROVE  disk'[k].w = w
    BY <2>5, <2>9, Acting DEF Writes, Calls
  <2>10. ASSUME NEW c \in Clients, call[c].pc \in Pcs, call[c].key = k
         PROVE  /\ PcOK(call[c], call[c].rec)
                /\ call[c].pc # "checkpoint" => call[c].rec = disk[k]
                /\ call[c].pc # "checkpoint"
                /\ call[c].rec \in Records
    <3>1. Running(c) /\ PcOK(call[c], call[c].rec) /\ call[c] \in Calls
      BY <2>10, Acting
    <3>2. call[c].pc # "checkpoint"
      <4>1. ASSUME call[c].pc = "checkpoint" PROVE FALSE
        <5>1. disk[k] = [call[c].rec EXCEPT !.w = NoFlow]
          BY <2>10, <3>1, <4>1 DEF PayerInv, CopyCurrent, Working
        <5>2. disk[k].w = NoFlow
          BY <3>1, <5>1 DEF Calls, Records
        <5> QED  BY <2>1, <2>5, <5>2
      <4> QED  BY <4>1
    <3> QED  BY <2>10, <3>1, <3>2 DEF PayerInv, CopyCurrent, Working, Calls
  <2>11. ASSUME NEW c \in Clients, NEW price \in Prices, Probe(c, price), ~call[c].resuming,
                Writes(c, Realizing(price))
         PROVE  disk'[k].w = w
    <3>1. call[c].pc = "probe" /\ call[c].pc \in Pcs
      BY <2>11 DEF Probe, Pcs
    <3>2. ASSUME call[c].key = k PROVE FALSE
      <4>1. disk[k].status = "none"
        BY <2>10, <2>11, <3>1, <3>2 DEF PcOK, Proceeds
      <4> QED  BY <2>1, <2>5, <4>1 DEF PayerInv, DiskOK, RecordOK
    <3> QED  BY <2>9, <2>11, <3>1, <3>2
  <2>12. ASSUME NEW c \in Clients, RealizeFails(c), SafeToRetry(c), Writes(c, NoRecord)
         PROVE  disk'[k].w = w
    <3>1. call[c].pc \in {"ensure", "sign"} /\ call[c].pc \in Pcs /\ ~call[c].resuming
      BY <2>12 DEF SafeToRetry, Pcs
    <3>2. ASSUME call[c].key = k PROVE FALSE
      BY <1>2, <2>1, <2>5, <2>10, <3>1, <3>2 DEF PcOK
    <3> QED  BY <2>9, <2>12, <3>1, <3>2
  <2>13. ASSUME NEW c \in Clients, Checkpoint(c), Writes(c, call[c].rec)
         PROVE  disk'[k].w = w
    <3>1. call[c].pc = "checkpoint" /\ call[c].pc \in Pcs
      BY <2>13 DEF Checkpoint, Pcs
    <3> QED  BY <2>9, <2>10, <2>13, <3>1
  <2>14. ASSUME NEW c \in Clients, NEW s, call[c].pc \in {"realized", "barrier"},
                Writes(c, [call[c].rec EXCEPT !.status = s])
         PROVE  disk'[k].w = w
    <3>1. call[c].pc \in Pcs
      BY <2>14 DEF Pcs
    <3>2. ASSUME call[c].key = k PROVE [call[c].rec EXCEPT !.status = s].w = w
      BY <2>5, <2>10, <2>14, <3>1, <3>2 DEF Records
    <3> QED  BY <2>9, <2>14, <3>1, <3>2
  <2>15. ASSUME NEW c \in Clients, Delivered(c), Writes(c, NoRecord)
         PROVE  disk'[k].w = w
    <3>1. call[c].pc = "response" /\ call[c].pc \in Pcs
      BY <2>15 DEF Delivered, Pcs
    <3>2. ASSUME call[c].key = k PROVE FALSE
      BY <2>2, <2>5, <2>10, <3>1, <3>2 DEF PcOK
    <3> QED  BY <2>9, <2>15, <3>1, <3>2
  <2>16. ASSUME NEW c \in Clients, NEW u \in Flows, PrepareWithdrawal(c, u),
                Writes(c, NoRecord)
         PROVE  disk'[k].w = w
    <3>1. call[c].pc = "ensure" /\ call[c].pc \in Pcs
      BY <2>16 DEF PrepareWithdrawal, Pcs
    <3>2. ASSUME call[c].key = k PROVE FALSE
      BY <2>1, <2>5, <2>10, <3>1, <3>2 DEF PcOK
    <3> QED  BY <2>9, <2>16, <3>1, <3>2
  <2>17. ASSUME NEW c \in Clients, JournalRealized(c),
                Writes(c, [call[c].rec EXCEPT !.status = "realized"])
         PROVE  disk'[k].w = w
    BY <2>14, <2>17 DEF JournalRealized
  <2>18. ASSUME NEW c \in Clients, Barrier(c),
                Writes(c, [call[c].rec EXCEPT !.status = "unknown"])
         PROVE  disk'[k].w = w
    BY <2>14, <2>18 DEF Barrier
  <2>19. UNCHANGED disk \/ Next
    BY DEF vars
  <2>20. CASE Next /\ disk' # disk
    BY <2>20, <2>8, <2>11, <2>12, <2>13, <2>15, <2>16, <2>17, <2>18, JournalSteps
  <2> QED  BY <2>7, <2>19, <2>20
<1> QED  BY <1>1, <1>2

\* A payment is made for a confirmed withdrawal, in full, once.
LEMMA FundedStep == ASSUME PayerInv, [Next]_vars PROVE PaymentFunded'
<1> SUFFICES ASSUME NEW w \in Flows, paid'[w] # <<>>
             PROVE  /\ effect'[w] = "moved" /\ flow'[w] = "confirmed"
                    /\ ask'[w].full /\ paid'[w] = <<ask'[w].price>>
  BY DEF PaymentFunded
<1>1. CASE paid'[w] = paid[w]
  <2>1. effect[w] = "moved" /\ flow[w] = "confirmed" /\ ask[w].full
        /\ paid[w] = <<ask[w].price>>
    BY <1>1 DEF PayerInv, PaymentFunded
  <2> QED  BY <1>1, <2>1, FlowStays
<1>2. CASE paid'[w] # paid[w]
  <2>1. PICK c \in Clients : Fetch(c)
    BY <1>2, PaidSteps DEF vars
  <2>2. PcOK(call[c], call[c].rec) /\ call[c].pc = "fetch"
    BY <2>1, Acting DEF Fetch, Pcs
  <2>3. w = call[c].rec.w /\ paid'[w] = Append(paid[w], call[c].price)
    BY <1>2, <2>1 DEF Fetch, PayerInv, ShapeOK
  <2>4. /\ flow[w] = "confirmed" /\ ask[w].full /\ paid[w] = <<>>
        /\ call[c].price = ask[w].price
    BY <2>2, <2>3, PayerAssumption DEF PcOK, AskedFor
  <2>5. effect[w] = "moved"
    BY <2>4 DEF PayerInv, RelayerOK
  <2>6. flow' = flow /\ effect' = effect /\ ask' = ask
    BY <2>1 DEF Fetch
  <2>7. paid'[w] = <<ask[w].price>>
    BY <2>3, <2>4
  <2> QED  BY <2>4, <2>5, <2>6, <2>7
<1> QED  BY <1>1, <1>2

-----------------------------------------------------------------------------
(* The clients.                                                             *)

ClientsOK == /\ call \in [Clients -> Calls \cup Reporting \cup {Idle}]
             /\ Exclusive /\ CopyCurrent /\ ClientOK

\* Nobody is left inside pay().
LEMMA AllIdle ==
    ASSUME call' \in [Clients -> Calls \cup Reporting \cup {Idle}],
           \A d \in Clients : call'[d] = Idle
    PROVE  ClientsOK'
BY DEF ClientsOK, Exclusive, CopyCurrent, ClientOK, Running, Working, Idle, Pcs

\* The client that ends its call was the only one inside pay().
LEMMA QuitStep ==
    ASSUME PayerInv, NEW c \in Clients, Running(c), Quits(c)
    PROVE  ClientsOK'
<1>1. \A d \in Clients \ {c} : call[d] = Idle
  BY DEF PayerInv, Exclusive, Running
<1>2. call \in [Clients -> Calls \cup Reporting \cup {Idle}]
  BY DEF PayerInv, ShapeOK
<1> QED  BY <1>1, <1>2, AllIdle DEF Quits

\* One client takes a step inside pay(), the others are idle.
LEMMA MoveStep ==
    ASSUME PayerInv, NEW c \in Clients, NEW r \in Calls,
           \A d \in Clients \ {c} : call[d] = Idle,
           call' = [call EXCEPT ![c] = r], locked',
           disk' = r.pending,
           IF r.pc = "checkpoint" THEN disk'[r.key] = [r.rec EXCEPT !.w = NoFlow]
                                  ELSE disk'[r.key] = r.rec,
           PcOK(r, r.rec)'
    PROVE  ClientsOK'
<1>1. call \in [Clients -> Calls \cup Reporting \cup {Idle}]
  BY DEF PayerInv, ShapeOK
<1>2. /\ call' \in [Clients -> Calls \cup Reporting \cup {Idle}]
      /\ call'[c] = r /\ \A d \in Clients \ {c} : call'[d] = Idle
  BY <1>1
<1>3. Exclusive' /\ CopyCurrent'
  BY <1>2 DEF Exclusive, CopyCurrent, Running, Working, Idle, Pcs
<1>4. ClientOK'
  BY <1>2 DEF ClientOK, Working, Idle, Pcs
<1> QED  BY <1>2, <1>3, <1>4 DEF ClientsOK

\* What a client knows stays true while the relayer acts.
LEMMA RelayerKeepsClients ==
    ASSUME PayerInv, [Next]_vars, UNCHANGED <<disk, locked, call, posted, paid>>
    PROVE  ClientsOK'
<1>1. call \in [Clients -> Calls \cup Reporting \cup {Idle}]
  BY DEF PayerInv, ShapeOK
<1>2. Exclusive' /\ CopyCurrent'
  BY DEF PayerInv, Exclusive, CopyCurrent, Running, Working
<1>3. ASSUME NEW c \in Clients, Working(c) PROVE PcOK(call[c], call[c].rec)'
  <2>1. PICK r : r = call[c]
    OBVIOUS
  <2>2. PcOK(r, r.rec)
    BY <1>3, <2>1 DEF PayerInv, ClientOK, Working
  <2>3. r.pc \notin {"probe", "ensure"} =>
          /\ AskedFor(r.rec.w, r.key, r.rec.price)'
          /\ flow[r.rec.w] = "confirmed" => flow'[r.rec.w] = "confirmed"
          /\ ask'[r.rec.w] = ask[r.rec.w]
    BY <2>2, FlowStays DEF PcOK, AskedFor
  <2>4. PcOK(r, r.rec)'
    BY <2>2, <2>3 DEF PcOK
  <2> QED  BY <2>1, <2>4
<1>4. ClientOK'
  BY <1>3 DEF ClientOK, Working
<1> QED  BY <1>1, <1>2, <1>4 DEF ClientsOK

\* pay() begins.
LEMMA BeginStep ==
    ASSUME PayerInv, NEW c \in Clients, NEW k \in Keys,
           Begin(c, k) \/ BeginForced(c, k)
    PROVE  ClientsOK'
<1>1. \A d \in Clients : call[d] = Idle
  BY DEF Begin, BeginForced, MayLock, PayerInv, Exclusive, Running
<1>2. call \in [Clients -> Calls \cup Reporting \cup {Idle}] /\ disk \in [Keys -> Records]
  BY DEF PayerInv, ShapeOK
<1>3. NoRecord \in Records
  BY DEF NoRecord, Records
<1>4. CASE UNCHANGED call
  BY <1>1, <1>2, <1>4, AllIdle
<1>5. ASSUME NEW files \in [Keys -> Records], NEW resuming,
             resuming = Resumable(files[k]), Proceeds(files[k]),
             disk' = files, locked',
             call' = [call EXCEPT ![c] =
                  [pc |-> "probe", key |-> k, pending |-> files,
                   rec |-> files[k], resuming |-> resuming, price |-> 0]]
      PROVE  ClientsOK'
  <2>1. resuming \in BOOLEAN
    BY <1>5 DEF Resumable, Records
  <2>2. PICK r : r = [pc |-> "probe", key |-> k, pending |-> files,
                      rec |-> files[k], resuming |-> resuming, price |-> 0]
    OBVIOUS
  <2>3. r \in Calls
    BY <2>1, <2>2 DEF Calls, Pcs
  <2>4. PcOK(r, r.rec)'
    BY <1>5, <2>2 DEF PcOK, Resumable, Proceeds
  <2> QED  BY <1>1, <1>5, <2>2, <2>3, <2>4, MoveStep
<1>6. CASE Begin(c, k)
  BY <1>2, <1>5, <1>6 DEF Begin
<1>7. CASE BeginForced(c, k) /\ call' # call
  <2>1. PICK files : files = [disk EXCEPT ![k] = NoRecord]
    OBVIOUS
  <2>2. files \in [Keys -> Records] /\ files[k] = NoRecord
    BY <1>2, <1>3, <2>1
  <2>3. Resumable(files[k]) = FALSE /\ Proceeds(files[k])
    BY <2>2 DEF Resumable, Proceeds, NoRecord
  <2>4. /\ disk' = files /\ locked'
        /\ call' = [call EXCEPT ![c] =
             [pc |-> "probe", key |-> k, pending |-> files,
              rec |-> files[k], resuming |-> FALSE, price |-> 0]]
    BY <1>7, <2>1, <2>2 DEF BeginForced, Saves
  <2> QED  BY <1>5, <2>2, <2>3, <2>4
<1> QED  BY <1>4, <1>6, <1>7

\* The client's own view: its record is the journal's once it is checkpointed.
LEMMA OwnRecord ==
    ASSUME PayerInv, NEW c \in Clients, call[c].pc \in Pcs
    PROVE  /\ call[c].key \in Keys /\ call[c].rec \in Records
           /\ disk \in [Keys -> Records]
           /\ call[c].pc # "checkpoint" =>
                disk[call[c].key] = call[c].rec /\ RecordOK(call[c].rec, call[c].key)
           /\ call[c].pc = "checkpoint" =>
                disk[call[c].key] = [call[c].rec EXCEPT !.w = NoFlow]
<1>1. Running(c) /\ call[c] \in Calls
  BY Acting
<1> QED  BY <1>1 DEF Calls, PayerInv, ShapeOK, CopyCurrent, DiskOK, Working

\* The challenge: a new purchase is journaled, a resumed one compared.
LEMMA ProbeStep ==
    ASSUME PayerInv, NEW c \in Clients, NEW price \in Prices, Probe(c, price)
    PROVE  ClientsOK'
<1>0. call[c].pc = "probe" /\ call[c].pc \in Pcs
  BY DEF Probe, Pcs
<1>1. /\ Running(c) /\ call[c] \in Calls /\ locked /\ PcOK(call[c], call[c].rec)
      /\ \A d \in Clients \ {c} : call[d] = Idle
      /\ call[c].pending = disk
      /\ \A rec : With(c, rec) = [disk EXCEPT ![call[c].key] = rec]
  BY <1>0, Acting
<1>2. /\ call[c].key \in Keys /\ call[c].rec \in Records /\ disk \in [Keys -> Records]
      /\ disk[call[c].key] = call[c].rec /\ RecordOK(call[c].rec, call[c].key)
  BY <1>0, OwnRecord
<1>3. call \in [Clients -> Calls \cup Reporting \cup {Idle}]
  BY DEF PayerInv, ShapeOK
<1>4. CASE Quits(c)
  BY <1>1, <1>4, QuitStep
<1>5. CASE call[c].resuming
  <2>1. PICK pc : pc = IF call[c].rec.status = "realized" THEN "realized" ELSE "resume"
    OBVIOUS
  <2>2. PICK r : r = [call[c] EXCEPT !.price = price, !.pc = pc]
    OBVIOUS
  <2>3. call' = [call EXCEPT ![c] = r] /\ UNCHANGED <<disk, locked, flow, ask, paid, posted>>
    BY <1>3, <1>5, <2>1, <2>2 DEF Probe
  <2>4. pc \in {"realized", "resume"}
    BY <2>1
  <2>5. /\ r \in Calls /\ r.pc = pc /\ r.price = price /\ r.rec = call[c].rec
        /\ r.key = call[c].key /\ r.resuming = call[c].resuming /\ r.pending = call[c].pending
    BY <1>1, <2>2, <2>4 DEF Calls, Pcs
  <2>6. Resumable(r.rec) /\ Proceeds(r.rec) /\ r.rec.price = price
    BY <1>0, <1>1, <1>5, <2>5 DEF PcOK, Probe, ChallengeAccepted
  <2>7. /\ r.rec.recovery /\ r.rec.status \in {"realizing", "realized"} /\ r.rec.w # NoFlow
        /\ r.rec.status = "realized" => flow[r.rec.w] = "confirmed"
    BY <1>2, <2>5, <2>6 DEF Resumable, Proceeds, RecordOK
  <2>8. AskedFor(r.rec.w, r.key, r.rec.price) /\ paid[r.rec.w] = <<>>
    BY <1>2, <2>5, <2>7 DEF RecordOK
  <2>9. PcOK(r, r.rec)'
    BY <1>5, <2>1, <2>3, <2>5, <2>6, <2>7, <2>8 DEF PcOK, AskedFor
  <2> QED  BY <1>1, <1>2, <2>3, <2>4, <2>5, <2>9, MoveStep
<1>6. CASE ~call[c].resuming /\ ~Quits(c)
  <2>1. PICK rec : rec = Realizing(price)
    OBVIOUS
  <2>2. /\ rec \in Records /\ rec.recovery /\ rec.status = "realizing" /\ rec.w = NoFlow
        /\ rec.price = price
    BY <2>1 DEF Realizing, NoRecord, Records
  <2>3. PICK files : files = With(c, rec)
    OBVIOUS
  <2>4. files \in [Keys -> Records] /\ files[call[c].key] = rec
    BY <1>1, <1>2, <2>2, <2>3
  <2>5. PICK r : r = [call[c] EXCEPT !.pc = "ensure", !.rec = rec, !.price = price,
                                     !.pending = files]
    OBVIOUS
  <2>6. /\ r \in Calls /\ r.pc = "ensure" /\ r.price = price /\ r.rec = rec
        /\ r.key = call[c].key /\ r.resuming = call[c].resuming /\ r.pending = files
    BY <1>1, <2>2, <2>4, <2>5 DEF Calls, Pcs
  <2>7. /\ call' = [call EXCEPT ![c].pc = "ensure", ![c].rec = rec,
                                ![c].price = price, ![c].pending = files]
        /\ disk' = files /\ locked' = locked
    BY <1>6, <2>1, <2>3 DEF Probe, Finish, Quits, Saves, Realizing
  <2>8. call' = [call EXCEPT ![c] = r]
    BY <1>3, <2>5, <2>7
  <2>9. PcOK(r, r.rec)'
    BY <1>6, <2>2, <2>6 DEF PcOK
  <2> QED  BY <1>1, <2>4, <2>6, <2>7, <2>8, <2>9, MoveStep
<1> QED  BY <1>4, <1>5, <1>6

\* The relayer prepares the withdrawal; only then is there something to lose.
LEMMA PrepareStep ==
    ASSUME PayerInv, NEW c \in Clients, NEW w \in Flows, PrepareWithdrawal(c, w)
    PROVE  ClientsOK'
<1>0. call[c].pc = "ensure" /\ call[c].pc \in Pcs
  BY DEF PrepareWithdrawal, Pcs
<1>1. /\ Running(c) /\ call[c] \in Calls /\ locked /\ PcOK(call[c], call[c].rec)
      /\ \A d \in Clients \ {c} : call[d] = Idle
      /\ call[c].pending = disk
  BY <1>0, Acting
<1>2. /\ call[c].key \in Keys /\ call[c].rec \in Records /\ disk \in [Keys -> Records]
      /\ disk[call[c].key] = call[c].rec
  BY <1>0, OwnRecord
<1>3. call \in [Clients -> Calls \cup Reporting \cup {Idle}] /\ DOMAIN ask = Flows
      /\ flow \in [Flows -> FlowStates]
  BY DEF PayerInv, ShapeOK, ContractTypeOK
<1>4. CASE Quits(c)
  BY <1>1, <1>4, QuitStep
<1>5. CASE ~Quits(c)
  <2>1. PICK r : r = [call[c] EXCEPT !.pc = "checkpoint", !.rec.w = w]
    OBVIOUS
  <2>2. PICK rec : rec = [call[c].rec EXCEPT !.w = w]
    OBVIOUS
  <2>3. /\ rec \in Records /\ rec.w = w /\ rec.price = call[c].rec.price
        /\ rec.recovery = call[c].rec.recovery /\ rec.status = call[c].rec.status
    BY <1>2, <2>2 DEF Records
  <2>4. /\ r \in Calls /\ r.pc = "checkpoint" /\ r.price = call[c].price /\ r.rec = rec
        /\ r.key = call[c].key /\ r.resuming = call[c].resuming /\ r.pending = call[c].pending
    BY <1>1, <2>1, <2>2, <2>3 DEF Calls, Pcs
  <2>5. call' = [call EXCEPT ![c] = r] /\ UNCHANGED <<disk, locked, posted, paid>>
    BY <1>3, <1>5, <2>1 DEF PrepareWithdrawal, Untrack, Finish, Quits
  <2>6. call[c].rec.w = NoFlow
    BY <1>0, <1>1 DEF PcOK
  <2>7. [rec EXCEPT !.w = NoFlow] = call[c].rec
    BY <1>2, <2>2, <2>6 DEF Records
  <2>8. flow[w] = "absent" /\ flow'[w] = "prepared"
        /\ ask'[w].key = call[c].key /\ ask'[w].price = call[c].price
    BY <1>3 DEF PrepareWithdrawal, PrepareFlow, SetFlow
  <2>9. w \notin posted /\ paid[w] = <<>>
    BY <2>8 DEF PayerInv, RelayerOK, PaymentFunded
  <2>10. /\ ~call[c].resuming /\ rec.status = "realizing" /\ rec.recovery
         /\ call[c].price = rec.price
    BY <1>0, <1>1, <2>3 DEF PcOK
  <2>11. AskedFor(rec.w, r.key, rec.price)'
    BY <2>3, <2>4, <2>8, <2>10 DEF AskedFor
  <2>12. PcOK(r, r.rec)'
    BY <2>3, <2>4, <2>5, <2>9, <2>10, <2>11 DEF PcOK
  <2> QED  BY <1>1, <1>2, <2>4, <2>5, <2>7, <2>12, MoveStep
<1> QED  BY <1>4, <1>5

\* The call goes on from another point, as it is or with another record.
Continues(r, c, pc, rec) ==
    /\ r \in Calls /\ r.pc = pc /\ r.rec = rec /\ r.key = call[c].key
    /\ r.price = call[c].price /\ r.resuming = call[c].resuming

\* A client goes on and writes nothing.
LEMMA GotoStep ==
    ASSUME PayerInv, NEW c \in Clients, call[c].pc \in Pcs \ {"checkpoint"},
           NEW pc \in Pcs \ {"checkpoint"}, Goto(c, pc), UNCHANGED disk,
           \A r : Continues(r, c, pc, call[c].rec) => PcOK(r, r.rec)'
    PROVE  ClientsOK'
<1>1. /\ call[c] \in Calls /\ locked /\ call[c].pending = disk
      /\ \A d \in Clients \ {c} : call[d] = Idle
  BY Acting
<1>2. disk[call[c].key] = call[c].rec
  BY OwnRecord
<1>3. call \in [Clients -> Calls \cup Reporting \cup {Idle}]
  BY DEF PayerInv, ShapeOK
<1>4. PICK r : r = [call[c] EXCEPT !.pc = pc]
  OBVIOUS
<1>5. /\ r \in Calls /\ r.pc = pc /\ r.rec = call[c].rec /\ r.key = call[c].key
      /\ r.price = call[c].price /\ r.resuming = call[c].resuming
      /\ r.pending = call[c].pending
  BY <1>1, <1>4 DEF Calls
<1>6. call' = [call EXCEPT ![c] = r] /\ locked' = locked
  BY <1>3, <1>4 DEF Goto
<1>7. PcOK(r, r.rec)'
  BY <1>5 DEF Continues
<1> QED  BY <1>1, <1>2, <1>5, <1>6, <1>7, MoveStep

\* A client writes its record and goes on.
LEMMA PersistStep ==
    ASSUME PayerInv, NEW c \in Clients, call[c].pc \in Pcs, NEW rec \in Records,
           NEW pc \in Pcs \ {"checkpoint"}, Persist(c, rec, pc),
           \A r : Continues(r, c, pc, rec) => PcOK(r, r.rec)'
    PROVE  ClientsOK'
<1>1. /\ Running(c) /\ call[c] \in Calls /\ locked
      /\ \A d \in Clients \ {c} : call[d] = Idle
      /\ With(c, rec) = [disk EXCEPT ![call[c].key] = rec]
  BY Acting
<1>2. call[c].key \in Keys /\ disk \in [Keys -> Records]
  BY OwnRecord
<1>3. call \in [Clients -> Calls \cup Reporting \cup {Idle}]
  BY DEF PayerInv, ShapeOK
<1>4. CASE Quits(c)
  BY <1>1, <1>4, QuitStep
<1>5. CASE ~Quits(c)
  <2>1. PICK files : files = With(c, rec)
    OBVIOUS
  <2>2. files \in [Keys -> Records] /\ files[call[c].key] = rec
    BY <1>1, <1>2, <2>1
  <2>3. PICK r : r = [call[c] EXCEPT !.pc = pc, !.rec = rec, !.pending = files]
    OBVIOUS
  <2>4. /\ r \in Calls /\ r.pc = pc /\ r.rec = rec /\ r.key = call[c].key
        /\ r.price = call[c].price /\ r.resuming = call[c].resuming
        /\ r.pending = files
    BY <1>1, <2>2, <2>3 DEF Calls
  <2>5. /\ call' = [call EXCEPT ![c].pc = pc, ![c].rec = rec, ![c].pending = files]
        /\ disk' = files /\ locked' = locked
    BY <1>5, <2>1 DEF Persist, Finish, Quits, Saves
  <2>6. call' = [call EXCEPT ![c] = r]
    BY <1>3, <2>3, <2>5
  <2>7. PcOK(r, r.rec)'
    BY <2>4 DEF Continues
  <2> QED  BY <1>1, <2>2, <2>4, <2>5, <2>6, <2>7, MoveStep
<1> QED  BY <1>4, <1>5

\* Signing, submitting, resuming and polling.
LEMMA RealizeStep ==
    ASSUME PayerInv, NEW c \in Clients,
           SignAndSubmit(c) \/ Resume(c) \/ Poll(c)
    PROVE  ClientsOK'
<1>0. /\ call[c].pc \in {"sign", "resume", "poll"} /\ call[c].pc \in Pcs \ {"checkpoint"}
      /\ UNCHANGED <<flow, disk, ask, paid>>
  BY DEF SignAndSubmit, Resume, Poll, Pcs
<1>1. PcOK(call[c], call[c].rec)
  BY <1>0, Acting DEF Pcs
<1>2. ASSUME NEW pc \in {"poll", "sign", "realized"}, Goto(c, pc),
             pc = "realized" => flow[call[c].rec.w] = "confirmed",
             pc = "sign" => call[c].resuming
      PROVE  ClientsOK'
  <2>1. ASSUME NEW r, Continues(r, c, pc, call[c].rec) PROVE PcOK(r, r.rec)'
    BY <1>0, <1>1, <1>2, <2>1 DEF PcOK, Continues, AskedFor
  <2>2. pc \in Pcs \ {"checkpoint"}
    BY DEF Pcs
  <2> QED  BY <1>0, <1>2, <2>1, <2>2, GotoStep
<1>3. CASE SignAndSubmit(c)
  BY <1>2, <1>3 DEF SignAndSubmit
<1>4. CASE Resume(c)
  BY <1>1, <1>2, <1>4 DEF Resume, PcOK
<1>5. CASE Poll(c)
  BY <1>2, <1>5 DEF Poll
<1> QED  BY <1>3, <1>4, <1>5

\* Writing down the withdrawal, its realization and the barrier.
LEMMA JournalStep ==
    ASSUME PayerInv, NEW c \in Clients,
           Checkpoint(c) \/ JournalRealized(c) \/ Barrier(c)
    PROVE  ClientsOK'
<1>0. /\ call[c].pc \in {"checkpoint", "realized", "barrier"} /\ call[c].pc \in Pcs
      /\ UNCHANGED <<flow, ask, paid, posted>>
  BY DEF Checkpoint, JournalRealized, Barrier, Pcs
<1>1. PcOK(call[c], call[c].rec) /\ call[c].rec \in Records /\ Running(c)
  BY <1>0, Acting, OwnRecord
<1>2. ASSUME NEW pc \in {"sign", "barrier", "fetch"}, NEW rec \in Records,
             Persist(c, rec, pc), rec.w = call[c].rec.w, rec.price = call[c].rec.price,
             rec.recovery = call[c].rec.recovery,
             pc = "sign" => call[c].pc = "checkpoint" /\ rec.status = "realizing",
             pc # "sign" => call[c].pc # "checkpoint" /\ ask[rec.w].full,
             pc = "barrier" => rec.status = "realized",
             pc = "fetch" => rec.status = "unknown"
      PROVE  ClientsOK'
  <2>1. ASSUME NEW r, Continues(r, c, pc, rec) PROVE PcOK(r, r.rec)'
    <3>1. AskedFor(rec.w, r.key, rec.price)'
      BY <1>0, <1>1, <1>2, <2>1 DEF PcOK, Continues, AskedFor
    <3>2. paid'[rec.w] = <<>>
      BY <1>0, <1>1, <1>2, <3>1, PayerAssumption DEF PcOK, AskedFor
    <3> QED  BY <1>0, <1>1, <1>2, <2>1, <3>1, <3>2 DEF PcOK, Continues
  <2>2. pc \in Pcs \ {"checkpoint"}
    BY DEF Pcs
  <2> QED  BY <1>0, <1>2, <2>1, <2>2, PersistStep
<1>3. CASE Checkpoint(c)
  BY <1>1, <1>2, <1>3 DEF Checkpoint, PcOK
<1>4. ASSUME NEW s \in {"realized", "unknown"}
      PROVE  LET rec == [call[c].rec EXCEPT !.status = s]
             IN  /\ rec \in Records /\ rec.w = call[c].rec.w /\ rec.status = s
                 /\ rec.price = call[c].rec.price
                 /\ rec.recovery = call[c].rec.recovery
  BY <1>1 DEF Records
<1>5. CASE JournalRealized(c)
  <2>1. PICK rec : rec = [call[c].rec EXCEPT !.status = "realized"]
    OBVIOUS
  <2>2. CASE ask[rec.w].full
    BY <1>2, <1>4, <1>5, <2>1, <2>2 DEF JournalRealized
  <2>3. CASE ~ask[rec.w].full
    BY <1>1, <1>5, <2>1, <2>3, QuitStep DEF JournalRealized, Finish, Quits
  <2> QED  BY <2>2, <2>3
<1>6. CASE Barrier(c)
  <2>1. PICK rec : rec = [call[c].rec EXCEPT !.status = "unknown"]
    OBVIOUS
  <2>2. ask[rec.w].full
    BY <1>1, <1>4, <1>6, <2>1 DEF Barrier, PcOK
  <2> QED  BY <1>2, <1>4, <1>6, <2>1, <2>2 DEF Barrier
<1> QED  BY <1>3, <1>5, <1>6

\* The payment leaves the client.
LEMMA FetchStep ==
    ASSUME PayerInv, NEW c \in Clients, Fetch(c)
    PROVE  ClientsOK' /\ paid' \in [Flows -> Seq(Prices \cup {0})]
<1>0. /\ call[c].pc = "fetch" /\ call[c].pc \in Pcs \ {"checkpoint"}
      /\ UNCHANGED <<flow, disk, ask, posted>> /\ Goto(c, "response")
  BY DEF Fetch, Pcs
<1>1. PcOK(call[c], call[c].rec) /\ call[c] \in Calls
  BY <1>0, Acting
<1>2. PICK w \in Flows : w = call[c].rec.w
  BY <1>0, <1>1 DEF PcOK, AskedFor
<1>3. PICK p \in Prices \cup {0}, q \in Seq(Prices \cup {0}) : p = call[c].price /\ q = paid[w]
  BY <1>1 DEF Calls, PayerInv, ShapeOK
<1>4. Append(q, p) \in Seq(Prices \cup {0}) /\ Append(q, p) # <<>>
  BY AppendProperties
<1>5. paid' = [paid EXCEPT ![w] = Append(q, p)] /\ paid \in [Flows -> Seq(Prices \cup {0})]
  BY <1>2, <1>3 DEF Fetch, PayerInv, ShapeOK
<1>6. paid' \in [Flows -> Seq(Prices \cup {0})] /\ paid'[w] # <<>>
  BY <1>4, <1>5
<1>7. ASSUME NEW r, Continues(r, c, "response", call[c].rec) PROVE PcOK(r, r.rec)'
  BY <1>0, <1>1, <1>2, <1>6, <1>7 DEF PcOK, Continues, AskedFor
<1>8. ClientsOK'
  BY <1>0, <1>7, GotoStep DEF Pcs
<1> QED  BY <1>6, <1>8

\* The marker is cleared; the client has only its answer left to give.
LEMMA DeliverStep ==
    ASSUME PayerInv, NEW c \in Clients, Delivered(c)
    PROVE  ClientsOK'
<1>1. call[c].pc \in Pcs /\ locked' = locked
  BY DEF Delivered, Pcs
<1>2. call[c] \in Calls /\ locked /\ \A d \in Clients \ {c} : call[d] = Idle
  BY <1>1, Acting
<1>3. call \in [Clients -> Calls \cup Reporting \cup {Idle}]
  BY DEF PayerInv, ShapeOK
<1>4. PICK r : r = [pc |-> "report", key |-> call[c].key]
  OBVIOUS
<1>5. r \in Reporting /\ r.pc \notin Pcs
  BY <1>2, <1>4 DEF Calls, Reporting, Pcs
<1>6. /\ call' \in [Clients -> Calls \cup Reporting \cup {Idle}]
      /\ call'[c] = r /\ \A d \in Clients \ {c} : call'[d] = Idle
  BY <1>2, <1>3, <1>4, <1>5 DEF Delivered
<1>7. Exclusive'
  BY <1>1, <1>2, <1>6 DEF Exclusive, Running
<1>8. \A d \in Clients : call'[d].pc \notin Pcs
  BY <1>5, <1>6 DEF Idle, Pcs
<1> QED  BY <1>6, <1>7, <1>8 DEF ClientsOK, CopyCurrent, ClientOK, Working

-----------------------------------------------------------------------------
(* The invariant.                                                           *)

\* Every step keeps what clients know.
LEMMA ClientsStep == ASSUME PayerInv, [Next]_vars PROVE ClientsOK'
<1>1. CASE UNCHANGED vars
  BY <1>1, RelayerKeepsClients DEF vars
<1>2. CASE \E c \in Clients, k \in Keys : Begin(c, k) \/ BeginForced(c, k)
  BY <1>2, BeginStep
<1>3. CASE \E c \in Clients, price \in Prices : Probe(c, price)
  BY <1>3, ProbeStep
<1>4. CASE \E c \in Clients, w \in Flows : PrepareWithdrawal(c, w)
  BY <1>4, PrepareStep
<1>5. ASSUME NEW c \in Clients,
             \/ ProbeRefused(c) \/ RealizeFails(c) \/ Report(c)
             \/ OutcomeUnknown(c) \/ Crash(c)
      PROVE  ClientsOK'
  <2>1. Running(c)
    <3>1. call[c].pc \in Pcs \/ Running(c)
      BY <1>5 DEF ProbeRefused, RealizeFails, Report, OutcomeUnknown, Crash,
                  Pcs, Running, Idle
    <3> QED  BY <3>1, Acting
  <2>2. Quits(c)
    BY <1>5 DEF ProbeRefused, RealizeFails, Report, OutcomeUnknown, Crash,
                Untrack, Finish, Quits
  <2> QED  BY <2>1, <2>2, QuitStep
<1>6. CASE \E c \in Clients : SignAndSubmit(c) \/ Resume(c) \/ Poll(c)
  BY <1>6, RealizeStep
<1>7. CASE \E c \in Clients : Checkpoint(c) \/ JournalRealized(c) \/ Barrier(c)
  BY <1>7, JournalStep
<1>8. CASE \E c \in Clients : Fetch(c)
  BY <1>8, FetchStep
<1>9. CASE RemoveLock
  <2>1. call' = call /\ call \in [Clients -> Calls \cup Reporting \cup {Idle}]
    BY <1>9 DEF RemoveLock, PayerInv, ShapeOK
  <2> QED  BY <1>9, <2>1, AllIdle DEF RemoveLock
<1>10. CASE \E w \in Flows : Relayer(w)
  BY <1>10, RelayerKeepsClients DEF Relayer
<1>11. CASE \E c \in Clients : Delivered(c)
  BY <1>11, DeliverStep
<1> QED
  BY <1>1, <1>2, <1>3, <1>4, <1>5, <1>6, <1>7, <1>8, <1>9, <1>10, <1>11 DEF Next

\* Everything written to the journal is a record.
LEMMA JournalTyped ==
    ASSUME PayerInv, [Next]_vars PROVE disk' \in [Keys -> Records]
<1>0. disk \in [Keys -> Records] /\ NoRecord \in Records
  BY DEF PayerInv, ShapeOK, NoRecord, Records
<1>1. ASSUME NEW c \in Clients, call[c].pc \in Pcs, NEW rec \in Records, Writes(c, rec)
      PROVE  disk' \in [Keys -> Records]
  BY <1>0, <1>1 DEF Writes
<1>2. ASSUME NEW c \in Clients, call[c].pc \in Pcs
      PROVE  /\ call[c].rec \in Records
             /\ \A s \in {"realized", "unknown"} :
                  [call[c].rec EXCEPT !.status = s] \in Records
  <2>1. call[c].rec \in Records
    BY <1>2, OwnRecord
  <2> QED  BY <2>1 DEF Records
<1>3. ASSUME NEW price \in Prices PROVE Realizing(price) \in Records
  BY DEF Realizing, NoRecord, Records
<1>4. CASE UNCHANGED disk
  BY <1>0, <1>4
<1>5. ASSUME NEW c \in Clients,
             \/ Checkpoint(c) \/ JournalRealized(c) \/ Barrier(c)
             \/ RealizeFails(c) \/ Delivered(c)
             \/ \E price \in Prices : Probe(c, price)
             \/ \E w \in Flows : PrepareWithdrawal(c, w)
      PROVE  call[c].pc \in Pcs
  BY <1>5 DEF Checkpoint, JournalRealized, Barrier, RealizeFails, Delivered, Probe,
              PrepareWithdrawal, Pcs
<1>6. CASE \E c \in Clients, k \in Keys :
             BeginForced(c, k) /\ disk' = [disk EXCEPT ![k] = NoRecord]
  BY <1>0, <1>6
<1>7. CASE \E c \in Clients, price \in Prices :
             Probe(c, price) /\ Writes(c, Realizing(price))
  BY <1>1, <1>3, <1>5, <1>7
<1>8. CASE \/ \E c \in Clients :
                \/ RealizeFails(c) /\ SafeToRetry(c) /\ Writes(c, NoRecord)
                \/ Delivered(c) /\ Writes(c, NoRecord)
           \/ \E c \in Clients, w \in Flows :
                PrepareWithdrawal(c, w) /\ Writes(c, NoRecord)
  BY <1>0, <1>1, <1>5, <1>8
<1>9. CASE \E c \in Clients :
             \/ Checkpoint(c) /\ Writes(c, call[c].rec)
             \/ /\ JournalRealized(c)
                /\ Writes(c, [call[c].rec EXCEPT !.status = "realized"])
             \/ /\ Barrier(c)
                /\ Writes(c, [call[c].rec EXCEPT !.status = "unknown"])
  BY <1>1, <1>2, <1>5, <1>9
<1>10. UNCHANGED disk \/ Next
  BY DEF vars
<1>11. CASE Next
  BY <1>4, <1>6, <1>7, <1>8, <1>9, <1>11, JournalSteps
<1> QED  BY <1>4, <1>10, <1>11

\* Every step keeps the types.
LEMMA ShapeStep == ASSUME PayerInv, [Next]_vars PROVE ShapeOK'
<1>1. disk' \in [Keys -> Records] /\ call' \in [Clients -> Calls \cup Reporting \cup {Idle}]
  BY JournalTyped, ClientsStep DEF ClientsOK
<1>2. paid' \in [Flows -> Seq(Prices \cup {0})]
  <2>1. CASE UNCHANGED paid
    BY <2>1 DEF PayerInv, ShapeOK
  <2> QED  BY <2>1, FetchStep, PaidSteps DEF vars
<1>3. posted' \subseteq Flows
  <2>1. CASE UNCHANGED posted
    BY <2>1 DEF PayerInv, ShapeOK
  <2>2. ASSUME NEW c \in Clients, SignAndSubmit(c) PROVE posted' \subseteq Flows
    <3>1. PcOK(call[c], call[c].rec) /\ call[c].pc = "sign"
      BY <2>2, Acting DEF SignAndSubmit, Pcs
    <3> QED  BY <2>2, <3>1 DEF SignAndSubmit, PcOK, AskedFor, PayerInv, ShapeOK
  <2> QED  BY <2>1, <2>2, PostedSteps DEF vars
<1>4. ContractTypeOK' /\ DOMAIN ask' = Flows
  <2> USE DEF PayerInv, ShapeOK, ContractTypeOK
  <2>1. CASE UNCHANGED <<flow, effect, ask>>
    BY <2>1
  <2>2. CASE \E c \in Clients, w \in Flows : PrepareWithdrawal(c, w)
    BY <2>2 DEF PrepareWithdrawal, PrepareFlow, SetFlow, FlowStates
  <2>3. CASE \E w \in Flows : Relayer(w) /\ UNCHANGED ask
    <3>1. \/ \E w \in Flows, s \in FlowStates :
               SetFlow(w, s) /\ UNCHANGED <<effect, ask>>
          \/ \E w \in Flows, e \in Effects :
               effect' = [effect EXCEPT ![w] = e] /\ UNCHANGED <<flow, ask>>
      BY <2>3 DEF Relayer, ExpireFlow, SubmitFlow, ExecuteFlow, ResolveFlow,
                  FinalStatus, FlowStates, Effects
    <3> QED  BY <3>1 DEF SetFlow
  <2> QED  BY <2>1, <2>2, <2>3, FlowSteps DEF vars
<1>5. locked' \in BOOLEAN
  <2>1. locked \in BOOLEAN
    BY DEF PayerInv, ShapeOK
  <2>2. locked' \in {locked, TRUE, FALSE}
    BY DEF vars, Next, Begin, BeginForced, Probe, ProbeRefused, PrepareWithdrawal,
       RealizeFails, Checkpoint, SignAndSubmit, Resume, Poll, JournalRealized,
       Barrier, Fetch, Delivered, Report, OutcomeUnknown, Crash, RemoveLock,
       Relayer,
       Goto, Finish, Persist, Untrack
  <2> QED  BY <2>1, <2>2
<1> QED  BY <1>1, <1>2, <1>3, <1>4, <1>5 DEF ShapeOK

\* The invariant is inductive.
LEMMA PayerInductive == PayerInv /\ [Next]_vars => PayerInv'
BY ShapeStep, ClientsStep, DiskStep, RelayerStep, PostedStep, FundedStep
   DEF ClientsOK, PayerInv

\* It holds initially, whatever legacy records the journal has.
LEMMA PayerStarts == Init => PayerInv
<1> SUFFICES ASSUME Init PROVE PayerInv
  OBVIOUS
<1>1. ShapeOK
  <2>1. NoRecord \in Records
    BY DEF NoRecord, Records
  <2>2. disk \in [Keys -> Records]
    BY <2>1, LegacyAssumption DEF Init
  <2>3. <<>> \in Seq(Prices \cup {0})
    OBVIOUS
  <2>4. paid \in [Flows -> Seq(Prices \cup {0})] /\ DOMAIN ask = Flows
    BY <2>3 DEF Init
  <2> QED  BY <2>2, <2>4 DEF Init, ShapeOK, ContractInit, ContractTypeOK, FlowStates, Effects
<1>2. \A c \in Clients : ~Running(c)
  BY DEF Init, Running
<1>3. DiskOK
  BY LegacyAssumption DEF Init, DiskOK, RecordOK, NoRecord
<1>4. RelayerOK /\ PostedOnRecord /\ PaymentFunded
  BY DEF Init, ContractInit, RelayerOK, PostedOnRecord, PaymentFunded
<1> QED
  BY <1>1, <1>2, <1>3, <1>4 DEF PayerInv, Exclusive, CopyCurrent, ClientOK,
                                Working, Running, Idle, Pcs

\* Whatever clients crash and writes fail, all of the above holds together.
THEOREM PayerInvariant == Spec => []PayerInv
BY PayerStarts, PayerInductive, PTL DEF Spec

(***************************************************************************)
(* Every journal holds records, and a record whose payment may have been   *)
(* made names its withdrawal (persistCheckpoint); whoever runs pay() holds *)
(* the lock file.                                                          *)
(***************************************************************************)
THEOREM PayerTypeCorrect == Spec => []PayerTypeOK
<1>1. PayerInv => PayerTypeOK
  BY DEF PayerInv, ShapeOK, Exclusive, Running, DiskOK, RecordOK, PayerTypeOK
<1> QED  BY <1>1, PayerInvariant, PTL

(***************************************************************************)
(* A payment spends the yield of its own confirmed withdrawal, realized in *)
(* full at the accepted price, and a withdrawal funds one payment, however *)
(* calls crash, resume and are forced (resumeWithdrawal, run()).           *)
(***************************************************************************)
THEOREM PaymentsFunded == Spec => []PaymentFunded
BY PayerInvariant, PTL DEF PayerInv

(***************************************************************************)
(* A withdrawal whose yield was realized is named by the journal until it  *)
(* pays or the user gives it up: no crash or failed write loses it         *)
(* (onPrepared journals before it is signed).                              *)
(***************************************************************************)
THEOREM RealizationsOnRecord == Spec => []RealizationOnRecord
<1>1. PayerInv => RealizationOnRecord
  BY DEF PayerInv, RelayerOK, PostedOnRecord, RealizationOnRecord
<1> QED  BY <1>1, PayerInvariant, PTL

-----------------------------------------------------------------------------
(* No purchase is paid twice behind the user's back.                        *)

CountersOK ==
    delivered \in [Keys -> Nat] /\ cut \in [Keys -> Nat] /\ forced \in [Keys -> Nat]

\* The answers, the answers cut short and the forced payments are counted and
\* never taken back.
LEMMA CounterSteps ==
    ASSUME PayerInv, CountersOK, [Next]_vars
    PROVE  /\ CountersOK'
           /\ \A k \in Keys : /\ delivered[k] <= delivered'[k]
                              /\ cut[k] <= cut'[k]
                              /\ forced[k] <= forced'[k]
<1>1. \/ UNCHANGED <<delivered, cut, forced>>
      \/ \E c \in Clients : Report(c) \/ Crash(c)
      \/ \E c \in Clients, k \in Keys : BeginForced(c, k)
  BY DEF vars, Next, Begin, Probe, ProbeRefused, PrepareWithdrawal,
       RealizeFails, Checkpoint, SignAndSubmit, Resume, Poll, JournalRealized,
       Barrier, Fetch, Delivered, OutcomeUnknown, RemoveLock, Relayer
<1>2. CASE UNCHANGED <<delivered, cut, forced>>
  BY <1>2 DEF CountersOK
<1>3. ASSUME NEW c \in Clients, call[c].pc = "report" PROVE call[c].key \in Keys
  BY <1>3 DEF PayerInv, ShapeOK, Reporting, Calls, Pcs, Idle
<1>4. CASE \E c \in Clients : Report(c)
  <2>1. PICK c \in Clients : Report(c)
    BY <1>4
  <2>2. PICK k \in Keys : k = call[c].key
    BY <1>3, <2>1 DEF Report
  <2>3. /\ delivered' = [delivered EXCEPT ![k] = @ + 1]
        /\ cut' = cut /\ forced' = forced
    BY <2>1, <2>2 DEF Report
  <2> QED  BY <2>3 DEF CountersOK
<1>5. CASE \E c \in Clients : Crash(c)
  <2>1. PICK c \in Clients : Crash(c)
    BY <1>5
  <2>2. CASE Silent(c)
    <3>1. PICK k \in Keys : k = call[c].key
      BY <1>3, <2>2 DEF Silent
    <3>2. cut' = [cut EXCEPT ![k] = @ + 1] /\ delivered' = delivered /\ forced' = forced
      BY <2>1, <2>2, <3>1 DEF Crash
    <3> QED  BY <3>2 DEF CountersOK
  <2>3. CASE ~Silent(c)
    BY <2>1, <2>3 DEF Crash, CountersOK
  <2> QED  BY <2>2, <2>3
<1>6. CASE \E c \in Clients, k \in Keys : BeginForced(c, k)
  <2>1. PICK c \in Clients, k \in Keys : BeginForced(c, k)
    BY <1>6
  <2>2. /\ delivered' = delivered /\ cut' = cut
        /\ forced' = [forced EXCEPT ![k] = @ + 1] \/ forced' = [forced EXCEPT ![k] = @]
    BY <2>1 DEF BeginForced
  <2> QED  BY <2>2 DEF CountersOK
<1> QED  BY <1>1, <1>2, <1>4, <1>5, <1>6

\* Nobody writes the journal while a client gives its answer.
LEMMA ReportAlone ==
    ASSUME PayerInv, [Next]_vars, NEW c \in Clients, call[c].pc = "report"
    PROVE  Report(c) \/ Crash(c) \/ UNCHANGED <<disk, call>>
<1>1. Running(c)
  BY DEF Running, Idle
<1>2. locked /\ \A d \in Clients \ {c} : call[d] = Idle
  BY <1>1 DEF PayerInv, Exclusive, Running
<1>3. \A d \in Clients : call[d].pc \in {"report", "idle"} /\ (call[d] = Idle => d # c)
  BY <1>1, <1>2 DEF Idle, Running
<1>4. ASSUME NEW d \in Clients, Report(d) \/ Crash(d) PROVE d = c
  <2>1. CASE Report(d)
    BY <1>2, <2>1 DEF Report, Idle
  <2>2. CASE Crash(d)
    BY <1>2, <2>2 DEF Crash
  <2> QED  BY <1>4, <2>1, <2>2
<1>5. \/ UNCHANGED <<disk, call>>
      \/ \E d \in Clients : Report(d) \/ Crash(d)
      \/ \E d \in Clients, k \in Keys : Begin(d, k) \/ BeginForced(d, k)
      \/ \E d \in Clients : call[d].pc \in Pcs
  BY DEF vars, Next, Probe, ProbeRefused, PrepareWithdrawal, RealizeFails,
         Checkpoint, SignAndSubmit, Resume, Poll, JournalRealized, Barrier, Fetch,
         Delivered, OutcomeUnknown, RemoveLock, Relayer, Pcs
<1>6. ~\E d \in Clients, k \in Keys : Begin(d, k) \/ BeginForced(d, k)
  BY <1>2 DEF Begin, BeginForced, MayLock
<1>7. ~\E d \in Clients : call[d].pc \in Pcs
  BY <1>3 DEF Pcs
<1> QED  BY <1>4, <1>5, <1>6, <1>7

\* A payment leaves the record when its answer is next or when it is discarded.
LEMMA RecordCleared ==
    ASSUME PayerInv, CountersOK, [Next]_vars, UNCHANGED paid, NEW k \in Keys
    PROVE  \/ OnRecord(k)' = OnRecord(k)
           \/ Telling(k)'
           \/ forced'[k] = forced[k] + 1
<1>0. disk \in [Keys -> Records]
  BY DEF PayerInv, ShapeOK
<1>1. CASE disk'[k] = disk[k]
  BY <1>1 DEF OnRecord
<1>2. CASE disk'[k] # disk[k]
  <2>0. Next
    BY <1>2 DEF vars
  <2>1. ASSUME NEW c \in Clients, NEW j \in Keys, BeginForced(c, j),
               disk' = [disk EXCEPT ![j] = NoRecord]
        PROVE  forced'[k] = forced[k] + 1
    <3>1. j = k
      BY <1>0, <1>2, <2>1
    <3>2. disk'[k] = NoRecord
      BY <1>0, <2>1, <3>1
    <3> QED  BY <2>1, <3>1, <3>2 DEF BeginForced, CountersOK
  <2>2. ASSUME NEW c \in Clients, call[c].pc \in Pcs, NEW rec, Writes(c, rec),
               call[c].rec.w # NoFlow /\ call[c].pc # "checkpoint" =>
                 paid[call[c].rec.w] = <<>>,
               rec.w # NoFlow => paid[rec.w] = <<>>
        PROVE  OnRecord(k)' = OnRecord(k)
    <3>1. call[c].key = k /\ disk'[k] = rec
      BY <1>0, <1>2, <2>2 DEF Writes
    <3>2. OnRecord(k)' = 0
      BY <2>2, <3>1 DEF OnRecord
    <3>3. CASE call[c].pc = "checkpoint"
      <4>1. disk[k] = [call[c].rec EXCEPT !.w = NoFlow] /\ call[c].rec \in Records
        BY <2>2, <3>1, <3>3, OwnRecord
      <4>2. disk[k].w = NoFlow
        BY <4>1 DEF Records
      <4> QED  BY <3>2, <4>2 DEF OnRecord
    <3>4. CASE call[c].pc # "checkpoint"
      <4>1. disk[k] = call[c].rec
        BY <2>2, <3>1, <3>4, OwnRecord
      <4> QED  BY <2>2, <3>2, <3>4, <4>1 DEF OnRecord
    <3> QED  BY <3>3, <3>4
  <2>3. NoRecord.w = NoFlow /\ \A price \in Prices : Realizing(price).w = NoFlow
    BY DEF NoRecord, Realizing
  <2>4. ASSUME NEW c \in Clients, call[c].pc \in Pcs
        PROVE  /\ PcOK(call[c], call[c].rec) /\ call[c].rec \in Records
               /\ call[c].pc # "checkpoint" => RecordOK(call[c].rec, call[c].key)
    BY <2>4, Acting, OwnRecord
  <2>5. ASSUME NEW c \in Clients, NEW price \in Prices, Probe(c, price),
               ~call[c].resuming, Writes(c, Realizing(price))
        PROVE  OnRecord(k)' = OnRecord(k)
    <3>1. call[c].pc = "probe" /\ call[c].pc \in Pcs
      BY <2>5 DEF Probe, Pcs
    <3>2. call[c].rec.status = "none"
      BY <2>4, <2>5, <3>1 DEF PcOK, Proceeds
    <3>3. call[c].rec.w = NoFlow
      BY <2>4, <3>1, <3>2 DEF RecordOK
    <3> QED  BY <2>2, <2>3, <2>5, <3>1, <3>3
  <2>6. ASSUME NEW c \in Clients, RealizeFails(c), SafeToRetry(c), Writes(c, NoRecord)
        PROVE  OnRecord(k)' = OnRecord(k)
    <3>1. call[c].pc \in {"ensure", "sign"} /\ call[c].pc \in Pcs
      BY <2>6 DEF SafeToRetry, Pcs
    <3> QED  BY <2>2, <2>3, <2>4, <2>6, <3>1 DEF PcOK
  <2>7. ASSUME NEW c \in Clients, Checkpoint(c), Writes(c, call[c].rec)
        PROVE  OnRecord(k)' = OnRecord(k)
    <3>1. call[c].pc = "checkpoint" /\ call[c].pc \in Pcs
      BY <2>7 DEF Checkpoint, Pcs
    <3> QED  BY <2>2, <2>4, <2>7, <3>1 DEF PcOK
  <2>8. ASSUME NEW c \in Clients, NEW s \in {"realized", "unknown"},
               call[c].pc \in {"realized", "barrier"},
               Writes(c, [call[c].rec EXCEPT !.status = s])
        PROVE  OnRecord(k)' = OnRecord(k)
    <3>1. call[c].pc \in Pcs
      BY <2>8 DEF Pcs
    <3>2. [call[c].rec EXCEPT !.status = s].w = call[c].rec.w
      BY <2>4, <3>1 DEF Records
    <3> QED  BY <2>2, <2>4, <2>8, <3>1, <3>2 DEF PcOK
  <2>9. ASSUME NEW c \in Clients, JournalRealized(c),
               Writes(c, [call[c].rec EXCEPT !.status = "realized"])
        PROVE  OnRecord(k)' = OnRecord(k)
    BY <2>8, <2>9 DEF JournalRealized
  <2>10. ASSUME NEW c \in Clients, Barrier(c),
                Writes(c, [call[c].rec EXCEPT !.status = "unknown"])
         PROVE  OnRecord(k)' = OnRecord(k)
    BY <2>8, <2>10 DEF Barrier
  <2>11. ASSUME NEW c \in Clients, Delivered(c), Writes(c, NoRecord)
         PROVE  Telling(k)'
    <3>1. call[c].key = k
      BY <1>0, <1>2, <2>11 DEF Writes
    <3>2. call'[c] = [pc |-> "report", key |-> k]
      BY <2>11, <3>1 DEF Delivered, PayerInv, ShapeOK
    <3> QED  BY <3>2 DEF Telling
  <2>12. ASSUME NEW c \in Clients, NEW w \in Flows, PrepareWithdrawal(c, w),
                Writes(c, NoRecord)
         PROVE  OnRecord(k)' = OnRecord(k)
    <3>1. call[c].pc = "ensure" /\ call[c].pc \in Pcs
      BY <2>12 DEF PrepareWithdrawal, Pcs
    <3> QED  BY <2>2, <2>3, <2>4, <2>12, <3>1 DEF PcOK
  <2> QED
    BY <1>2, <2>0, <2>1, <2>5, <2>6, <2>7, <2>9, <2>10, <2>11, <2>12, JournalSteps
<1> QED  BY <1>1, <1>2

\* The payments for a request can be counted.
LEMMA PaidForFinite ==
    ASSUME NEW k
    PROVE  /\ IsFiniteSet(PaidFor(k)) /\ Cardinality(PaidFor(k)) \in Nat
           /\ PaidFor(k) \subseteq Flows
<1>1. PaidFor(k) \subseteq Flows
  BY DEF PaidFor
<1> QED  BY <1>1, PayerAssumption, FS_Subset, FS_CardinalityType

\* The answer is given with the marker cleared or still naming the payment.
LEMMA ReportStep ==
    ASSUME PayerInv, CountersOK, ReportOK, [Next]_vars PROVE ReportOK'
<1> SUFFICES ASSUME NEW c \in Clients, call'[c].pc = "report"
             PROVE  (disk[call[c].key] = NoRecord \/ OnRecord(call[c].key) = 1)'
  BY DEF ReportOK
<1>0. call \in [Clients -> Calls \cup Reporting \cup {Idle}] /\ disk \in [Keys -> Records]
  BY DEF PayerInv, ShapeOK
<1>1. CASE call[c].pc = "report"
  <2>1. call'[c] = call[c] /\ disk' = disk
    <3>1. ~Report(c) /\ ~Crash(c)
      BY <1>0 DEF Report, Crash, Finish, Idle
    <3> QED  BY <1>1, <3>1, ReportAlone
  <2>2. paid' = paid
    <3>1. ASSUME NEW d \in Clients, Fetch(d) PROVE FALSE
      <4>1. call[d].pc \in Pcs /\ call[d].pc = "fetch"
        BY <3>1 DEF Fetch, Pcs
      <4>2. c # d /\ call[c] = Idle
        BY <1>1, <4>1, Acting
      <4> QED  BY <1>1, <4>2 DEF Idle
    <3> QED  BY <3>1, PaidSteps DEF vars
  <2> QED  BY <1>1, <2>1, <2>2 DEF ReportOK, OnRecord
<1>2. CASE call[c].pc # "report"
  <2>1. Delivered(c)
    <3>1. ASSUME NEW d \in Clients, NEW r, call' = [call EXCEPT ![d] = r],
                 r.pc \in Pcs \cup {"idle"}
          PROVE  FALSE
      BY <1>0, <1>2, <3>1 DEF Pcs
    <3>2. ASSUME NEW d \in Clients, Quits(d) PROVE FALSE
      BY <3>1, <3>2 DEF Quits, Idle
    <3>3. ASSUME NEW d \in Clients, NEW pc \in Pcs, Goto(d, pc) PROVE FALSE
      BY <1>0, <1>2, <3>3 DEF Goto, Pcs
    <3>4. ASSUME NEW d \in Clients, NEW rec, NEW pc \in Pcs, Persist(d, rec, pc)
          PROVE  FALSE
      <4>1. CASE Quits(d)
        BY <3>2, <4>1
      <4>2. CASE ~Quits(d)
        <5>1. call' = [call EXCEPT ![d].pc = pc, ![d].rec = rec,
                                   ![d].pending = With(d, rec)]
          BY <3>4, <4>2 DEF Persist, Finish, Quits
        <5>2. call' = [call EXCEPT ![d] = [call[d] EXCEPT !.pc = pc, !.rec = rec,
                                                  !.pending = With(d, rec)]]
          BY <1>0, <5>1
        <5>3. [call[d] EXCEPT !.pc = pc, !.rec = rec, !.pending = With(d, rec)].pc \in Pcs
          <6>1. "pc" \in DOMAIN call[d]
            BY <1>0 DEF Calls, Reporting, Idle
          <6> QED  BY <6>1
        <5> QED  BY <3>1, <5>2, <5>3
      <4> QED  BY <4>1, <4>2
    <3>5. call' # call
      BY <1>2
    <3>6. ASSUME NEW d \in Clients, NEW k \in Keys, Begin(d, k) \/ BeginForced(d, k)
          PROVE  FALSE
      BY <3>1, <3>5, <3>6 DEF Begin, BeginForced, Pcs
    <3>7. ASSUME NEW d \in Clients, call[d].pc \in Pcs, call'[d].pc \in Pcs,
                 \A e \in Clients \ {d} : call'[e] = call[e]
          PROVE  FALSE
      BY <1>2, <3>7 DEF Pcs
    <3>8. ASSUME NEW d \in Clients, NEW price \in Prices, Probe(d, price) PROVE FALSE
      <4>1. CASE Quits(d)
        BY <3>2, <4>1
      <4>2. CASE ~Quits(d)
        <5>1. call[d].pc \in Pcs /\ \A e \in Clients \ {d} : call'[e] = call[e]
          BY <1>0, <3>8, <4>2 DEF Probe, Finish, Quits, Pcs
        <5>2. call[d] \in Calls
          BY <5>1, Acting
        <5>3. call'[d].pc \in Pcs
          BY <1>0, <3>8, <4>2, <5>2 DEF Probe, Finish, Quits, Pcs, Calls
        <5> QED  BY <3>7, <5>1, <5>3
      <4> QED  BY <4>1, <4>2
    <3>9. ASSUME NEW d \in Clients, NEW w \in Flows, PrepareWithdrawal(d, w)
          PROVE  FALSE
      <4>1. CASE Quits(d)
        BY <3>2, <4>1
      <4>2. CASE ~Quits(d)
        <5>1. /\ call[d].pc \in Pcs
              /\ call' = [call EXCEPT ![d].pc = "checkpoint", ![d].rec.w = w]
          BY <3>9, <4>2 DEF PrepareWithdrawal, Untrack, Finish, Quits, Pcs
        <5>2. call[d] \in Calls
          BY <5>1, Acting
        <5>3. call'[d].pc \in Pcs /\ \A e \in Clients \ {d} : call'[e] = call[e]
          BY <1>0, <5>1, <5>2 DEF Pcs, Calls
        <5> QED  BY <3>7, <5>1, <5>3
      <4> QED  BY <4>1, <4>2
    <3>10. ASSUME NEW d \in Clients,
                  \/ ProbeRefused(d) \/ RealizeFails(d) \/ Report(d)
                  \/ OutcomeUnknown(d) \/ Crash(d)
           PROVE  FALSE
      BY <3>2, <3>10 DEF ProbeRefused, RealizeFails, Report, OutcomeUnknown, Crash,
                         Untrack, Finish, Quits
    <3>11. ASSUME NEW d \in Clients,
                  SignAndSubmit(d) \/ Resume(d) \/ Poll(d) \/ Fetch(d)
           PROVE  FALSE
      BY <3>3, <3>11 DEF SignAndSubmit, Resume, Poll, Fetch, Pcs
    <3>12. ASSUME NEW d \in Clients, Checkpoint(d) \/ Barrier(d) \/ JournalRealized(d)
           PROVE  FALSE
      BY <3>2, <3>4, <3>12 DEF Checkpoint, Barrier, JournalRealized, Finish, Quits, Pcs
    <3>13. ASSUME NEW d \in Clients, Delivered(d) PROVE d = c
      BY <1>0, <1>2, <3>13 DEF Delivered
    <3>14. Next /\ ~RemoveLock /\ ~\E w \in Flows : Relayer(w)
      BY <3>5 DEF vars, RemoveLock, Relayer
    <3> QED
      BY <3>6, <3>8, <3>9, <3>10, <3>11, <3>12, <3>13, <3>14 DEF Next
  <2>2. call[c].pc \in Pcs /\ call[c].pc = "response"
    BY <2>1 DEF Delivered, Pcs
  <2>3. /\ call[c].key \in Keys /\ disk[call[c].key] = call[c].rec
        /\ \A rec : With(c, rec) = [disk EXCEPT ![call[c].key] = rec]
        /\ PcOK(call[c], call[c].rec)
    BY <2>2, Acting, OwnRecord
  <2>4. PICK k \in Keys : k = call[c].key
    BY <2>3
  <2>5. call'[c].key = k /\ paid' = paid
    BY <1>0, <2>1, <2>4 DEF Delivered
  <2>6. disk'[k] = NoRecord \/ disk' = disk
    BY <1>0, <2>1, <2>3, <2>4 DEF Delivered, Saves, SaveThrows
  <2>7. disk[k].w # NoFlow /\ paid[disk[k].w] # <<>>
    BY <2>2, <2>3, <2>4, PayerAssumption DEF PcOK, AskedFor
  <2> QED  BY <2>5, <2>6, <2>7 DEF OnRecord
<1> QED  BY <1>1, <1>2

\* A payment is answered for, its call dies, or the user discards it.
LEMMA UntoldCleared ==
    ASSUME PayerInv, CountersOK, ReportOK, [Next]_vars, UNCHANGED paid, NEW k \in Keys
    PROVE  \/ Untold(k) <= Untold(k)'
           \/ delivered'[k] = delivered[k] + 1
           \/ cut'[k] = cut[k] + 1
           \/ forced'[k] = forced[k] + 1
<1>0. Untold(k) \in {0, 1} /\ Untold(k)' \in {0, 1}
  BY DEF Untold
<1>1. CASE Untold(k) = 0
  BY <1>0, <1>1
<1>2. CASE OnRecord(k) = 1
  BY <1>0, <1>2, RecordCleared DEF Untold
<1>3. CASE Telling(k)
  <2>1. PICK c \in Clients : call[c].pc = "report" /\ call[c].key = k
    BY <1>3 DEF Telling
  <2>2. CASE Report(c)
    BY <2>1, <2>2 DEF Report, CountersOK
  <2>3. CASE Crash(c)
    <3>1. CASE Silent(c)
      BY <2>1, <2>3, <3>1 DEF Crash, CountersOK
    <3>2. CASE ~Silent(c)
      <4>1. OnRecord(k) = 1
        BY <2>1, <3>2 DEF Silent, ReportOK
      <4>2. OnRecord(k)' = 1
        BY <2>3, <4>1 DEF Crash, OnRecord
      <4> QED  BY <1>0, <4>2 DEF Untold
    <3> QED  BY <3>1, <3>2
  <2>4. CASE UNCHANGED <<disk, call>>
    BY <1>0, <1>3, <2>4 DEF Untold, Telling
  <2> QED  BY <2>1, <2>2, <2>3, <2>4, ReportAlone
<1> QED  BY <1>0, <1>1, <1>2, <1>3 DEF Untold

\* Payments are counted once: not yet answered for, answered for, cut short or
\* discarded by the user.
LEMMA AccountedStep ==
    ASSUME PayerInv, CountersOK, ReportOK, Accounted, [Next]_vars PROVE Accounted'
<1> SUFFICES ASSUME NEW k \in Keys
             PROVE  Cardinality(PaidFor(k)')
                      <= delivered'[k] + cut'[k] + forced'[k] + Untold(k)'
  BY DEF Accounted
<1>0. /\ Cardinality(PaidFor(k)) <= delivered[k] + cut[k] + forced[k] + Untold(k)
      /\ Cardinality(PaidFor(k)) \in Nat /\ IsFiniteSet(PaidFor(k))
  BY PaidForFinite DEF Accounted
<1>1. /\ delivered[k] \in Nat /\ cut[k] \in Nat /\ forced[k] \in Nat
      /\ delivered'[k] \in Nat /\ cut'[k] \in Nat /\ forced'[k] \in Nat
      /\ delivered[k] <= delivered'[k] /\ cut[k] <= cut'[k] /\ forced[k] <= forced'[k]
  BY CounterSteps DEF CountersOK
<1>2. Untold(k) \in {0, 1} /\ Untold(k)' \in {0, 1}
  BY DEF Untold
<1>3. ASSUME NEW w \in Flows, paid[w] # <<>> PROVE ask'[w] = ask[w]
  BY <1>3, FlowStays DEF PayerInv, PaymentFunded
<1>4. CASE UNCHANGED paid
  <2>1. PaidFor(k)' = PaidFor(k)
    BY <1>3, <1>4 DEF PaidFor
  <2>2. \/ Untold(k) <= Untold(k)'
        \/ delivered'[k] = delivered[k] + 1
        \/ cut'[k] = cut[k] + 1
        \/ forced'[k] = forced[k] + 1
    BY <1>4, UntoldCleared
  <2> QED  BY <1>0, <1>1, <1>2, <2>1, <2>2
<1>5. ASSUME NEW c \in Clients, Fetch(c)
      PROVE  Cardinality(PaidFor(k)')
               <= delivered'[k] + cut'[k] + forced'[k] + Untold(k)'
  <2>0. /\ call[c].pc = "fetch" /\ call[c].pc \in Pcs
        /\ UNCHANGED <<disk, ask, delivered, cut, forced>>
    BY <1>5 DEF Fetch, Pcs
  <2>1. /\ PcOK(call[c], call[c].rec) /\ call[c] \in Calls
        /\ \A d \in Clients \ {c} : call[d] = Idle
    BY <2>0, Acting
  <2>9. ~Telling(k)
    BY <2>0, <2>1 DEF Telling, Idle
  <2>2. PICK w \in Flows : w = call[c].rec.w
    BY <2>0, <2>1 DEF PcOK, AskedFor
  <2>3. /\ paid[w] = <<>> /\ ask[w].key = call[c].key /\ disk[call[c].key].w = w
        /\ w # NoFlow
    BY <2>0, <2>1, <2>2, OwnRecord, PayerAssumption DEF PcOK, AskedFor
  <2>4. /\ \A u \in Flows \ {w} : paid'[u] = paid[u]
        /\ paid'[w] = Append(paid[w], call[c].price)
    BY <1>5, <2>2 DEF Fetch, PayerInv, ShapeOK
  <2>5. paid'[w] # <<>>
    <3>1. PICK p \in Prices \cup {0}, q \in Seq(Prices \cup {0}) :
            p = call[c].price /\ q = paid[w]
      BY <2>1 DEF Calls, PayerInv, ShapeOK
    <3>2. Append(q, p) # <<>>
      BY AppendProperties
    <3> QED  BY <2>4, <3>1, <3>2
  <2>6. CASE k = call[c].key
    <3>1. w \notin PaidFor(k) /\ PaidFor(k)' = PaidFor(k) \cup {w}
      BY <2>0, <2>3, <2>4, <2>5, <2>6 DEF PaidFor
    <3>2. Cardinality(PaidFor(k)') = Cardinality(PaidFor(k)) + 1
      BY <1>0, <3>1, FS_AddElement
    <3>3. OnRecord(k) = 0 /\ OnRecord(k)' = 1
      BY <2>0, <2>3, <2>5, <2>6 DEF OnRecord
    <3>4. Untold(k) = 0 /\ Untold(k)' = 1
      BY <2>9, <3>3 DEF Untold
    <3> QED  BY <1>0, <1>1, <2>0, <3>2, <3>4
  <2>7. CASE k # call[c].key
    <3>1. PaidFor(k)' = PaidFor(k)
      BY <2>0, <2>3, <2>4, <2>7 DEF PaidFor
    <3>2. disk[k].w # NoFlow => disk[k].w \in Flows \ {w}
      BY <2>3, <2>7 DEF PayerInv, DiskOK, RecordOK, AskedFor
    <3>3. OnRecord(k)' = OnRecord(k)
      BY <2>0, <2>4, <3>2 DEF OnRecord
    <3>4. Untold(k) <= Untold(k)'
      BY <1>2, <2>9, <3>3 DEF Untold
    <3> QED  BY <1>0, <1>1, <1>2, <2>0, <3>1, <3>4
  <2> QED  BY <2>6, <2>7
<1> QED  BY <1>4, <1>5, PaidSteps DEF vars

\* Initially nothing is paid.
LEMMA AccountedStarts == Init => CountersOK /\ ReportOK /\ Accounted
<1> SUFFICES ASSUME Init
             PROVE  /\ CountersOK /\ ReportOK
                    /\ \A k \in Keys : Cardinality(PaidFor(k))
                         <= delivered[k] + cut[k] + forced[k] + Untold(k)
  BY DEF Accounted
<1>1. CountersOK
  BY DEF Init, CountersOK
<1>2. \A k : PaidFor(k) = {}
  BY DEF Init, PaidFor
<1>3. \A k : Cardinality(PaidFor(k)) = 0
  BY <1>2, FS_EmptySet
<1>4. \A k \in Keys : /\ delivered[k] = 0 /\ cut[k] = 0 /\ forced[k] = 0
                      /\ Untold(k) \in {0, 1}
  BY DEF Init, Untold
<1>5. ReportOK
  BY DEF Init, ReportOK, Idle
<1> QED  BY <1>1, <1>3, <1>4, <1>5

(***************************************************************************)
(* A purchase is not paid twice behind the user's back: whatever crashes,  *)
(* timeouts and failed writes happen, at most one payment per request is   *)
(* neither answered for nor covered by a forceNewPayment (the barrier in   *)
(* run()), beyond those whose call died after it had cleared the marker    *)
(* and before it answered (clearDelivered).                                *)
(***************************************************************************)
THEOREM PaysOnce == Spec => []PaidOnce
<1>1. PayerInv /\ CountersOK /\ ReportOK /\ Accounted => PaidOnce
  <2> SUFFICES ASSUME PayerInv, CountersOK, Accounted, NEW k \in Keys
               PROVE  Payments(k) <= delivered[k] + cut[k] + forced[k] + 1
    BY DEF PaidOnce
  <2> DEFINE S == {w \in Flows : ask[w].key = k}
             lens == [w \in Flows |-> Len(paid[w])]
  <2>1. ASSUME NEW w \in Flows
        PROVE  lens[w] = IF paid[w] = <<>> THEN 0 ELSE 1
    <3>1. CASE paid[w] = <<>>
      BY <3>1
    <3>2. CASE paid[w] # <<>>
      <4>1. paid[w] = <<ask[w].price>>
        BY <3>2 DEF PayerInv, PaymentFunded
      <4>2. Len(paid[w]) = 1
        BY <4>1
      <4> QED  BY <3>2, <4>2
    <3> QED  BY <3>1, <3>2
  <2>2. IsFiniteSet(S) /\ \A w \in S : lens[w] \in {0, 1}
    <3>1. S \subseteq Flows
      OBVIOUS
    <3>2. IsFiniteSet(S)
      <4> HIDE DEF S
      <4> QED  BY <3>1, FS_Subset, PayerAssumption
    <3> HIDE DEF lens
    <3> QED  BY <2>1, <3>2
  <2>3. PaidFor(k) = {w \in S : lens[w] = 1}
    <3> HIDE DEF lens
    <3> QED  BY <2>1 DEF PaidFor
  <2>4. Payments(k) = Sum(lens, S)
    BY DEF Payments, Sum
  <2>5. Sum(lens, S) = Cardinality(PaidFor(k))
    <3> HIDE DEF S, lens
    <3> QED  BY <2>2, <2>3, SumOnes
  <2>6. /\ Cardinality(PaidFor(k)) <= delivered[k] + cut[k] + forced[k] + Untold(k)
        /\ Cardinality(PaidFor(k)) \in Nat /\ Untold(k) \in {0, 1}
        /\ delivered[k] \in Nat /\ cut[k] \in Nat /\ forced[k] \in Nat
    BY PaidForFinite DEF Accounted, Untold, CountersOK
  <2> HIDE DEF S, lens
  <2> QED  BY <2>4, <2>5, <2>6
<1>2. Init => PayerInv /\ CountersOK /\ ReportOK /\ Accounted
  BY PayerStarts, AccountedStarts
<1>3. PayerInv /\ CountersOK /\ ReportOK /\ Accounted /\ [Next]_vars
        => (PayerInv /\ CountersOK /\ ReportOK /\ Accounted)'
  BY PayerInductive, CounterSteps, ReportStep, AccountedStep
<1> QED  BY <1>1, <1>2, <1>3, PTL DEF Spec
=============================================================================
