---------------------------- MODULE SellerProofs ----------------------------
(***************************************************************************)
(* Proofs about Seller for any number of addresses, handlers, challenges   *)
(* and payments, any lifetime and any limits: the settling flag is a lock, *)
(* content is sent for settled payments only, buyers are not asked to pay  *)
(* twice too early, and what the two limiters let through is bounded.      *)
(***************************************************************************)
EXTENDS Seller, FiniteSetTheorems, SequenceTheorems, TLAPS

OpenChallenge == [expires : Int, settling : BOOLEAN]
Request == [step : {"idle", "verify", "settle", "reply"},
            challenge : 0 .. LastChallenge, payment : 0 .. LastPayment,
            granted : BOOLEAN]

\* The part of the types the arguments need.
ShapeOK ==
    /\ now \in Nat
    /\ issued \in Nat
    /\ open \in [Challenges -> OpenChallenge]
    /\ handler \in [Handlers -> Request]

\* A request in progress is about a challenge that was issued.
BusyIssued ==
    \A h \in Handlers : Busy(h) => /\ handler[h].challenge \in Challenges
                                   /\ handler[h].challenge <= issued

LockInv == ShapeOK /\ BusyIssued /\ SettlingExclusive

-----------------------------------------------------------------------------
(* The lock.                                                                *)

\* Pruning keeps the flags.
LEMMA PruneKeepsFlags ==
    ASSUME ShapeOK
    PROVE  /\ PruneExpired \in [Challenges -> OpenChallenge]
           /\ \A c \in Challenges : PruneExpired[c].settling = open[c].settling
<1>1. ASSUME NEW c \in Challenges
      PROVE  open[c] \in OpenChallenge /\ Closed \in OpenChallenge
  BY DEF ShapeOK, Closed, OpenChallenge
<1>2. ASSUME NEW c \in Challenges
      PROVE  PruneExpired[c] = open[c]
             \/ (PruneExpired[c] = Closed /\ ~open[c].settling)
  BY DEF PruneExpired
<1>3. ASSUME NEW c \in Challenges
      PROVE  PruneExpired[c].settling = open[c].settling
  BY <1>1, <1>2 DEF Closed, OpenChallenge
<1>4. PruneExpired \in [Challenges -> OpenChallenge]
  BY <1>1 DEF PruneExpired
<1> QED  BY <1>3, <1>4

\* A new challenge is not marked, and the others keep their flags.
LEMMA ReissueFlags ==
    ASSUME ShapeOK, NEW ip, NEW store \in [Challenges -> OpenChallenge],
           Reissue(ip, store)
    PROVE  /\ issued' \in Nat /\ issued' >= issued
           /\ open' \in [Challenges -> OpenChallenge]
           /\ \A c \in Challenges :
                \/ open'[c].settling = store[c].settling
                \/ c > issued /\ ~open'[c].settling
<1> DEFINE new == [expires |-> now + Ttl, settling |-> FALSE]
<1>1. issued \in Nat /\ new \in OpenChallenge /\ ~new.settling
  BY SellerAssumption DEF ShapeOK, OpenChallenge
<1>2. \/ issued' = issued /\ open' = store
      \/ issued' = issued + 1 /\ open' = [store EXCEPT ![issued + 1] = new]
  BY DEF Reissue
<1> HIDE DEF new
<1> QED  BY <1>1, <1>2

\* A step that only prunes, issues or changes what the lock does not depend on.
LEMMA LockKept ==
    ASSUME LockInv, handler' = handler, now' \in Nat,
           issued' \in Nat, issued' >= issued,
           open' \in [Challenges -> OpenChallenge],
           \A c \in Challenges : \/ open'[c].settling = open[c].settling
                                 \/ c > issued /\ ~open'[c].settling
    PROVE  LockInv'
<1>1. ShapeOK'
  BY DEF LockInv, ShapeOK
<1>2. BusyIssued'
  <2>1. ASSUME NEW h \in Handlers, Busy(h)'
        PROVE  handler'[h].challenge \in Challenges /\ handler'[h].challenge <= issued'
    <3>1. handler[h].challenge \in Challenges /\ handler[h].challenge <= issued
      BY <2>1 DEF LockInv, BusyIssued, Busy
    <3>2. handler[h].challenge \in Int /\ issued \in Int /\ issued' \in Int
      BY <3>1 DEF Challenges, LockInv, ShapeOK
    <3> QED  BY <3>1, <3>2
  <2> QED  BY <2>1 DEF BusyIssued, Challenges
<1>3. SettlingExclusive'
  <2>1. ASSUME NEW c \in Challenges, c > issued
        PROVE  open[c].settling = FALSE
    <3>1. \A h \in Handlers : Busy(h) => handler[h].challenge # c
      BY <2>1 DEF LockInv, BusyIssued, ShapeOK, Challenges
    <3>2. open[c].settling \in BOOLEAN
      BY DEF LockInv, ShapeOK, OpenChallenge
    <3> QED  BY <3>1, <3>2 DEF LockInv, SettlingExclusive
  <2>2. ASSUME NEW c \in Challenges
        PROVE  open'[c].settling = open[c].settling
    <3>1. open'[c].settling \in BOOLEAN
      BY DEF OpenChallenge
    <3> QED  BY <2>1, <3>1
  <2> QED  BY <2>2 DEF LockInv, SettlingExclusive, Busy, Challenges
<1> QED  BY <1>1, <1>2, <1>3 DEF LockInv

\* A request that is under way moves on without changing its challenge.
LEMMA LockCarried ==
    ASSUME LockInv, UNCHANGED <<now, issued, open>>,
           handler' \in [Handlers -> Request],
           \A h \in Handlers : /\ handler'[h].challenge = handler[h].challenge
                               /\ Busy(h)' <=> Busy(h)
    PROVE  LockInv'
<1>1. ShapeOK'
  BY DEF LockInv, ShapeOK
<1>2. BusyIssued'
  BY DEF LockInv, BusyIssued, Challenges
<1>3. SettlingExclusive'
  BY DEF LockInv, SettlingExclusive, Challenges
<1> QED  BY <1>1, <1>2, <1>3 DEF LockInv

\* The request that holds a challenge gives it back.
LEMMA LockReleased ==
    ASSUME LockInv, NEW h \in Handlers, Busy(h), Release(h),
           UNCHANGED <<now, issued>>
    PROVE  LockInv'
<1> DEFINE c == handler[h].challenge
<1>1. c \in Challenges
  BY DEF LockInv, BusyIssued
<1>2. /\ handler' = [handler EXCEPT ![h] = Idling]
      /\ open' = [open EXCEPT ![c].settling = FALSE]
  BY DEF Release
<1>3. Idling \in Request
  BY SellerAssumption DEF Idling, Request
<1>4. ShapeOK'
  BY <1>1, <1>2, <1>3 DEF LockInv, ShapeOK, OpenChallenge
<1>5. /\ handler'[h] = Idling /\ ~Busy(h)'
      /\ \A g \in Handlers \ {h} : handler'[g] = handler[g]
  BY <1>2, <1>3 DEF LockInv, ShapeOK, Busy, Idling
<1>6. BusyIssued'
  BY <1>5 DEF LockInv, BusyIssued, Busy, Challenges
<1>7. /\ ~open'[c].settling
      /\ \A d \in Challenges \ {c} : open'[d] = open[d]
  BY <1>1, <1>2 DEF LockInv, ShapeOK, OpenChallenge
<1>8. \A g \in Handlers : Busy(g)' => Busy(g) /\ g # h /\ handler'[g] = handler[g]
  BY <1>5 DEF Busy
<1>9. \A g \in Handlers \ {h} : Busy(g) => handler[g].challenge # c
  BY <1>1 DEF LockInv, SettlingExclusive
<1>10. SettlingExclusive'
  <2> SUFFICES ASSUME NEW d \in Challenges
               PROVE  LET at == {g \in Handlers : Busy(g)' /\ handler'[g].challenge = d}
                      IN  /\ \A g, k \in at : g = k
                          /\ open'[d].settling <=> at # {}
    BY DEF SettlingExclusive, Challenges
  <2>1. CASE d = c
    BY <2>1, <1>7, <1>8, <1>9
  <2>2. CASE d # c
    <3>1. {g \in Handlers : Busy(g)' /\ handler'[g].challenge = d}
            = {g \in Handlers : Busy(g) /\ handler[g].challenge = d}
      BY <2>2, <1>5, <1>8 DEF Busy
    <3> QED  BY <2>2, <3>1, <1>7 DEF LockInv, SettlingExclusive
  <2> QED  BY <2>1, <2>2
<1> QED  BY <1>4, <1>6, <1>10 DEF LockInv

\* A free handler takes a challenge nobody is at.
LEMMA LockTaken ==
    ASSUME LockInv, NEW h \in Handlers, NEW p \in Payments, NEW c \in Challenges,
           RetryStarts(h, p, c)
    PROVE  LockInv'
<1> DEFINE store == PruneExpired
           r == [step |-> "verify", challenge |-> c, payment |-> p, granted |-> FALSE]
<1>1. /\ ~Busy(h) /\ ~store[c].settling /\ c <= issued
      /\ open' = [store EXCEPT ![c].settling = TRUE]
      /\ handler' = [handler EXCEPT ![h] = r]
      /\ now' = now /\ issued' = issued
  BY DEF RetryStarts, MaySettle, Presents
<1>2. /\ store \in [Challenges -> OpenChallenge]
      /\ \A d \in Challenges : store[d].settling = open[d].settling
  BY PruneKeepsFlags DEF LockInv
<1>3. r \in Request /\ r.challenge = c /\ r.step # "idle"
  BY DEF Request, Challenges, Payments
<1> HIDE DEF store, r
<1>4. ShapeOK'
  BY <1>1, <1>2, <1>3 DEF LockInv, ShapeOK, OpenChallenge
<1>5. /\ handler'[h] = r
      /\ \A g \in Handlers \ {h} : handler'[g] = handler[g]
  BY <1>1 DEF LockInv, ShapeOK
<1>6. BusyIssued'
  BY <1>1, <1>3, <1>5 DEF LockInv, BusyIssued, Busy, Challenges
<1>7. /\ open'[c].settling = TRUE
      /\ \A d \in Challenges \ {c} : open'[d].settling = open[d].settling
  BY <1>1, <1>2 DEF OpenChallenge
<1>8. \A g \in Handlers : Busy(g) => handler[g].challenge # c
  BY <1>1, <1>2 DEF LockInv, SettlingExclusive
<1>9. SettlingExclusive'
  <2> SUFFICES ASSUME NEW d \in Challenges
               PROVE  LET at == {g \in Handlers : Busy(g)' /\ handler'[g].challenge = d}
                      IN  /\ \A g, k \in at : g = k
                          /\ open'[d].settling <=> at # {}
    BY DEF SettlingExclusive, Challenges
  <2>1. CASE d = c
    <3>1. {g \in Handlers : Busy(g)' /\ handler'[g].challenge = d} = {h}
      BY <2>1, <1>3, <1>5, <1>8 DEF Busy
    <3> QED  BY <2>1, <3>1, <1>7
  <2>2. CASE d # c
    <3>1. {g \in Handlers : Busy(g)' /\ handler'[g].challenge = d}
            = {g \in Handlers : Busy(g) /\ handler[g].challenge = d}
      BY <2>2, <1>1, <1>3, <1>5 DEF Busy
    <3> QED  BY <2>2, <3>1, <1>7 DEF LockInv, SettlingExclusive
  <2> QED  BY <2>1, <2>2
<1> QED  BY <1>4, <1>6, <1>9 DEF LockInv
-----------------------------------------------------------------------------
(* The lock is inductive.                                                   *)

\* Initially nothing is settling.
LEMMA LockInit == Init => LockInv
<1> SUFFICES ASSUME Init PROVE LockInv
  OBVIOUS
<1>1. ShapeOK
  BY SellerAssumption DEF Init, ShapeOK, Closed, OpenChallenge, Idling, Request
<1>2. \A h \in Handlers : ~Busy(h)
  BY DEF Init, Busy, Idling
<1>3. \A c \in Challenges : open[c].settling = FALSE
  BY DEF Init, Closed
<1> QED  BY <1>1, <1>2, <1>3 DEF LockInv, BusyIssued, SettlingExclusive

\* Every step keeps the lock.
LEMMA LockStep == LockInv /\ [Next]_vars => LockInv'
<1> SUFFICES ASSUME LockInv, [Next]_vars PROVE LockInv'
  OBVIOUS
<1> USE DEF limits, relayer, history
<1>0. /\ ShapeOK /\ now \in Nat /\ issued \in Nat
      /\ open \in [Challenges -> OpenChallenge]
      /\ handler \in [Handlers -> Request]
  BY DEF LockInv, ShapeOK
<1>1. ASSUME NEW ip \in Ips, Ask(ip) PROVE LockInv'
  BY <1>0, <1>1, PruneKeepsFlags, ReissueFlags, LockKept DEF Ask
<1>2. ASSUME NEW ip \in Ips, NEW p \in Payments, NEW c \in Challenges,
             RetryTooLate(ip, p, c)
      PROVE  LockInv'
  <2> DEFINE store == [PruneExpired EXCEPT ![c] = Closed]
  <2>1. /\ Reissue(ip, store) /\ ~PruneExpired[c].settling
        /\ handler' = handler /\ now' = now
    BY <1>2 DEF RetryTooLate, Unpayable
  <2>2. store \in [Challenges -> OpenChallenge]
    BY <1>0, PruneKeepsFlags DEF Closed, OpenChallenge
  <2>3. \A d \in Challenges : store[d].settling = open[d].settling
    <3>1. PruneExpired[c].settling = FALSE
      BY <1>0, <2>1, PruneKeepsFlags DEF OpenChallenge
    <3> QED  BY <1>0, <3>1, PruneKeepsFlags DEF Closed
  <2> HIDE DEF store
  <2> QED  BY <1>0, <2>1, <2>2, <2>3, ReissueFlags, LockKept
<1>3. ASSUME NEW h \in Handlers, NEW p \in Payments, NEW c \in Challenges,
             RetryStarts(h, p, c)
      PROVE  LockInv'
  BY <1>3, LockTaken
<1>4. ASSUME NEW h \in Handlers, Verified(h) PROVE LockInv'
  <2>1. CASE handler' = [handler EXCEPT ![h].step = "settle"] /\ UNCHANGED open
    BY <1>0, <1>4, <2>1, LockCarried DEF Verified, Busy, Request
  <2>2. CASE Release(h)
    BY <1>4, <2>2, LockReleased DEF Verified, Busy
  <2> QED  BY <1>4, <2>1, <2>2 DEF Verified
<1>5. ASSUME NEW h \in Handlers, Answer(h) \/ Timeout(h) PROVE LockInv'
  BY <1>5, LockReleased DEF Answer, Timeout, Busy
<1>6. ASSUME NEW p \in Payments, NEW c \in Challenges, Settle(p, c)
      PROVE  LockInv'
  <2>1. \A h \in Handlers :
          \/ handler'[h] = handler[h]
          \/ /\ handler[h].step = "settle"
             /\ handler'[h] = [handler[h] EXCEPT !.step = "reply",
                                                 !.granted = Grants(p, c)]
    BY <1>6 DEF Settle
  <2>2. Grants(p, c) \in BOOLEAN
    BY DEF Grants
  <2>3. \A h \in Handlers : /\ handler'[h] \in Request
                            /\ handler'[h].challenge = handler[h].challenge
                            /\ handler'[h].step # "idle" <=> handler[h].step # "idle"
    <3> SUFFICES ASSUME NEW h \in Handlers, NEW g \in BOOLEAN,
                        handler'[h] = [handler[h] EXCEPT !.step = "reply", !.granted = g],
                        handler[h].step = "settle"
                 PROVE  /\ handler'[h] \in Request
                        /\ handler'[h].challenge = handler[h].challenge
                        /\ handler'[h].step = "reply"
      BY <1>0, <2>1, <2>2
    <3> QED  BY <1>0 DEF Request
  <2>4. handler' \in [Handlers -> Request]
    BY <1>6, <2>3 DEF Settle
  <2> QED  BY <1>6, <2>3, <2>4, LockCarried DEF Settle, Busy
<1>7. CASE UNCHANGED <<issued, open, handler>> /\ now' \in Nat
  BY <1>0, <1>7, LockKept
<1>8. ASSUME NEW p \in Payments, Recover(p) \/ \E c \in Challenges : Prepare(p, c)
      PROVE  UNCHANGED <<now, issued, open, handler>>
  BY <1>8 DEF Recover, Prepare
<1>9. CASE Tick
  BY <1>0, <1>9, <1>7 DEF Tick
<1>10. CASE UNCHANGED vars
  BY <1>0, <1>10, <1>7 DEF vars
<1> QED
  BY <1>0, <1>1, <1>2, <1>3, <1>4, <1>5, <1>6, <1>7, <1>8, <1>9, <1>10
  DEF Next, HandlerStep

\* For every number of requests, challenges and payments, the settling flag of
\* openChallenges is a lock: neither lost nor left behind.
THEOREM SettlingIsALock == Spec => []SettlingExclusive
<1>1. LockInv => SettlingExclusive
  BY DEF LockInv
<1> QED  BY <1>1, LockInit, LockStep, PTL DEF Spec
-----------------------------------------------------------------------------
(* Settle before deliver.                                                   *)

Statuses == {"none", "prepared", "submitted", "settled", "failed", "expired"}
Record == [for : Nat, status : Statuses, expires : Int]

RelayerOK == payment \in [Payments -> Record]

\* Some payment of this challenge has settled.
Paid(c) == \E p \in Payments : payment[p].for = c /\ payment[p].status = "settled"

\* A request about to be answered with content is paid for.
GrantedPaid ==
    \A h \in Handlers : handler[h].granted => Paid(handler[h].challenge)

PaidInv == RelayerOK /\ GrantedPaid /\ AccessPaid

\* Writing a status keeps the records, and keeps what is settled.
LEMMA StatusWritten ==
    ASSUME RelayerOK, NEW p, NEW s \in Statuses,
           payment' = [payment EXCEPT ![p].status = s],
           p \in Payments /\ payment[p].status = "settled" => s = "settled"
    PROVE  /\ RelayerOK'
           /\ \A q \in Payments : payment[q].status = "settled"
                                     => payment'[q] = payment[q]
<1>1. ASSUME NEW q \in Payments
      PROVE  payment'[q] = IF q = p THEN [payment[q] EXCEPT !.status = s]
                           ELSE payment[q]
  BY DEF RelayerOK
<1>2. \A q \in Payments : payment'[q] \in Record
  BY <1>1 DEF RelayerOK, Record
<1>3. payment' \in [Payments -> Record]
  BY <1>2 DEF RelayerOK
<1>4. ASSUME NEW q \in Payments, payment[q].status = "settled"
      PROVE  payment'[q] = payment[q]
  BY <1>1, <1>4 DEF RelayerOK, Record
<1> QED  BY <1>3, <1>4 DEF RelayerOK, Payments

\* A settled payment stays as it is, whatever step is taken.
LEMMA SettledStays ==
    ASSUME RelayerOK, ShapeOK, [Next]_vars
    PROVE  /\ RelayerOK'
           /\ \A p \in Payments : payment[p].status = "settled"
                                     => payment'[p] = payment[p]
<1> DEFINE Goal == /\ RelayerOK'
                   /\ \A p \in Payments : payment[p].status = "settled"
                                             => payment'[p] = payment[p]
<1> USE DEF limits, relayer, history
<1>1. CASE UNCHANGED payment
  BY <1>1 DEF RelayerOK, Payments
<1>2. ASSUME NEW h \in Handlers, Verified(h) PROVE Goal
  BY <1>1, <1>2, StatusWritten DEF Verified, Expired, Statuses
<1>3. ASSUME NEW p \in Payments, NEW c \in Challenges, Settle(p, c) PROVE Goal
  <2>1. PICK s \in SettleOutcomes(p, c) : payment' = [payment EXCEPT ![p].status = s]
    BY <1>3 DEF Settle
  <2>2. payment[p].status \in Statuses
    BY DEF RelayerOK, Record
  <2>3. s \in Statuses /\ (payment[p].status = "settled" => s = "settled")
    BY <2>2 DEF SettleOutcomes, Statuses, Failed, Expired
  <2> QED  BY <2>1, <2>3, StatusWritten
<1>4. ASSUME NEW p \in Payments, NEW c \in Challenges, Prepare(p, c) PROVE Goal
  <2>1. [for |-> c, status |-> "prepared", expires |-> now + Ttl] \in Record
    BY SellerAssumption DEF Record, Statuses, Challenges, ShapeOK
  <2>2. /\ payment[p].status = "none"
        /\ payment' = [ExpiredPayments EXCEPT ![p] =
                         [for |-> c, status |-> "prepared", expires |-> now + Ttl]]
    BY <1>4 DEF Prepare
  <2>3. \A q \in Payments : /\ ExpiredPayments[q] \in Record
                            /\ payment[q].status = "settled"
                                 => ExpiredPayments[q] = payment[q]
    BY DEF ExpiredPayments, Expired, RelayerOK, Record, Statuses
  <2>4. ExpiredPayments \in [Payments -> Record]
    BY <2>3 DEF ExpiredPayments
  <2> QED  BY <2>1, <2>2, <2>3, <2>4 DEF RelayerOK, Payments
<1>5. ASSUME NEW p \in Payments, Recover(p) PROVE Goal
  BY <1>5, StatusWritten DEF Recover, Statuses
<1>6. \/ UNCHANGED payment
      \/ \E h \in Handlers : Verified(h)
      \/ \E p \in Payments : \/ Recover(p)
                              \/ \E c \in Challenges : Settle(p, c) \/ Prepare(p, c)
  BY DEF Next, vars, Ask, RetryTooLate, RetryStarts, HandlerStep, Answer,
         Timeout, Tick
<1> QED  BY <1>1, <1>2, <1>3, <1>4, <1>5, <1>6

\* A grant is made by the answer of /settle only, and it is paid for then.
LEMMA GrantStep ==
    ASSUME ShapeOK, RelayerOK, GrantedPaid, [Next]_vars
    PROVE  GrantedPaid'
<1> USE DEF limits, relayer, history
<1>0. /\ handler \in [Handlers -> Request]
      /\ Idling.granted = FALSE
  BY DEF ShapeOK, Idling
<1>1. \A c : Paid(c) => Paid(c)'
  BY SettledStays DEF Paid, Payments
<1>2. ASSUME \A h \in Handlers : \/ handler'[h].granted = FALSE
                                 \/ /\ handler'[h].granted = handler[h].granted
                                    /\ handler'[h].challenge = handler[h].challenge
      PROVE  GrantedPaid'
  BY <1>1, <1>2 DEF GrantedPaid
<1>3. CASE UNCHANGED handler
  BY <1>2, <1>3
<1>4. ASSUME NEW h \in Handlers, Release(h) PROVE GrantedPaid'
  BY <1>0, <1>2, <1>4 DEF Release
<1>5. ASSUME NEW h \in Handlers, handler' = [handler EXCEPT ![h].step = "settle"]
      PROVE  GrantedPaid'
  BY <1>0, <1>2, <1>5 DEF Request
<1>6. ASSUME NEW h \in Handlers, NEW p \in Payments, NEW c \in Challenges,
             RetryStarts(h, p, c)
      PROVE  GrantedPaid'
  BY <1>0, <1>2, <1>6 DEF RetryStarts
<1>7. ASSUME NEW p \in Payments, NEW c \in Challenges, Settle(p, c)
      PROVE  GrantedPaid'
  <2>1. Grants(p, c) => Paid(c)'
    BY DEF Grants, Paid, Payments
  <2>2. ASSUME NEW h \in Handlers, handler'[h].granted
        PROVE  Paid(handler[h].challenge)'
    <3>1. CASE handler'[h] = handler[h]
      BY <1>1, <2>2, <3>1 DEF GrantedPaid
    <3>2. CASE /\ handler[h].challenge = c
               /\ handler'[h] = [handler[h] EXCEPT !.step = "reply",
                                                   !.granted = Grants(p, c)]
      <4>1. handler[h] \in Request /\ Grants(p, c) \in BOOLEAN
        BY <1>0 DEF Grants
      <4>2. handler'[h].granted = Grants(p, c) /\ handler'[h].challenge = c
        BY <3>2, <4>1 DEF Request
      <4> QED  BY <2>1, <2>2, <4>2
    <3> QED  BY <1>7, <3>1, <3>2 DEF Settle
  <2> QED  BY <2>2 DEF GrantedPaid
<1>8. \/ UNCHANGED handler
      \/ \E h \in Handlers : \/ Release(h)
                              \/ handler' = [handler EXCEPT ![h].step = "settle"]
      \/ \E h \in Handlers, p \in Payments, c \in Challenges : RetryStarts(h, p, c)
      \/ \E p \in Payments, c \in Challenges : Settle(p, c)
  BY DEF Next, vars, Ask, RetryTooLate, HandlerStep, Verified, Answer, Timeout,
         Prepare, Recover, Tick
<1> QED  BY <1>3, <1>4, <1>5, <1>6, <1>7, <1>8

\* Content is sent by Answer only.
LEMMA AccessStep ==
    ASSUME ShapeOK, PaidInv, [Next]_vars
    PROVE  AccessPaid'
<1> USE DEF limits, relayer, history
<1>1. \A c : Paid(c) => Paid(c)'
  BY SettledStays DEF Paid, PaidInv, Payments
<1>2. \A c \in delivered : Paid(c)
  BY DEF PaidInv, AccessPaid, Paid
<1>3. \A c \in delivered' : Paid(c)
  <2>1. ASSUME NEW h \in Handlers, Answer(h) PROVE \A c \in delivered' : Paid(c)
    BY <1>2, <2>1 DEF Answer, PaidInv, GrantedPaid
  <2>2. CASE UNCHANGED delivered
    BY <1>2, <2>2
  <2>3. UNCHANGED delivered \/ \E h \in Handlers : Answer(h)
    BY DEF Next, vars, Ask, RetryTooLate, RetryStarts, HandlerStep, Verified,
           Timeout, Settle, Prepare, Recover, Tick
  <2> QED  BY <2>1, <2>2, <2>3
<1> QED  BY <1>1, <1>3 DEF AccessPaid, Paid

\* For every number of requests, challenges and payments, the seller sends
\* content only for a challenge whose own payment has settled.
THEOREM SettleBeforeDeliver == Spec => []AccessPaid
<1>1. Init => LockInv /\ PaidInv
  <2> SUFFICES ASSUME Init PROVE PaidInv
    BY LockInit
  <2>1. RelayerOK
    BY DEF Init, RelayerOK, NoPayment, Record, Statuses
  <2>2. GrantedPaid /\ AccessPaid
    BY DEF Init, GrantedPaid, Idling, AccessPaid
  <2> QED  BY <2>1, <2>2 DEF PaidInv
<1>2. LockInv /\ PaidInv /\ [Next]_vars => (LockInv /\ PaidInv)'
  <2> SUFFICES ASSUME LockInv, PaidInv, [Next]_vars PROVE (LockInv /\ PaidInv)'
    OBVIOUS
  <2>1. ShapeOK /\ RelayerOK /\ GrantedPaid
    BY DEF LockInv, PaidInv
  <2>2. LockInv'
    BY LockStep
  <2>3. PaidInv'
    BY <2>1, SettledStays, GrantStep, AccessStep DEF PaidInv
  <2> QED  BY <2>2, <2>3
<1>3. LockInv /\ PaidInv => AccessPaid
  BY DEF PaidInv
<1> QED  BY <1>1, <1>2, <1>3, PTL DEF Spec
-----------------------------------------------------------------------------
(* A retry is turned away only too late.                                    *)

\* An unpayable challenge has run out, and nobody is at it.
LEMMA UnpayableIsOver ==
    ASSUME LockInv, NEW c \in Challenges, Unpayable(PruneExpired, c)
    PROVE  /\ open[c].expires <= now
           /\ \A h \in Handlers : Busy(h) => handler[h].challenge # c
<1>1. PruneExpired[c] = IF open[c].expires <= now /\ ~open[c].settling
                          THEN Closed ELSE open[c]
  BY DEF PruneExpired
<1>2. ~PruneExpired[c].settling /\ PruneExpired[c].expires <= now
  BY DEF Unpayable
<1>3. open[c].expires <= now /\ ~open[c].settling
  BY <1>1, <1>2
<1>4. \A h \in Handlers : Busy(h) => handler[h].challenge # c
  BY <1>3 DEF LockInv, SettlingExclusive
<1> QED  BY <1>3, <1>4

\* For every number of requests and payments, a buyer is asked to pay again
\* only when its own challenge has run out and no request is settling it.
THEOREM NeverInvitedEarly == Spec => InvitedOnlyTooLate
<1> DEFINE Late == \A p \in invited' \ invited :
                     LET c == payment[p].for
                     IN  /\ open[c].expires <= now
                         /\ \A h \in Handlers : Busy(h) => handler[h].challenge # c
<1>1. LockInv /\ [Next]_vars => [Late]_vars
  <2> SUFFICES ASSUME LockInv, Next PROVE Late
    OBVIOUS
  <2> USE DEF limits, relayer, history
  <2>1. ASSUME NEW ip \in Ips, NEW p \in Payments, NEW c \in Challenges,
               RetryTooLate(ip, p, c)
        PROVE  Late
    <3>1. Unpayable(PruneExpired, c)
      BY <2>1 DEF RetryTooLate
    <3>2. invited' = IF payment[p].for = c THEN invited \cup {p} ELSE invited
      BY <2>1 DEF RetryTooLate
    <3> QED  BY <3>1, <3>2, UnpayableIsOver
  <2>2. CASE UNCHANGED invited
    BY <2>2
  <2>3. \/ UNCHANGED invited
        \/ \E ip \in Ips, p \in Payments, c \in Challenges : RetryTooLate(ip, p, c)
    BY DEF Next, Ask, RetryStarts, HandlerStep, Verified, Answer, Timeout, Settle,
           Prepare, Recover, Tick
  <2> QED  BY <2>1, <2>2, <2>3
<1> QED  BY <1>1, LockInit, LockStep, PTL DEF Spec, InvitedOnlyTooLate
-----------------------------------------------------------------------------
(* What the limiter's operators do to its buckets.                          *)

\* The minimum of a set of naturals is one of its members.
LEMMA MinIsMember ==
    ASSUME NEW S \in SUBSET Nat, S # {}
    PROVE  Min(S) \in S
<1>1. \E x \in S : \A y \in S : ~ (<<y, x>> \in OpToRel(<, Nat))
  BY NatLessThanWellFounded, WFMin, Zenon
<1>2. ASSUME NEW x \in S, NEW y \in S, ~ (<<y, x>> \in OpToRel(<, Nat))
      PROVE  x <= y
  <2>1. ~ (y < x)
    BY <1>2, Zenon DEF OpToRel
  <2> QED  BY <2>1
<1>3. \E x \in S : \A y \in S : x <= y
  BY <1>1, <1>2
<1> QED  BY <1>3 DEF Min

\* Removing one bucket keeps the others, in their order.
LEMMA RemovedAt ==
    ASSUME NEW B, NEW lim \in Seq(B), NEW k \in 1 .. Len(lim)
    PROVE  /\ RemoveAt(lim, k) \in Seq(B)
           /\ Len(RemoveAt(lim, k)) = Len(lim) - 1
           /\ DOMAIN RemoveAt(lim, k) = 1 .. Len(lim) - 1
           /\ \A i \in 1 .. Len(lim) - 1 :
                RemoveAt(lim, k)[i] = lim[IF i < k THEN i ELSE i + 1]
<1> DEFINE s == SubSeq(lim, 1, k - 1)
           t == SubSeq(lim, k + 1, Len(lim))
<1>1. Len(lim) \in Nat /\ k \in Int /\ \A i \in 1 .. Len(lim) : lim[i] \in B
  BY ElementOfSeq, LenProperties
<1>2. /\ s \in Seq(B)
      /\ Len(s) = k - 1
      /\ \A i \in 1 .. k - 1 : s[i] = lim[i]
  <2>1. \A i \in 1 .. k - 1 : lim[i] \in B
    BY <1>1
  <2>2. 1 \in Int /\ k - 1 \in Int
    BY <1>1
  <2>3. /\ s \in Seq(B)
        /\ Len(s) = IF 1 <= k - 1 THEN k - 1 - 1 + 1 ELSE 0
        /\ \A i \in 1 .. k - 1 - 1 + 1 : s[i] = lim[1 + i - 1]
    BY <2>1, <2>2, SubSeqProperties
  <2> HIDE DEF s
  <2> QED  BY <1>1, <2>3
<1>3. /\ t \in Seq(B)
      /\ Len(t) = Len(lim) - k
      /\ \A i \in 1 .. Len(lim) - k : t[i] = lim[k + i]
  <2>1. \A i \in k + 1 .. Len(lim) : lim[i] \in B
    BY <1>1
  <2>2. k + 1 \in Int /\ Len(lim) \in Int
    BY <1>1
  <2>3. /\ t \in Seq(B)
        /\ Len(t) = IF k + 1 <= Len(lim) THEN Len(lim) - (k + 1) + 1 ELSE 0
        /\ \A i \in 1 .. Len(lim) - (k + 1) + 1 : t[i] = lim[k + 1 + i - 1]
    BY <2>1, <2>2, SubSeqProperties
  <2> HIDE DEF t
  <2> QED  BY <1>1, <2>3
<1>4. RemoveAt(lim, k) = s \o t
  BY DEF RemoveAt
<1> HIDE DEF s, t
<1>5. /\ s \o t \in Seq(B)
      /\ Len(s \o t) = Len(s) + Len(t)
      /\ \A i \in 1 .. Len(s) + Len(t) :
           (s \o t)[i] = IF i <= Len(s) THEN s[i] ELSE t[i - Len(s)]
  BY <1>2, <1>3, ConcatProperties
<1>6. Len(s \o t) = Len(lim) - 1 /\ DOMAIN (s \o t) = 1 .. Len(lim) - 1
  BY <1>1, <1>2, <1>3, <1>5, LenProperties
<1>7. ASSUME NEW i \in 1 .. Len(lim) - 1
      PROVE  (s \o t)[i] = lim[IF i < k THEN i ELSE i + 1]
  <2>1. i \in Int /\ (s \o t)[i] = IF i <= k - 1 THEN s[i] ELSE t[i - (k - 1)]
    BY <1>1, <1>2, <1>3, <1>5
  <2>2. CASE i < k
    BY <1>1, <1>2, <2>1, <2>2
  <2>3. CASE i >= k
    <3>1. i - (k - 1) \in 1 .. Len(lim) - k /\ k + (i - (k - 1)) = i + 1
      BY <1>1, <2>1, <2>3
    <3>2. t[i - (k - 1)] = lim[i + 1]
      BY <1>3, <3>1
    <3> QED  BY <1>1, <2>1, <2>3, <3>2
  <2> QED  BY <1>1, <2>1, <2>2, <2>3
<1> QED  BY <1>4, <1>5, <1>6, <1>7

\* The bucket that makes room: one of the limiter's, and only when it is full.
LEMMA EvictedIndex ==
    ASSUME NEW B, NEW lim \in Seq(B), NEW time, NEW c \in LimiterConfigs
    PROVE  /\ Len(lim) < c.keys => Evicted(lim, time, c) = 0
           /\ Len(lim) >= c.keys => Evicted(lim, time, c) \in 1 .. Len(lim)
<1>1. Len(lim) \in Nat /\ DOMAIN lim = 1 .. Len(lim) /\ c.keys \in Nat /\ c.keys >= 1
  BY LenProperties DEF LimiterConfigs
<1>2. Idle(lim, time, c) \in SUBSET (1 .. Len(lim))
  BY <1>1 DEF Idle
<1>3. Idle(lim, time, c) # {} => Min(Idle(lim, time, c)) \in 1 .. Len(lim)
  BY <1>1, <1>2, MinIsMember
<1> QED  BY <1>1, <1>3 DEF Evicted

Buckets(keys, time, c) == [key : keys, tokens : 0 .. c.burst, last : 0 .. time]

Distinct(lim) == \A i, j \in DOMAIN lim : lim[i].key = lim[j].key => i = j

\* evictIfFull leaves room for one more, keeps every other bucket and adds none.
LEMMA EvictionMakesRoom ==
    ASSUME NEW B, NEW lim \in Seq(B), NEW time, NEW c \in LimiterConfigs,
           Distinct(lim), Len(lim) <= c.keys
    PROVE  LET left == EvictIfFull(lim, time, c)
           IN  /\ left \in Seq(B) /\ Len(left) < c.keys /\ Distinct(left)
               /\ \A i \in DOMAIN left : \E j \in DOMAIN lim : left[i] = lim[j]
               /\ \A j \in DOMAIN lim : \/ j = Evicted(lim, time, c)
                                        \/ \E i \in DOMAIN left : left[i] = lim[j]
<1> DEFINE left == EvictIfFull(lim, time, c)
           k == Evicted(lim, time, c)
<1>1. /\ Len(lim) \in Nat /\ DOMAIN lim = 1 .. Len(lim)
      /\ c.keys \in Nat /\ c.keys >= 1
  BY LenProperties DEF LimiterConfigs
<1>2. /\ Len(lim) < c.keys => k = 0
      /\ Len(lim) >= c.keys => k \in 1 .. Len(lim)
  BY EvictedIndex
<1>3. left = IF k = 0 THEN lim ELSE RemoveAt(lim, k)
  BY DEF EvictIfFull
<1> SUFFICES /\ left \in Seq(B) /\ Len(left) < c.keys /\ Distinct(left)
             /\ \A i \in DOMAIN left : \E j \in DOMAIN lim : left[i] = lim[j]
             /\ \A j \in DOMAIN lim : j = k \/ \E i \in DOMAIN left : left[i] = lim[j]
  OBVIOUS
<1> HIDE DEF left, k
<1>4. CASE k = 0
  <2>1. left = lim /\ Len(lim) < c.keys
    BY <1>1, <1>2, <1>3, <1>4
  <2> QED  BY <2>1
<1>5. CASE k # 0
  <2>1. k \in 1 .. Len(lim) /\ left = RemoveAt(lim, k) /\ k \in Int
    BY <1>1, <1>2, <1>3, <1>5
  <2>2. /\ left \in Seq(B)
        /\ Len(left) = Len(lim) - 1
        /\ DOMAIN left = 1 .. Len(lim) - 1
        /\ \A i \in 1 .. Len(lim) - 1 : left[i] = lim[IF i < k THEN i ELSE i + 1]
    BY <2>1, RemovedAt
  <2>3. Len(left) < c.keys
    BY <1>1, <2>2
  <2>4. Distinct(left)
    <3> SUFFICES ASSUME NEW i \in 1 .. Len(lim) - 1, NEW j \in 1 .. Len(lim) - 1,
                        left[i].key = left[j].key
                 PROVE  i = j
      BY <2>2 DEF Distinct
    <3> DEFINE a == IF i < k THEN i ELSE i + 1
               b == IF j < k THEN j ELSE j + 1
    <3>1. a \in 1 .. Len(lim) /\ b \in 1 .. Len(lim)
      BY <1>1, <2>1
    <3>2. a = b
      BY <1>1, <2>2, <3>1 DEF Distinct
    <3> QED  BY <1>1, <2>1, <3>2
  <2>5. ASSUME NEW i \in DOMAIN left PROVE \E j \in DOMAIN lim : left[i] = lim[j]
    <3>1. (IF i < k THEN i ELSE i + 1) \in DOMAIN lim
      BY <1>1, <2>1, <2>2
    <3> QED  BY <2>2, <3>1
  <2>6. ASSUME NEW j \in DOMAIN lim, j # k PROVE \E i \in DOMAIN left : left[i] = lim[j]
    <3> DEFINE i == IF j < k THEN j ELSE j - 1
    <3>1. j \in Int /\ i \in DOMAIN left /\ (IF i < k THEN i ELSE i + 1) = j
      BY <1>1, <2>1, <2>2, <2>6
    <3>2. left[i] = lim[j]
      BY <2>2, <3>1
    <3> QED  BY <3>1, <3>2
  <2> QED  BY <2>2, <2>3, <2>4, <2>5, <2>6
<1> QED  BY <1>4, <1>5

\* The tokens a take finds: a full bucket for a new key, else the refilled one.
Found(lim, key, time, c) ==
    IF IndexOf(lim, key) = {} THEN c.burst
    ELSE Refilled(lim[CHOOSE j \in IndexOf(lim, key) : TRUE], time, c)

\* A refill stays within the burst and adds what the time is worth.
LEMMA RefilledInRange ==
    ASSUME NEW b, NEW time \in Nat, NEW c \in LimiterConfigs,
           b.tokens \in Nat, b.last \in 0 .. time
    PROVE  /\ Refilled(b, time, c) \in 0 .. c.burst
           /\ Refilled(b, time, c) <= b.tokens + (time - b.last) * c.refill
<1>1. c.burst \in Nat /\ c.refill \in Nat
  BY DEF LimiterConfigs
<1>2. PICK n \in Nat : n = (time - b.last) * c.refill
  BY <1>1
<1> QED  BY <1>1, <1>2 DEF Refilled

\* What a take does to the buckets before it spends: its own is there, refilled
\* to now; the others are as before, except one evicted for a new key.
Recharged(lim, after, key, keys, time, c) ==
    /\ after \in Seq(Buckets(keys, time, c)) /\ Len(after) <= c.keys /\ Distinct(after)
    /\ \A i \in DOMAIN after : \/ after[i].key = key
                               \/ \E j \in DOMAIN lim : after[i] = lim[j]
    /\ \A j \in DOMAIN lim : \/ lim[j].key = key
                             \/ \E i \in DOMAIN after : after[i] = lim[j]
                             \/ IndexOf(lim, key) = {} /\ j = Evicted(lim, time, c)

\* What a key finds is its bucket refilled, or a burst.
LEMMA FoundInRange ==
    ASSUME NEW keys, NEW key \in keys, NEW time \in Nat, NEW c \in LimiterConfigs,
           NEW lim \in Seq(Buckets(keys, time, c)), Distinct(lim)
    PROVE  /\ Found(lim, key, time, c) \in 0 .. c.burst
           /\ \A j \in IndexOf(lim, key) :
                /\ Found(lim, key, time, c) = Refilled(lim[j], time, c)
                /\ Found(lim, key, time, c)
                     <= lim[j].tokens + (time - lim[j].last) * c.refill
<1> DEFINE B == Buckets(keys, time, c)
<1>1. c.burst \in Nat /\ \A j \in DOMAIN lim : lim[j] \in B
  BY LenProperties DEF LimiterConfigs
<1>2. ASSUME NEW j \in IndexOf(lim, key)
      PROVE  /\ Found(lim, key, time, c) = Refilled(lim[j], time, c)
             /\ Refilled(lim[j], time, c) \in 0 .. c.burst
             /\ Refilled(lim[j], time, c)
                  <= lim[j].tokens + (time - lim[j].last) * c.refill
  <2>1. j \in DOMAIN lim /\ \A k \in IndexOf(lim, key) : k = j
    BY DEF IndexOf, Distinct
  <2>2. (CHOOSE k \in IndexOf(lim, key) : TRUE) = j
    BY <2>1
  <2>3. lim[j].tokens \in Nat /\ lim[j].last \in 0 .. time
    BY <1>1, <2>1 DEF Buckets
  <2> QED  BY <2>2, <2>3, RefilledInRange DEF Found
<1>3. IndexOf(lim, key) = {} => Found(lim, key, time, c) \in 0 .. c.burst
  BY <1>1 DEF Found
<1> QED  BY <1>2, <1>3

\* A charged limiter has the key's bucket, up to date.
LEMMA ChargedEffect ==
    ASSUME NEW keys, NEW key \in keys, NEW time \in Nat, NEW c \in LimiterConfigs,
           NEW lim, IsLimiter(lim, keys, time, c)
    PROVE  LET charged == Charged(lim, key, time, c)
               own     == Bucket(key, Found(lim, key, time, c), time)
           IN  /\ Recharged(lim, charged, key, keys, time, c)
               /\ \E i \in DOMAIN charged : charged[i] = own
<1> DEFINE B == Buckets(keys, time, c)
           charged == Charged(lim, key, time, c)
           found == Found(lim, key, time, c)
           own == Bucket(key, found, time)
<1>1. /\ lim \in Seq(B) /\ Len(lim) <= c.keys /\ Distinct(lim)
      /\ DOMAIN lim = 1 .. Len(lim) /\ Len(lim) \in Nat
      /\ \A i \in DOMAIN lim : lim[i] \in B
  <2>1. lim \in Seq(B)
    BY DEF IsLimiter, Buckets
  <2>2. Len(lim) <= c.keys /\ Distinct(lim)
    BY DEF IsLimiter, Distinct
  <2> HIDE DEF B
  <2>3. DOMAIN lim = 1 .. Len(lim) /\ Len(lim) \in Nat
    BY <2>1, LenProperties
  <2>4. \A i \in DOMAIN lim : lim[i] \in B
    BY <2>1, <2>3, ElementOfSeq
  <2> QED  BY <2>1, <2>2, <2>3, <2>4
<1>2. found \in 0 .. c.burst
  BY <1>1, FoundInRange
<1>3. own \in B /\ own.key = key
  BY <1>2 DEF Bucket, Buckets
<1> SUFFICES /\ Recharged(lim, charged, key, keys, time, c)
             /\ \E i \in DOMAIN charged : charged[i] = own
  OBVIOUS
<1>4. CASE IndexOf(lim, key) = {}
  <2> DEFINE left == EvictIfFull(lim, time, c)
  <2>1. charged = Append(left, own)
    BY <1>4 DEF Charged, Found
  <2>2. /\ left \in Seq(B) /\ Len(left) < c.keys /\ Distinct(left)
        /\ \A i \in DOMAIN left : \E j \in DOMAIN lim : left[i] = lim[j]
        /\ \A j \in DOMAIN lim : \/ j = Evicted(lim, time, c)
                                 \/ \E i \in DOMAIN left : left[i] = lim[j]
    BY <1>1, EvictionMakesRoom
  <2> HIDE DEF left, own, charged, B
  <2>3. /\ charged \in Seq(B) /\ Len(charged) = Len(left) + 1
        /\ DOMAIN left = 1 .. Len(left) /\ DOMAIN charged = 1 .. Len(left) + 1
        /\ Len(left) \in Nat
        /\ \A i \in DOMAIN left : i \in DOMAIN charged /\ charged[i] = left[i]
        /\ charged[Len(left) + 1] = own
    BY <1>3, <2>1, <2>2
  <2>4. \A i \in DOMAIN left : left[i].key # key
    BY <1>4, <2>2 DEF IndexOf
  <2>5. Distinct(charged)
    <3> SUFFICES ASSUME NEW i \in DOMAIN charged, NEW j \in DOMAIN charged,
                        charged[i].key = charged[j].key
                 PROVE  i = j
      BY DEF Distinct
    <3>1. \A n \in DOMAIN charged : n \in DOMAIN left \/ n = Len(left) + 1
      BY <2>3
    <3> QED  BY <1>3, <2>2, <2>3, <2>4, <3>1 DEF Distinct
  <2>6. Len(charged) <= c.keys
    BY <2>2, <2>3 DEF LimiterConfigs
  <2>7. \A i \in DOMAIN charged : \/ charged[i].key = key
                                  \/ \E j \in DOMAIN lim : charged[i] = lim[j]
    <3>1. \A n \in DOMAIN charged : n \in DOMAIN left \/ n = Len(left) + 1
      BY <2>3
    <3> QED  BY <1>3, <2>2, <2>3, <3>1
  <2>8. \A j \in DOMAIN lim : \/ j = Evicted(lim, time, c)
                              \/ \E i \in DOMAIN charged : charged[i] = lim[j]
    BY <2>2, <2>3
  <2>9. Len(left) + 1 \in DOMAIN charged
    BY <2>3
  <2> QED  BY <1>4, <2>3, <2>5, <2>6, <2>7, <2>8, <2>9 DEF Recharged, B
<1>5. CASE IndexOf(lim, key) # {}
  <2>1. PICK k \in DOMAIN lim : lim[k].key = key
    BY <1>5 DEF IndexOf
  <2>2. k \in IndexOf(lim, key) /\ \A i \in DOMAIN lim : lim[i].key = key => i = k
    BY <1>1, <2>1 DEF IndexOf, Distinct
  <2>3. found = Refilled(lim[k], time, c)
    <3>1. (CHOOSE j \in IndexOf(lim, key) : TRUE) = k
      BY <2>2 DEF IndexOf
    <3> QED  BY <1>5, <3>1 DEF Found
  <2>4. charged = [i \in DOMAIN lim |-> IF lim[i].key = key
                                          THEN Bucket(key, Refilled(lim[i], time, c), time)
                                          ELSE lim[i]]
    BY <1>5 DEF Charged
  <2>5. charged = [i \in DOMAIN lim |-> IF lim[i].key = key THEN own ELSE lim[i]]
    BY <2>2, <2>3, <2>4
  <2> HIDE DEF own, charged, B, found
  <2>6. charged \in Seq(B) /\ Len(charged) = Len(lim) /\ DOMAIN charged = DOMAIN lim
    <3>1. charged \in [1 .. Len(lim) -> B]
      BY <1>1, <1>3, <2>5
    <3> QED  BY <1>1, <3>1
  <2>7. \A i \in DOMAIN lim : charged[i].key = lim[i].key
    BY <1>3, <2>5
  <2>8. charged[k] = own /\ \A i \in DOMAIN lim : i # k => charged[i] = lim[i]
    BY <2>1, <2>2, <2>5
  <2>9. Distinct(charged)
    BY <1>1, <2>6, <2>7 DEF Distinct
  <2>10. \A i \in DOMAIN lim : charged[i].key = key \/ charged[i] = lim[i]
    BY <1>3, <2>8
  <2>11. \A j \in DOMAIN lim : lim[j].key = key \/ charged[j] = lim[j]
    BY <2>1, <2>8
  <2> QED  BY <1>1, <2>6, <2>8, <2>9, <2>10, <2>11 DEF Recharged, B
<1> QED  BY <1>4, <1>5

\* tryTake: it succeeds when the tokens found are enough, and spends Unit of them.
LEMMA TakeEffect ==
    ASSUME NEW keys, NEW key \in keys, NEW time \in Nat, NEW c \in LimiterConfigs,
           NEW lim, IsLimiter(lim, keys, time, c)
    PROVE  LET take  == TryTake(lim, key, time, c)
               found == Found(lim, key, time, c)
               left  == IF take.ok THEN found - Unit ELSE found
           IN  /\ take.ok = (found >= Unit)
               /\ Recharged(lim, take.lim, key, keys, time, c)
               /\ \E i \in DOMAIN take.lim : take.lim[i] = Bucket(key, left, time)
<1> DEFINE B == Buckets(keys, time, c)
           charged == Charged(lim, key, time, c)
           found == Found(lim, key, time, c)
           take == TryTake(lim, key, time, c)
           i == CHOOSE j \in IndexOf(charged, key) : TRUE
           spent == [charged EXCEPT ![i].tokens = @ - Unit]
<1>1. /\ Recharged(lim, charged, key, keys, time, c)
      /\ \E j \in DOMAIN charged : charged[j] = Bucket(key, found, time)
  BY ChargedEffect
<1>2. lim \in Seq(B) /\ Distinct(lim)
  BY DEF IsLimiter, Buckets, Distinct
<1>3. found \in 0 .. c.burst /\ c.burst \in Nat
  BY <1>2, FoundInRange DEF LimiterConfigs
<1>4. take = IF charged[i].tokens < Unit THEN [ok |-> FALSE, lim |-> charged]
             ELSE [ok |-> TRUE, lim |-> spent]
  BY DEF TryTake
<1>5. i \in DOMAIN charged /\ charged[i] = Bucket(key, found, time)
  <2>1. PICK j \in DOMAIN charged : charged[j] = Bucket(key, found, time)
    BY <1>1
  <2>2. charged[j].key = key
    BY <2>1 DEF Bucket
  <2>3. \A k \in DOMAIN charged : charged[k].key = key => k = j
    BY <1>1, <2>2 DEF Recharged, Distinct
  <2>4. i = j
    BY <2>2, <2>3 DEF IndexOf
  <2> QED  BY <2>1, <2>4
<1>6. charged[i].tokens = found
  BY <1>5 DEF Bucket
<1>7. CASE found < Unit
  <2>1. take = [ok |-> FALSE, lim |-> charged]
    BY <1>4, <1>6, <1>7
  <2>2. take.ok = FALSE /\ take.lim = charged /\ (found >= Unit) = FALSE
    BY <1>3, <1>7, <2>1, UnitAssumption
  <2> HIDE DEF charged, found, take
  <2> QED  BY <1>1, <2>2 DEF take, found
<1>8. CASE found >= Unit
  <2> DEFINE own == Bucket(key, found - Unit, time)
  <2>1. take = [ok |-> TRUE, lim |-> spent]
    BY <1>3, <1>4, <1>6, <1>8, UnitAssumption
  <2>2. PICK n \in 0 .. c.burst : n = found - Unit
    BY <1>3, <1>8, UnitAssumption
  <2>3. own = [key |-> key, tokens |-> n, last |-> time] /\ own \in B /\ own.key = key
    BY <2>2 DEF Bucket, Buckets
  <2>4. spent = [charged EXCEPT ![i] = own]
    <3>1. [charged[i] EXCEPT !.tokens = @ - Unit] = own
      <4> HIDE DEF found, charged, i
      <4>1. charged[i] = [key |-> key, tokens |-> found, last |-> time]
        BY <1>5 DEF Bucket
      <4> QED  BY <4>1 DEF Bucket
    <3> HIDE DEF charged, i, own
    <3> QED  BY <3>1
  <2> HIDE DEF spent, charged, own, B, found, i, take
  <2>5. /\ charged \in Seq(B) /\ DOMAIN charged = 1 .. Len(charged)
        /\ charged[i].key = key /\ i \in 1 .. Len(charged)
    BY <1>1, <1>5, LenProperties DEF Recharged, Bucket, B
  <2>6. spent \in Seq(B) /\ Len(spent) = Len(charged) /\ DOMAIN spent = DOMAIN charged
    BY <2>3, <2>4, <2>5, ExceptSeq
  <2>7. spent[i] = own /\ \A j \in DOMAIN charged : j # i => spent[j] = charged[j]
    BY <2>4, <2>5
  <2>8. \A j \in DOMAIN charged : spent[j].key = charged[j].key
    BY <2>3, <2>5, <2>7
  <2>9. Distinct(spent)
    BY <1>1, <2>6, <2>8 DEF Distinct, Recharged
  <2>10. Recharged(lim, spent, key, keys, time, c)
    <3>1. \A k \in DOMAIN spent : \/ spent[k].key = key
                                  \/ \E j \in DOMAIN lim : spent[k] = lim[j]
      BY <1>1, <2>3, <2>6, <2>7 DEF Recharged
    <3>2. \A j \in DOMAIN lim : \/ lim[j].key = key
                                \/ \E k \in DOMAIN spent : spent[k] = lim[j]
                                \/ IndexOf(lim, key) = {} /\ j = Evicted(lim, time, c)
      BY <1>1, <2>5, <2>6, <2>7 DEF Recharged
    <3> QED  BY <1>1, <2>6, <2>9, <3>1, <3>2 DEF Recharged, B
  <2>11. spent[i] = own /\ i \in DOMAIN spent
    BY <2>5, <2>6, <2>7
  <2>12. take.ok = TRUE /\ take.lim = spent /\ (found >= Unit) = TRUE
    BY <2>1, <1>8
  <2> QED  BY <2>10, <2>11, <2>12 DEF take, own, found
<1> QED  BY <1>3, <1>7, <1>8, UnitAssumption

\* It is a limiter again.
LEMMA RechargedIsLimiter ==
    ASSUME NEW lim, NEW after, NEW key, NEW keys, NEW time, NEW c,
           Recharged(lim, after, key, keys, time, c)
    PROVE  IsLimiter(after, keys, time, c)
BY DEF Recharged, IsLimiter, Buckets, Distinct

\* Time passing only makes buckets older.
LEMMA LimiterAges ==
    ASSUME NEW keys, NEW time \in Nat, NEW later \in Nat, later >= time,
           NEW c, NEW lim, IsLimiter(lim, keys, time, c)
    PROVE  IsLimiter(lim, keys, later, c)
<1>1. lim \in Seq(Buckets(keys, time, c))
  BY DEF IsLimiter, Buckets
<1>2. Buckets(keys, time, c) \subseteq Buckets(keys, later, c)
  BY DEF Buckets
<1>3. lim \in Seq(Buckets(keys, later, c))
  BY <1>1, <1>2, SeqMonotonic
<1> QED  BY <1>3 DEF IsLimiter, Buckets

\* The configurations, as the proofs use them.
LEMMA ConfigsTyped ==
    /\ PerIp \in LimiterConfigs /\ Overall \in LimiterConfigs
    /\ PerIp.burst \in Nat /\ PerIp.refill \in Nat
    /\ Overall.burst \in Nat /\ Overall.refill \in Nat
    /\ Ttl \in Nat /\ Ttl >= 1 /\ MaxOpen \in Nat /\ Unit \in Nat /\ Unit >= 1
BY SellerAssumption, UnitAssumption DEF LimiterConfigs

LimitersOK ==
    /\ IsLimiter(perIp, Ips, now, PerIp)
    /\ IsLimiter(overall, {"global"}, now, Overall)

\* Both limiters stay limiters, whatever happens.
LEMMA LimitersStep ==
    ASSUME ShapeOK, LimitersOK, [Next]_vars
    PROVE  LimitersOK'
<1> USE DEF limits, relayer, history
<1>0. now \in Nat
  BY DEF ShapeOK
<1>1. ASSUME NEW ip \in Ips, NEW store, Reissue(ip, store), now' = now
      PROVE  LimitersOK'
  <2>1. /\ perIp' = TryTake(perIp, ip, now, PerIp).lim
        /\ \/ overall' = TryTake(overall, "global", now, Overall).lim
           \/ overall' = overall
    BY <1>1 DEF Reissue
  <2>2. IsLimiter(perIp', Ips, now, PerIp)
    BY <1>0, <2>1, ConfigsTyped, TakeEffect, RechargedIsLimiter DEF LimitersOK
  <2>3. "global" \in {"global"}
    OBVIOUS
  <2>4. IsLimiter(TryTake(overall, "global", now, Overall).lim, {"global"}, now, Overall)
    BY <1>0, <2>3, ConfigsTyped, TakeEffect, RechargedIsLimiter DEF LimitersOK
  <2> QED  BY <1>1, <2>1, <2>2, <2>4 DEF LimitersOK
<1>2. ASSUME UNCHANGED <<perIp, overall>>, now' \in Nat, now' >= now
      PROVE  LimitersOK'
  <2>1. IsLimiter(perIp, Ips, now', PerIp)
    BY <1>0, <1>2, LimiterAges DEF LimitersOK
  <2>2. IsLimiter(overall, {"global"}, now', Overall)
    BY <1>0, <1>2, LimiterAges DEF LimitersOK
  <2> QED  BY <1>2, <2>1, <2>2 DEF LimitersOK
<1>3. \/ UNCHANGED <<now, perIp, overall>>
      \/ UNCHANGED <<perIp, overall>> /\ now' = now + 1
      \/ \E ip \in Ips : \E store : Reissue(ip, store) /\ now' = now
  BY DEF Next, vars, Ask, RetryTooLate, RetryStarts, HandlerStep, Verified, Answer,
         Timeout, Settle, Prepare, Recover, Tick
<1> QED  BY <1>0, <1>1, <1>2, <1>3
-----------------------------------------------------------------------------
(* Type correctness.                                                        *)

\* A request in progress carries a payment.
BusyPays == \A h \in Handlers : Busy(h) => handler[h].payment \in Payments

TypeInv == LockInv /\ SellerTypeOK /\ BusyPays

\* Clocks, stores and requests.
LEMMA StoreTypes ==
    ASSUME TypeInv, [Next]_vars
    PROVE  /\ now' \in 0 .. LastTime /\ issued' \in 0 .. LastChallenge
           /\ open' \in [Challenges -> [expires : Nat, settling : BOOLEAN]]
           /\ handler' \in [Handlers -> Request]
<1> USE DEF limits, relayer, history
<1> DEFINE Slot == [expires : Nat, settling : BOOLEAN]
<1>0. /\ now \in 0 .. LastTime /\ issued \in 0 .. LastChallenge
      /\ open \in [Challenges -> Slot] /\ now \in Nat
      /\ LastTime \in Nat /\ LastChallenge \in Nat /\ Ttl \in Nat
      /\ Closed \in Slot
  BY SellerAssumption DEF TypeInv, SellerTypeOK, Closed
<1>1. handler' \in [Handlers -> Request]
  BY LockStep DEF TypeInv, LockInv, ShapeOK
<1>2. PruneExpired \in [Challenges -> Slot]
  BY <1>0 DEF PruneExpired
<1>3. ASSUME NEW ip, NEW store \in [Challenges -> Slot], Reissue(ip, store)
      PROVE  issued' \in 0 .. LastChallenge /\ open' \in [Challenges -> Slot]
  <2> DEFINE new == [expires |-> now + Ttl, settling |-> FALSE]
  <2>1. new \in Slot
    BY <1>0
  <2>2. \/ issued' = issued /\ open' = store
        \/ /\ issued' = issued + 1 /\ issued < LastChallenge
           /\ open' = [store EXCEPT ![issued + 1] = new]
    BY <1>3 DEF Reissue
  <2> HIDE DEF new
  <2> QED  BY <1>0, <1>3, <2>1, <2>2
<1>4. ASSUME NEW ip, NEW p, NEW c, RetryTooLate(ip, p, c)
      PROVE  issued' \in 0 .. LastChallenge /\ open' \in [Challenges -> Slot]
  <2>1. [PruneExpired EXCEPT ![c] = Closed] \in [Challenges -> Slot]
    BY <1>0, <1>2
  <2> QED  BY <1>3, <1>4, <2>1 DEF RetryTooLate
<1>5. ASSUME NEW h, NEW p, NEW c, RetryStarts(h, p, c)
      PROVE  open' \in [Challenges -> Slot]
  BY <1>2, <1>5 DEF RetryStarts
<1>6. ASSUME NEW h, Release(h) PROVE open' \in [Challenges -> Slot]
  BY <1>0, <1>6 DEF Release
<1>7. issued' \in 0 .. LastChallenge /\ open' \in [Challenges -> Slot]
  BY <1>0, <1>2, <1>3, <1>4, <1>5, <1>6
  DEF Next, vars, Ask, RetryStarts, HandlerStep, Verified, Answer, Timeout, Settle,
      Prepare, Recover, Tick
<1>8. now' \in 0 .. LastTime
  <2>1. now' = now \/ (now < LastTime /\ now' = now + 1)
    BY DEF Next, vars, Ask, RetryTooLate, RetryStarts, HandlerStep, Verified, Answer,
           Timeout, Settle, Prepare, Recover, Tick
  <2> QED  BY <1>0, <2>1
<1> QED  BY <1>1, <1>7, <1>8

\* The relayer's records.
LEMMA RecordTypes ==
    ASSUME TypeInv, [Next]_vars
    PROVE  payment' \in [Payments -> [for : 0 .. LastChallenge, expires : Nat,
                                      status : Statuses]]
<1> USE DEF limits, relayer, history
<1> DEFINE Row == [for : 0 .. LastChallenge, expires : Nat, status : Statuses]
<1>0. payment \in [Payments -> Row] /\ now \in Nat /\ Ttl \in Nat
  BY SellerAssumption DEF TypeInv, SellerTypeOK, Statuses
<1>1. ASSUME NEW p, NEW s \in Statuses, payment' = [payment EXCEPT ![p].status = s]
      PROVE  payment' \in [Payments -> Row]
  BY <1>0, <1>1
<1>2. ASSUME NEW h, Verified(h) PROVE payment' \in [Payments -> Row]
  BY <1>0, <1>1, <1>2 DEF Verified, Statuses
<1>3. ASSUME NEW p \in Payments, NEW c, Settle(p, c) PROVE payment' \in [Payments -> Row]
  <2>1. PICK s \in SettleOutcomes(p, c) : payment' = [payment EXCEPT ![p].status = s]
    BY <1>3 DEF Settle
  <2>2. s \in Statuses
    BY <1>0, <2>1 DEF SettleOutcomes, Statuses
  <2> QED  BY <1>1, <2>1, <2>2
<1>4. ASSUME NEW p \in Payments, NEW c \in Challenges, Prepare(p, c)
      PROVE  payment' \in [Payments -> Row]
  <2> DEFINE row == [for |-> c, status |-> "prepared", expires |-> now + Ttl]
  <2>1. row \in Row
    BY <1>0 DEF Statuses, Challenges
  <2>2. payment' = [ExpiredPayments EXCEPT ![p] = row]
    BY <1>4 DEF Prepare
  <2>3. \A q \in Payments : ExpiredPayments[q] \in Row
    BY <1>0 DEF ExpiredPayments, Statuses
  <2>4. ExpiredPayments \in [Payments -> Row]
    BY <2>3 DEF ExpiredPayments
  <2> HIDE DEF row
  <2> QED  BY <2>1, <2>2, <2>4
<1>5. ASSUME NEW p, Recover(p) PROVE payment' \in [Payments -> Row]
  BY <1>1, <1>5 DEF Recover, Statuses
<1>6. \/ UNCHANGED payment
      \/ \E h \in Handlers : Verified(h)
      \/ \E p \in Payments : \/ Recover(p)
                              \/ \E c \in Challenges : Settle(p, c) \/ Prepare(p, c)
  BY DEF Next, vars, Ask, RetryTooLate, RetryStarts, HandlerStep, Answer,
         Timeout, Tick
<1> QED  BY <1>0, <1>2, <1>3, <1>4, <1>5, <1>6

\* Calls and answers are about payments and challenges that exist.
LEMMA CallTypes ==
    ASSUME TypeInv, [Next]_vars
    PROVE  /\ BusyPays'
           /\ inbox' \subseteq Payments \X Challenges
           /\ delivered' \subseteq Challenges /\ invited' \subseteq Payments
<1> USE DEF limits, relayer, history
<1>0. /\ inbox \subseteq Payments \X Challenges
      /\ delivered \subseteq Challenges /\ invited \subseteq Payments
      /\ handler \in [Handlers -> Request]
      /\ \A h \in Handlers : Busy(h) => /\ handler[h].payment \in Payments
                                        /\ handler[h].challenge \in Challenges
  BY DEF TypeInv, SellerTypeOK, LockInv, ShapeOK, BusyPays, BusyIssued
<1>1. invited' \subseteq Payments
  <2>1. invited' \subseteq invited \cup Payments
    BY DEF Next, vars, Ask, RetryTooLate, RetryStarts, HandlerStep, Verified, Answer,
           Timeout, Settle, Prepare, Recover, Tick
  <2> QED  BY <1>0, <2>1
<1>2. delivered' \subseteq Challenges
  <2>1. ASSUME NEW h \in Handlers, Answer(h) PROVE delivered' \subseteq Challenges
    BY <1>0, <2>1 DEF Answer, Busy
  <2>2. UNCHANGED delivered \/ \E h \in Handlers : Answer(h)
    BY DEF Next, vars, Ask, RetryTooLate, RetryStarts, HandlerStep, Verified,
           Timeout, Settle, Prepare, Recover, Tick
  <2> QED  BY <1>0, <2>1, <2>2
<1>3. inbox' \subseteq Payments \X Challenges
  <2>1. ASSUME NEW h \in Handlers, Verified(h) PROVE inbox' \subseteq Payments \X Challenges
    BY <1>0, <2>1 DEF Verified, Busy
  <2>2. inbox' \subseteq inbox \/ \E h \in Handlers : Verified(h)
    BY DEF Next, vars, Ask, RetryTooLate, RetryStarts, HandlerStep, Answer,
           Timeout, Settle, Prepare, Recover, Tick
  <2> QED  BY <1>0, <2>1, <2>2
<1>4. BusyPays'
  <2>1. ASSUME \A h \in Handlers : \/ ~Busy(h)'
                                   \/ handler'[h].payment = handler[h].payment /\ Busy(h)
        PROVE  BusyPays'
    BY <1>0, <2>1 DEF BusyPays, Payments
  <2>2. ASSUME NEW h \in Handlers, Release(h) PROVE BusyPays'
    BY <1>0, <2>1, <2>2 DEF Release, Busy, Idling
  <2>3. ASSUME NEW h \in Handlers, Verified(h),
               handler' = [handler EXCEPT ![h].step = "settle"]
        PROVE  BusyPays'
    BY <1>0, <2>1, <2>3 DEF Verified, Busy, Request
  <2>4. ASSUME NEW h \in Handlers, NEW p \in Payments, NEW c \in Challenges,
               RetryStarts(h, p, c)
        PROVE  BusyPays'
    <3>1. handler' = [handler EXCEPT ![h] = [step |-> "verify", challenge |-> c,
                                             payment |-> p, granted |-> FALSE]]
      BY <2>4 DEF RetryStarts
    <3> QED  BY <1>0, <3>1 DEF BusyPays, Busy, Payments
  <2>5. ASSUME NEW p \in Payments, NEW c \in Challenges, Settle(p, c)
        PROVE  BusyPays'
    <3>1. ASSUME NEW h \in Handlers
          PROVE  \/ handler'[h] = handler[h]
                 \/ /\ handler[h].step = "settle"
                    /\ handler'[h] = [handler[h] EXCEPT !.step = "reply",
                                                        !.granted = Grants(p, c)]
      BY <2>5 DEF Settle
    <3>2. ASSUME NEW h \in Handlers
          PROVE  handler'[h].payment = handler[h].payment
                 /\ (handler[h].step = "idle" => handler'[h].step = "idle")
      BY <1>0, <3>1 DEF Request
    <3> QED  BY <2>1, <3>2 DEF Busy
  <2>6. CASE UNCHANGED handler
    BY <2>1, <2>6 DEF Busy
  <2>7. \/ UNCHANGED handler
        \/ \E h \in Handlers : Release(h)
        \/ \E h \in Handlers : Verified(h) /\ handler' = [handler EXCEPT ![h].step = "settle"]
        \/ \E h \in Handlers, p \in Payments, c \in Challenges : RetryStarts(h, p, c)
        \/ \E p \in Payments, c \in Challenges : Settle(p, c)
    BY DEF Next, vars, Ask, RetryTooLate, HandlerStep, Verified, Answer, Timeout,
           Prepare, Recover, Tick
  <2> QED  BY <2>2, <2>3, <2>4, <2>5, <2>6, <2>7
<1> QED  BY <1>1, <1>2, <1>3, <1>4

\* The counters.
LEMMA CounterTypes ==
    ASSUME TypeInv, [Next]_vars
    PROVE  refused' \in BOOLEAN /\ taken' \in [Ips -> Nat] /\ drained' \in [Ips -> Nat]
<1> USE DEF limits, relayer, history
<1>0. /\ refused \in BOOLEAN /\ taken \in [Ips -> Nat] /\ drained \in [Ips -> Nat]
      /\ MaxDrained \in Nat
  BY SellerAssumption DEF TypeInv, SellerTypeOK
<1>1. ASSUME NEW ip \in Ips, NEW store, Reissue(ip, store)
      PROVE  /\ refused' \in BOOLEAN
             /\ taken' \in [Ips -> Nat] /\ drained' \in [Ips -> Nat]
  <2>1. /\ refused' \in BOOLEAN
        /\ drained' \in [Ips -> 0 .. MaxDrained]
        /\ \E limited \in BOOLEAN :
             taken' = [taken EXCEPT ![ip] = IF limited THEN @ ELSE @ + 1]
    BY <1>1 DEF Reissue, CountIp
  <2>2. taken' \in [Ips -> Nat]
    <3>1. taken' = [taken EXCEPT ![ip] = @] \/ taken' = [taken EXCEPT ![ip] = @ + 1]
      BY <2>1
    <3>2. CASE taken' = [taken EXCEPT ![ip] = @]
      BY <1>0, <3>2
    <3>3. CASE taken' = [taken EXCEPT ![ip] = @ + 1]
      BY <1>0, <3>3
    <3> QED  BY <3>1, <3>2, <3>3
  <2>3. drained' \in [Ips -> Nat]
    <3>1. \A j \in Ips : drained'[j] \in 0 .. MaxDrained
      BY <2>1
    <3> QED  BY <1>0, <2>1, <3>1
  <2> QED  BY <2>1, <2>2, <2>3
<1>2. \/ UNCHANGED <<refused, taken, drained>>
      \/ \E ip \in Ips : \E store : Reissue(ip, store)
  BY DEF Next, vars, Ask, RetryTooLate, RetryStarts, HandlerStep, Verified, Answer,
         Timeout, Settle, Prepare, Recover, Tick
<1> QED  BY <1>0, <1>1, <1>2

\* The initial state is well typed.
LEMMA TypeInvInit == Init => TypeInv
<1> SUFFICES ASSUME Init PROVE TypeInv
  OBVIOUS
<1>1. LockInv
  BY LockInit
<1>2. IsLimiter(<<>>, Ips, 0, PerIp) /\ IsLimiter(<<>>, {"global"}, 0, Overall)
  BY ConfigsTyped DEF IsLimiter, LimiterConfigs
<1>3. SellerTypeOK
  <2>1. /\ now \in 0 .. LastTime /\ issued \in 0 .. LastChallenge
        /\ open \in [Challenges -> [expires : Nat, settling : BOOLEAN]]
    BY SellerAssumption DEF Init, Closed
  <2>2. handler \in [Handlers -> Request]
    BY SellerAssumption DEF Init, Idling, Request
  <2>3. payment \in [Payments -> [for : 0 .. LastChallenge, expires : Nat, status : Statuses]]
    BY SellerAssumption DEF Init, NoPayment, Statuses
  <2>4. /\ inbox \subseteq Payments \X Challenges
        /\ delivered \subseteq Challenges /\ invited \subseteq Payments
        /\ refused \in BOOLEAN /\ taken \in [Ips -> Nat] /\ drained \in [Ips -> Nat]
    BY DEF Init
  <2>5. LimitersOK
    BY <1>2 DEF Init, LimitersOK
  <2> QED  BY <2>1, <2>2, <2>3, <2>4, <2>5 DEF SellerTypeOK, Request, Statuses, LimitersOK
<1>4. BusyPays
  BY DEF Init, BusyPays, Busy, Idling
<1> QED  BY <1>1, <1>3, <1>4 DEF TypeInv

\* Every step keeps the types.
LEMMA TypeInvStep == TypeInv /\ [Next]_vars => TypeInv'
<1> SUFFICES ASSUME TypeInv, [Next]_vars PROVE TypeInv'
  OBVIOUS
<1>1. LockInv'
  BY LockStep DEF TypeInv
<1>2. LimitersOK'
  BY LimitersStep DEF TypeInv, LockInv, SellerTypeOK, LimitersOK
<1>3. SellerTypeOK'
  BY <1>2, StoreTypes, RecordTypes, CallTypes, CounterTypes
  DEF SellerTypeOK, LimitersOK, Request, Statuses, Payments, Challenges
<1> QED  BY <1>1, <1>3, CallTypes DEF TypeInv

\* For all limits and lifetimes and any number of requests, every reachable
\* state of the seller is well typed; in particular a limiter never holds more
\* than maxKeys buckets, two of one key or one above its capacity
\* (TokenBucketRateLimiter).
THEOREM SellerTypeCorrect == Spec => []SellerTypeOK
<1>1. TypeInv => SellerTypeOK
  BY DEF TypeInv
<1> QED  BY <1>1, TypeInvInit, TypeInvStep, PTL DEF Spec
-----------------------------------------------------------------------------
(* What an address may get through.                                         *)

\* The bucket of an address accounts for everything it has taken.
BucketAllowance ==
    \A i \in DOMAIN perIp :
        LET b == perIp[i]
        IN  taken[b.key] * Unit + b.tokens
              <= (1 + drained[b.key]) * PerIp.burst + b.last * PerIp.refill

\* An address without a bucket has a burst to come.
ForgottenAllowance ==
    \A ip \in Ips :
        IndexOf(perIp, ip) = {} =>
            taken[ip] * Unit <= drained[ip] * PerIp.burst + now * PerIp.refill

AllowanceInv == TypeInv /\ BucketAllowance /\ ForgottenAllowance

\* Products grow with a factor.
LEMMA ProductMonotone ==
    ASSUME NEW m \in Nat, NEW n \in Nat, m <= n, NEW b \in Nat
    PROVE  m * b <= n * b /\ m * b \in Nat /\ n * b \in Nat
<1>1. PICK d \in Nat : n = m + d
  BY n - m \in Nat
<1>2. m * b \in Nat /\ d * b \in Nat /\ n * b = m * b + d * b
  BY <1>1
<1> QED  BY <1>2

\* A product split at a smaller factor.
LEMMA ProductSplit ==
    ASSUME NEW m \in Nat, NEW n \in Nat, m <= n, NEW b \in Nat
    PROVE  m * b + (n - m) * b = n * b /\ (n - m) * b \in Nat
<1>1. PICK d \in Nat : d = n - m
  BY n - m \in Nat
<1>2. n = m + d /\ n * b = m * b + d * b /\ d * b \in Nat
  BY <1>1
<1> QED  BY <1>1, <1>2

\* One more factor.
LEMMA ProductNext ==
    ASSUME NEW m \in Nat, NEW b \in Nat
    PROVE  (1 + m) * b = m * b + b /\ (m + 1) * b = m * b + b /\ m * b \in Nat
OBVIOUS

\* What a bucket of a limiter holds.
LEMMA BucketTyped ==
    ASSUME NEW keys, NEW time \in Nat, NEW c \in LimiterConfigs, NEW lim,
           IsLimiter(lim, keys, time, c), NEW i \in DOMAIN lim
    PROVE  /\ lim[i].key \in keys /\ lim[i].tokens \in Nat /\ lim[i].tokens <= c.burst
           /\ lim[i].last \in Nat /\ lim[i].last <= time
<1>1. lim \in Seq(Buckets(keys, time, c))
  BY DEF IsLimiter, Buckets
<1>2. lim[i] \in Buckets(keys, time, c)
  BY <1>1, LenProperties
<1> QED  BY <1>2 DEF Buckets, LimiterConfigs

\* A take is paid for by the tokens it found.
LEMMA FoundCovered ==
    ASSUME AllowanceInv, NEW ip \in Ips
    PROVE  taken[ip] * Unit + Found(perIp, ip, now, PerIp)
             <= (1 + drained[ip]) * PerIp.burst + now * PerIp.refill
<1> DEFINE found == Found(perIp, ip, now, PerIp)
<1>0. /\ now \in Nat /\ IsLimiter(perIp, Ips, now, PerIp)
      /\ taken[ip] \in Nat /\ drained[ip] \in Nat
  BY DEF AllowanceInv, TypeInv, SellerTypeOK
<1>1. PICK u \in Nat : u = taken[ip] * Unit
  BY <1>0, ConfigsTyped
<1>2. PICK d \in Nat : d = drained[ip] * PerIp.burst
  BY <1>0, ConfigsTyped
<1>3. (1 + drained[ip]) * PerIp.burst = d + PerIp.burst
  BY <1>0, <1>2, ConfigsTyped, ProductNext
<1>4. PICK r \in Nat : r = now * PerIp.refill
  BY <1>0, ConfigsTyped
<1> SUFFICES u + found <= (d + PerIp.burst) + r
  BY <1>1, <1>3, <1>4
<1>5. CASE IndexOf(perIp, ip) = {}
  <2>1. found = PerIp.burst /\ u <= d + r
    BY <1>0, <1>1, <1>2, <1>4, <1>5 DEF Found, AllowanceInv, ForgottenAllowance
  <2> HIDE DEF found
  <2> QED  BY <2>1, ConfigsTyped
<1>6. CASE IndexOf(perIp, ip) # {}
  <2>1. PICK j \in IndexOf(perIp, ip) : TRUE
    BY <1>6
  <2>2. j \in DOMAIN perIp /\ perIp[j].key = ip
    BY <2>1 DEF IndexOf
  <2>3. PICK t \in Nat : t = perIp[j].tokens
    BY <1>0, <2>2, ConfigsTyped, BucketTyped
  <2>4. PICK l \in Nat : l = perIp[j].last /\ l <= now
    BY <1>0, <2>2, ConfigsTyped, BucketTyped
  <2>5. l * PerIp.refill + (now - l) * PerIp.refill = r /\ (now - l) * PerIp.refill \in Nat
    BY <1>0, <1>4, <2>4, ConfigsTyped, ProductSplit
  <2>6. PICK s \in Nat : s = (now - l) * PerIp.refill
    BY <2>5
  <2>7. PICK q \in Nat : q = l * PerIp.refill
    BY <2>4, ConfigsTyped
  <2>8. u + t <= d + PerIp.burst + q
    <3>1. u + t <= (1 + drained[ip]) * PerIp.burst + q
      BY <1>1, <2>2, <2>3, <2>4, <2>7 DEF AllowanceInv, BucketAllowance
    <3> QED  BY <1>3, <3>1
  <2>9. found <= t + s /\ found \in Nat
    <3>1. perIp \in Seq(Buckets(Ips, now, PerIp)) /\ Distinct(perIp)
      BY <1>0 DEF IsLimiter, Buckets, Distinct
    <3>2. /\ found \in 0 .. PerIp.burst
          /\ found <= perIp[j].tokens + (now - perIp[j].last) * PerIp.refill
      BY <1>0, <2>1, <3>1, ConfigsTyped, FoundInRange
    <3> HIDE DEF found
    <3> QED  BY <2>3, <2>4, <2>6, <3>2, ConfigsTyped
  <2> HIDE DEF found
  <2>10. u + found <= d + PerIp.burst + r
    BY <2>5, <2>6, <2>7, <2>8, <2>9, ConfigsTyped
  <2> QED  BY <2>10
<1> QED  BY <1>5, <1>6

\* The bucket a limiter evicts is one of its own.
LEMMA EvictedInLimiter ==
    ASSUME NEW keys, NEW time \in Nat, NEW c \in LimiterConfigs, NEW lim,
           IsLimiter(lim, keys, time, c), Evicted(lim, time, c) # 0
    PROVE  Evicted(lim, time, c) \in DOMAIN lim /\ Evicted(lim, time, c) > 0
<1>1. lim \in Seq(Buckets(keys, time, c))
  BY DEF IsLimiter, Buckets
<1>2. Len(lim) \in Nat /\ DOMAIN lim = 1 .. Len(lim) /\ c.keys \in Nat
  BY <1>1, LenProperties DEF LimiterConfigs
<1>3. Evicted(lim, time, c) \in 1 .. Len(lim)
  BY <1>1, <1>2, EvictedIndex
<1> QED  BY <1>2, <1>3

\* CountIp counts an eviction of a bucket that was not full, and nothing else.
LEMMA DrainedEffect ==
    ASSUME TypeInv, NEW ip \in Ips, NEW limited, CountIp(ip, limited)
    PROVE  LET victim == Evicted(perIp, now, PerIp)
           IN  /\ \A j \in Ips : drained'[j] \in Nat /\ drained'[j] >= drained[j]
               /\ IndexOf(perIp, ip) = {} /\ victim # 0 /\ victim \notin Idle(perIp, now, PerIp)
                    => drained'[perIp[victim].key] = drained[perIp[victim].key] + 1
<1> DEFINE victim == Evicted(perIp, now, PerIp)
           key == perIp[victim].key
           evicts == /\ IndexOf(perIp, ip) = {} /\ victim > 0
                     /\ victim \notin Idle(perIp, now, PerIp)
<1>0. /\ now \in Nat /\ IsLimiter(perIp, Ips, now, PerIp)
      /\ drained \in [Ips -> Nat] /\ \A j \in Ips : drained[j] \in Nat
  BY DEF TypeInv, SellerTypeOK
<1>1. victim # 0 => victim \in DOMAIN perIp /\ victim > 0
  BY <1>0, ConfigsTyped, EvictedInLimiter
<1>2. victim # 0 => key \in Ips
  BY <1>0, <1>1, ConfigsTyped, BucketTyped
<1>3. drained' = IF evicts THEN [drained EXCEPT ![key] = @ + 1] ELSE drained
  BY DEF CountIp
<1> HIDE DEF victim, key
<1>4. CASE evicts
  <2>1. drained' = [drained EXCEPT ![key] = @ + 1]
    BY <1>3, <1>4
  <2>2. victim # 0
    BY <1>4
  <2>3. key \in Ips
    BY <1>2, <2>2
  <2>4. \A j \in Ips : drained'[j] = IF j = key THEN drained[j] + 1 ELSE drained[j]
    BY <1>0, <2>1, <2>3
  <2>5. \A j \in Ips : drained'[j] \in Nat /\ drained'[j] >= drained[j]
    BY <1>0, <2>4
  <2> QED  BY <2>3, <2>4, <2>5 DEF victim, key
<1>5. CASE ~evicts
  <2>1. drained' = drained
    BY <1>3, <1>5
  <2>2. \A j \in Ips : drained'[j] \in Nat /\ drained'[j] >= drained[j]
    BY <1>0, <2>1
  <2> QED  BY <1>1, <1>5, <2>2 DEF victim
<1> QED  BY <1>4, <1>5

\* More evictions, or a later time, only raise an allowance.
LEMMA AllowanceGrows ==
    ASSUME NEW m \in Nat, NEW n \in Nat, m <= n, NEW t \in Nat, NEW l \in Nat, t <= l,
           NEW u \in Int,
           u <= m * PerIp.burst + t * PerIp.refill
    PROVE  u <= n * PerIp.burst + l * PerIp.refill
<1>1. m * PerIp.burst <= n * PerIp.burst /\ m * PerIp.burst \in Nat /\ n * PerIp.burst \in Nat
  BY ConfigsTyped, ProductMonotone
<1>2. t * PerIp.refill <= l * PerIp.refill /\ t * PerIp.refill \in Nat /\ l * PerIp.refill \in Nat
  BY ConfigsTyped, ProductMonotone
<1> QED  BY <1>1, <1>2

\* A challenge that is asked for moves tokens of one bucket to what was taken,
\* and may forget another address's bucket.
LEMMA AllowanceTake ==
    ASSUME AllowanceInv, NEW ip \in Ips, NEW store, Reissue(ip, store), now' = now
    PROVE  BucketAllowance' /\ ForgottenAllowance'
<1> DEFINE take == TryTake(perIp, ip, now, PerIp)
           found == Found(perIp, ip, now, PerIp)
           left == IF take.ok THEN found - Unit ELSE found
           after == perIp'
           victim == Evicted(perIp, now, PerIp)
<1>0. /\ now \in Nat /\ IsLimiter(perIp, Ips, now, PerIp) /\ TypeInv
      /\ \A j \in Ips : taken[j] \in Nat /\ drained[j] \in Nat
      /\ taken \in [Ips -> Nat]
  BY DEF AllowanceInv, TypeInv, SellerTypeOK
<1>1. after = take.lim /\ CountIp(ip, ~take.ok)
  BY DEF Reissue
<1>2. /\ take.ok = (found >= Unit)
      /\ Recharged(perIp, after, ip, Ips, now, PerIp)
      /\ \E i \in DOMAIN after : after[i] = Bucket(ip, left, now)
  BY <1>0, <1>1, ConfigsTyped, TakeEffect
<1>3. found \in Nat
  <2>1. perIp \in Seq(Buckets(Ips, now, PerIp)) /\ Distinct(perIp)
    BY <1>0 DEF IsLimiter, Buckets, Distinct
  <2> QED  BY <1>0, <2>1, ConfigsTyped, FoundInRange
<1>4. taken' = [taken EXCEPT ![ip] = IF ~take.ok THEN @ ELSE @ + 1]
  BY <1>1 DEF CountIp
<1>5. /\ \A j \in Ips : drained'[j] \in Nat /\ drained'[j] >= drained[j]
      /\ IndexOf(perIp, ip) = {} /\ victim # 0 /\ victim \notin Idle(perIp, now, PerIp)
           => drained'[perIp[victim].key] = drained[perIp[victim].key] + 1
  BY <1>0, <1>1, DrainedEffect
<1>6. taken[ip] * Unit + found <= (1 + drained[ip]) * PerIp.burst + now * PerIp.refill
  BY FoundCovered
<1> HIDE DEF take, found, after, victim
<1>7. \A j \in Ips : j # ip => taken'[j] = taken[j]
  BY <1>0, <1>4
<1>8. taken'[ip] \in Nat /\ taken'[ip] * Unit + left = taken[ip] * Unit + found
  <2>1. CASE take.ok
    <3>1. taken'[ip] = taken[ip] + 1 /\ left = found - Unit
      BY <1>0, <1>4, <2>1
    <3>2. (taken[ip] + 1) * Unit = taken[ip] * Unit + Unit /\ taken[ip] * Unit \in Nat
      BY <1>0, ConfigsTyped, ProductNext
    <3> QED  BY <1>0, <1>3, <3>1, <3>2, ConfigsTyped
  <2>2. CASE ~take.ok
    <3>1. taken'[ip] = taken[ip] /\ left = found
      BY <1>0, <1>4, <2>2
    <3> QED  BY <1>0, <3>1
  <2> QED  BY <2>1, <2>2
<1>9. left \in Int
  BY <1>3, ConfigsTyped
<1> HIDE DEF left
<1>10. ASSUME NEW i \in DOMAIN after
       PROVE  taken'[after[i].key] * Unit + after[i].tokens
                <= (1 + drained'[after[i].key]) * PerIp.burst + after[i].last * PerIp.refill
  <2>1. CASE after[i].key = ip
    <3>1. PICK k \in DOMAIN after : after[k] = Bucket(ip, left, now)
      BY <1>2
    <3>2. after[k].key = ip
      BY <3>1 DEF Bucket
    <3>3. i = k
      BY <1>2, <2>1, <3>2 DEF Recharged, Distinct
    <3>4. after[i].tokens = left /\ after[i].last = now
      BY <3>1, <3>3 DEF Bucket
    <3>5. PICK u \in Int : u = taken'[ip] * Unit + left
      BY <1>8, <1>9, ConfigsTyped
    <3>6. u <= (1 + drained[ip]) * PerIp.burst + now * PerIp.refill
      BY <1>6, <1>8, <3>5
    <3>7. 1 + drained[ip] \in Nat /\ 1 + drained'[ip] \in Nat /\ 1 + drained[ip] <= 1 + drained'[ip]
      BY <1>0, <1>5
    <3>8. u <= (1 + drained'[ip]) * PerIp.burst + now * PerIp.refill
      BY <1>0, <3>5, <3>6, <3>7, AllowanceGrows
    <3> QED  BY <2>1, <3>4, <3>5, <3>8
  <2>2. CASE after[i].key # ip
    <3>1. PICK j \in DOMAIN perIp : after[i] = perIp[j]
      BY <1>2, <2>2 DEF Recharged
    <3>2. PICK b : b = perIp[j]
      OBVIOUS
    <3>3. b.key \in Ips /\ b.tokens \in Nat /\ b.last \in Nat
      BY <1>0, <3>2, ConfigsTyped, BucketTyped
    <3>4. PICK u \in Int : u = taken[b.key] * Unit + b.tokens
      BY <1>0, <3>3, ConfigsTyped
    <3>5. u <= (1 + drained[b.key]) * PerIp.burst + b.last * PerIp.refill
      BY <3>2, <3>4 DEF AllowanceInv, BucketAllowance
    <3>6. /\ 1 + drained[b.key] \in Nat /\ 1 + drained'[b.key] \in Nat
          /\ 1 + drained[b.key] <= 1 + drained'[b.key]
      BY <1>0, <1>5, <3>3
    <3>7. u <= (1 + drained'[b.key]) * PerIp.burst + b.last * PerIp.refill
      BY <3>3, <3>4, <3>5, <3>6, AllowanceGrows
    <3> QED  BY <1>7, <2>2, <3>1, <3>2, <3>3, <3>4, <3>7
  <2> QED  BY <2>1, <2>2
<1>11. ASSUME NEW a \in Ips, IndexOf(after, a) = {}
       PROVE  taken'[a] * Unit <= drained'[a] * PerIp.burst + now * PerIp.refill
  <2>1. \A i \in DOMAIN after : after[i].key # a
    BY <1>11 DEF IndexOf
  <2>2. a # ip
    BY <1>2, <2>1 DEF Bucket
  <2>3. taken'[a] = taken[a]
    BY <1>7, <2>2
  <2>4. PICK u \in Nat : u = taken[a] * Unit
    BY <1>0, ConfigsTyped
  <2> SUFFICES u <= drained'[a] * PerIp.burst + now * PerIp.refill
    BY <2>3, <2>4
  <2>5. CASE IndexOf(perIp, a) = {}
    <3>1. u <= drained[a] * PerIp.burst + now * PerIp.refill
      BY <2>4, <2>5 DEF AllowanceInv, ForgottenAllowance
    <3> QED  BY <1>0, <1>5, <3>1, AllowanceGrows
  <2>6. CASE IndexOf(perIp, a) # {}
    <3>1. PICK j \in DOMAIN perIp : perIp[j].key = a
      BY <2>6 DEF IndexOf
    <3>2. IndexOf(perIp, ip) = {} /\ j = victim
      BY <1>2, <2>1, <2>2, <3>1 DEF Recharged, victim
    <3>3. PICK t \in Nat : t = perIp[j].tokens
      BY <1>0, <3>1, ConfigsTyped, BucketTyped
    <3>4. PICK l \in Nat : l = perIp[j].last /\ l <= now
      BY <1>0, <3>1, ConfigsTyped, BucketTyped
    <3>5. u + t <= (1 + drained[a]) * PerIp.burst + l * PerIp.refill
      BY <2>4, <3>1, <3>3, <3>4 DEF AllowanceInv, BucketAllowance
    <3>6. PICK d \in Nat : d = drained[a] * PerIp.burst
      BY <1>0, ConfigsTyped
    <3>7. (1 + drained[a]) * PerIp.burst = d + PerIp.burst
      BY <1>0, <3>6, ConfigsTyped, ProductNext
    <3>8. PICK q \in Nat : q = l * PerIp.refill
      BY <3>4, ConfigsTyped
    <3>9. PICK s \in Nat : s = (now - l) * PerIp.refill /\ q + s = now * PerIp.refill
      BY <1>0, <3>4, <3>8, ConfigsTyped, ProductSplit
    <3>10. u + t <= d + PerIp.burst + q
      BY <3>5, <3>7, <3>8
    <3>11. CASE j \in Idle(perIp, now, PerIp)
      <4>1. t + s >= PerIp.burst
        BY <3>3, <3>4, <3>9, <3>11 DEF Idle
      <4>2. u <= d + (q + s)
        BY <3>10, <4>1, ConfigsTyped
      <4>3. u <= drained[a] * PerIp.burst + now * PerIp.refill
        BY <3>6, <3>9, <4>2
      <4> QED  BY <1>0, <1>5, <4>3, AllowanceGrows
    <3>12. CASE j \notin Idle(perIp, now, PerIp)
      <4>1. j # 0
        <5>1. perIp \in Seq(Buckets(Ips, now, PerIp))
          BY <1>0 DEF IsLimiter, Buckets
        <5> QED  BY <5>1, LenProperties
      <4>2. drained'[a] = drained[a] + 1
        BY <1>5, <3>1, <3>2, <3>12, <4>1
      <4>3. drained'[a] * PerIp.burst = d + PerIp.burst
        BY <1>0, <3>6, <4>2, ConfigsTyped, ProductNext
      <4>4. u <= d + PerIp.burst + (q + s)
        BY <3>10, ConfigsTyped
      <4> QED  BY <3>9, <4>3, <4>4
    <3> QED  BY <3>11, <3>12
  <2> QED  BY <2>5, <2>6
<1>12. BucketAllowance'
  BY <1>10 DEF BucketAllowance, after
<1>13. ForgottenAllowance'
  BY <1>11 DEF ForgottenAllowance, after
<1> QED  BY <1>12, <1>13

\* Every step keeps the account of what addresses have taken.
LEMMA AllowanceStep == AllowanceInv /\ [Next]_vars => AllowanceInv'
<1> SUFFICES ASSUME AllowanceInv, [Next]_vars PROVE AllowanceInv'
  OBVIOUS
<1> USE DEF limits, relayer, history
<1>0. TypeInv' /\ now \in Nat /\ \A j \in Ips : taken[j] \in Nat /\ drained[j] \in Nat
  BY TypeInvStep DEF AllowanceInv, TypeInv, SellerTypeOK
<1>1. ASSUME UNCHANGED <<perIp, taken, drained>>, now' \in Nat, now' >= now
      PROVE  BucketAllowance' /\ ForgottenAllowance'
  <2>1. BucketAllowance'
    BY <1>1 DEF AllowanceInv, BucketAllowance
  <2>2. ASSUME NEW a \in Ips, IndexOf(perIp, a) = {}
        PROVE  taken[a] * Unit <= drained[a] * PerIp.burst + now' * PerIp.refill
    <3>1. PICK u \in Nat : u = taken[a] * Unit
      BY <1>0, ConfigsTyped
    <3>2. u <= drained[a] * PerIp.burst + now * PerIp.refill
      BY <2>2, <3>1 DEF AllowanceInv, ForgottenAllowance
    <3>3. PICK later \in Nat : later = now' /\ later >= now
      BY <1>1
    <3>4. u <= drained[a] * PerIp.burst + later * PerIp.refill
      BY <1>0, <3>2, <3>3, AllowanceGrows
    <3> QED  BY <3>1, <3>3, <3>4
  <2>3. ForgottenAllowance'
    BY <1>1, <2>2 DEF ForgottenAllowance
  <2> QED  BY <2>1, <2>3
<1>2. \/ UNCHANGED <<now, perIp, taken, drained>>
      \/ UNCHANGED <<perIp, taken, drained>> /\ now' = now + 1
      \/ \E ip \in Ips : \E store : Reissue(ip, store) /\ now' = now
  BY DEF Next, vars, Ask, RetryTooLate, RetryStarts, HandlerStep, Verified, Answer,
         Timeout, Settle, Prepare, Recover, Tick
<1>3. BucketAllowance' /\ ForgottenAllowance'
  BY <1>0, <1>1, <1>2, AllowanceTake
<1> QED  BY <1>0, <1>3 DEF AllowanceInv

\* The allowance follows from the invariant, with a bucket or without.
LEMMA AllowanceHolds == AllowanceInv => AllowancePerEviction
<1> SUFFICES ASSUME AllowanceInv, NEW ip \in Ips
             PROVE  taken[ip] * Unit <= (1 + drained[ip]) * PerIp.burst + now * PerIp.refill
  BY DEF AllowancePerEviction
<1> DEFINE found == Found(perIp, ip, now, PerIp)
<1>1. /\ now \in Nat /\ IsLimiter(perIp, Ips, now, PerIp)
      /\ taken[ip] \in Nat /\ drained[ip] \in Nat
  BY DEF AllowanceInv, TypeInv, SellerTypeOK
<1>2. found \in Nat
  <2>1. perIp \in Seq(Buckets(Ips, now, PerIp)) /\ Distinct(perIp)
    BY <1>1 DEF IsLimiter, Buckets, Distinct
  <2>2. found \in 0 .. PerIp.burst
    BY <1>1, <2>1, ConfigsTyped, FoundInRange
  <2> QED  BY <2>2, ConfigsTyped
<1>3. PICK m \in Int : m = (1 + drained[ip]) * PerIp.burst + now * PerIp.refill
  BY <1>1, ConfigsTyped
<1>4. PICK u \in Int : u = taken[ip] * Unit
  BY <1>1, ConfigsTyped
<1>5. u + found <= m
  BY <1>3, <1>4, FoundCovered
<1> HIDE DEF found
<1> QED  BY <1>2, <1>3, <1>4, <1>5

\* For all limits and any number of addresses, an address gets its burst, its
\* refill, and one burst more for each time its bucket was evicted before it
\* was full; evicting a full one costs nothing (evictIfFull of rate-limit.ts).
THEOREM AllowanceBounded == Spec => []AllowancePerEviction
<1>1. Init => AllowanceInv
  <2> SUFFICES ASSUME Init PROVE AllowanceInv
    OBVIOUS
  <2>1. TypeInv
    BY TypeInvInit
  <2>2. BucketAllowance
    <3>1. DOMAIN perIp = {}
      BY DEF Init
    <3> QED  BY <3>1 DEF BucketAllowance
  <2>3. ForgottenAllowance
    BY ConfigsTyped DEF Init, ForgottenAllowance
  <2> QED  BY <2>1, <2>2, <2>3 DEF AllowanceInv
<1> QED  BY <1>1, AllowanceStep, AllowanceHolds, PTL DEF Spec
-----------------------------------------------------------------------------
(* Room for every buyer.                                                    *)

\* The open challenges issued at t or later.
IssuedFrom(store, t) ==
    {c \in Challenges : IsOpen(store, c) /\ store[c].expires >= t + Ttl}

\* What the global limiter lets through from t on is at most its burst and what
\* has refilled since: issued challenges and tokens left together.
IssuedWithinLimit ==
    \A t \in Int :
        \/ IssuedFrom(open, t) = {}
        \/ \E i \in DOMAIN overall :
             /\ t <= overall[i].last
             /\ Cardinality(IssuedFrom(open, t)) * Unit + overall[i].tokens
                  <= Overall.burst + (overall[i].last - t) * Overall.refill

RoomInv == TypeInv /\ IssuedWithinLimit /\ RoomForBuyers

\* Challenges can be counted.
LEMMA IssuedFinite ==
    ASSUME NEW store, NEW t
    PROVE  /\ IsFiniteSet(IssuedFrom(store, t)) /\ Cardinality(IssuedFrom(store, t)) \in Nat
           /\ IsFiniteSet(Challenges)
<1>1. IsFiniteSet(Challenges)
  <2>1. 1 \in Int /\ LastChallenge \in Int
    BY SellerAssumption
  <2> QED  BY <2>1, FS_Interval DEF Challenges
<1>2. IssuedFrom(store, t) \in SUBSET Challenges
  BY DEF IssuedFrom
<1> QED  BY <1>1, <1>2, FS_Subset, FS_CardinalityType

\* There is one bucket of the global limiter.
LEMMA OneGlobalBucket ==
    ASSUME TypeInv, NEW i \in DOMAIN overall, NEW j \in DOMAIN overall
    PROVE  i = j /\ i \in IndexOf(overall, "global")
<1>1. IsLimiter(overall, {"global"}, now, Overall) /\ now \in Nat
  BY DEF TypeInv, SellerTypeOK
<1>2. overall[i].key \in {"global"} /\ overall[j].key \in {"global"}
  BY <1>1, ConfigsTyped, BucketTyped
<1> QED  BY <1>1, <1>2 DEF IsLimiter, IndexOf

\* The tokens a request finds, with the challenges issued from t on, are within
\* the burst and the refill since t.
LEMMA IssuedAndFound ==
    ASSUME RoomInv, NEW t \in Int, t <= now
    PROVE  Cardinality(IssuedFrom(open, t)) * Unit + Found(overall, "global", now, Overall)
             <= Overall.burst + (now - t) * Overall.refill
<1> DEFINE found == Found(overall, "global", now, Overall)
           n == Cardinality(IssuedFrom(open, t))
<1>0. /\ now \in Nat /\ IsLimiter(overall, {"global"}, now, Overall) /\ TypeInv
  BY DEF RoomInv, TypeInv, SellerTypeOK
<1>1. overall \in Seq(Buckets({"global"}, now, Overall)) /\ Distinct(overall)
  BY <1>0 DEF IsLimiter, Buckets, Distinct
<1>2. "global" \in {"global"}
  OBVIOUS
<1>3. found \in 0 .. Overall.burst
  BY <1>0, <1>1, <1>2, ConfigsTyped, FoundInRange
<1>4. n \in Nat
  BY IssuedFinite
<1>5. PICK r \in Nat : r = (now - t) * Overall.refill
  <2>1. now - t \in Nat
    BY <1>0
  <2> QED  BY <2>1, ConfigsTyped
<1> SUFFICES n * Unit + found <= Overall.burst + r
  BY <1>5
<1>6. CASE IssuedFrom(open, t) = {}
  <2>1. n = 0
    BY <1>6, FS_EmptySet
  <2> HIDE DEF n, found
  <2> QED  BY <1>3, <2>1, ConfigsTyped
<1>7. CASE IssuedFrom(open, t) # {}
  <2>1. PICK i \in DOMAIN overall :
          /\ t <= overall[i].last
          /\ n * Unit + overall[i].tokens
               <= Overall.burst + (overall[i].last - t) * Overall.refill
    BY <1>7 DEF RoomInv, IssuedWithinLimit
  <2>2. i \in IndexOf(overall, "global")
    BY <1>0, OneGlobalBucket
  <2>3. PICK k \in Nat : k = overall[i].tokens
    BY <1>0, ConfigsTyped, BucketTyped
  <2>4. PICK l \in Nat : l = overall[i].last /\ l <= now
    BY <1>0, ConfigsTyped, BucketTyped
  <2>5. found <= k + (now - l) * Overall.refill
    BY <1>0, <1>1, <1>2, <2>2, <2>3, <2>4, ConfigsTyped, FoundInRange
  <2>6. PICK s \in Nat : s = (now - l) * Overall.refill
    BY <1>0, <2>4, ConfigsTyped, ProductSplit
  <2>7. PICK q \in Nat : q = (l - t) * Overall.refill
    <3>1. l - t \in Nat
      BY <2>1, <2>4
    <3> QED  BY <3>1, ConfigsTyped
  <2>8. q + s = r
    <3>1. PICK a \in Nat : a = l - t
      BY <2>1, <2>4
    <3>2. PICK b \in Nat : b = now - t /\ a <= b /\ b - a = now - l
      BY <1>0, <2>4, <3>1
    <3>3. a * Overall.refill + (b - a) * Overall.refill = b * Overall.refill
      BY <3>1, <3>2, ConfigsTyped, ProductSplit
    <3> QED  BY <1>5, <2>6, <2>7, <3>1, <3>2, <3>3
  <2>9. PICK m \in Nat : m = n * Unit
    BY <1>4, ConfigsTyped
  <2>10. m + k <= Overall.burst + q
    BY <2>1, <2>3, <2>4, <2>7, <2>9
  <2> HIDE DEF n, found
  <2>11. m + found <= Overall.burst + r
    BY <1>3, <2>5, <2>6, <2>8, <2>10, ConfigsTyped
  <2> QED  BY <2>9, <2>11
<1> QED  BY <1>6, <1>7

\* At most one challenge per handler is being settled.
LEMMA SettlingBounded ==
    ASSUME LockInv
    PROVE  LET S == {c \in Challenges : open[c].settling}
           IN  IsFiniteSet(S) /\ Cardinality(S) <= Cardinality(Handlers)
<1> DEFINE S == {c \in Challenges : open[c].settling}
           f == [c \in S |-> CHOOSE h \in Handlers : Busy(h) /\ handler[h].challenge = c]
<1>1. ASSUME NEW c \in S
      PROVE  f[c] \in Handlers /\ handler[f[c]].challenge = c
  <2>1. \E h \in Handlers : Busy(h) /\ handler[h].challenge = c
    BY DEF LockInv, SettlingExclusive
  <2> QED  BY <2>1
<1>2. f \in Injection(S, Handlers)
  <2>1. f \in [S -> Handlers]
    BY <1>1
  <2>2. \A a, b \in S : f[a] = f[b] => a = b
    <3>1. \A c \in S : handler[f[c]].challenge = c
      BY <1>1
    <3> HIDE DEF f, S
    <3> QED  BY <3>1
  <2> HIDE DEF f, S
  <2> QED  BY <2>1, <2>2 DEF Injection, IsInjective
<1>3. IsFiniteSet(Handlers)
  BY SellerAssumption
<1> HIDE DEF f, S
<1>4. IsFiniteSet(S) /\ Cardinality(S) <= Cardinality(Handlers)
  BY <1>2, <1>3, FS_Injection
<1> QED  BY <1>4 DEF S

\* What pruning, and turning a challenge away, leave in the store: challenges
\* still valid, and challenges that are being settled.
Pruned(store) ==
    \A c \in Challenges :
        IsOpen(store, c) => /\ store[c] = open[c]
                            /\ open[c].settling \/ open[c].expires > now

\* Pruning and closing only take challenges out of the store.
LEMMA StorePruned ==
    ASSUME TypeInv
    PROVE  /\ Pruned(PruneExpired)
           /\ \A c \in Challenges : Pruned([PruneExpired EXCEPT ![c] = Closed])
<1>0. now \in Int /\ \A c \in Challenges : open[c].expires \in Int
  BY DEF TypeInv, SellerTypeOK
<1>1. ASSUME NEW c \in Challenges
      PROVE  PruneExpired[c] = IF open[c].expires <= now /\ ~open[c].settling
                                 THEN Closed ELSE open[c]
  BY DEF PruneExpired
<1>2. Closed.expires = 0
  BY DEF Closed
<1>3. Pruned(PruneExpired)
  BY <1>0, <1>1, <1>2 DEF Pruned, IsOpen
<1>4. ASSUME NEW c \in Challenges PROVE Pruned([PruneExpired EXCEPT ![c] = Closed])
  <2>1. \A d \in Challenges : [PruneExpired EXCEPT ![c] = Closed][d]
                                = IF d = c THEN Closed ELSE PruneExpired[d]
    BY DEF PruneExpired
  <2> QED  BY <1>2, <1>3, <2>1 DEF Pruned, IsOpen
<1> QED  BY <1>3, <1>4

\* Whenever the global limiter lets a request through, there is room.
LEMMA RoomWhenFound ==
    ASSUME RoomInv, NEW store, Pruned(store),
           Found(overall, "global", now, Overall) >= Unit
    PROVE  Cardinality({c \in Challenges : IsOpen(store, c)}) < MaxOpen
<1> DEFINE All == {c \in Challenges : IsOpen(store, c)}
           t == now + 1 - Ttl
           Valid == IssuedFrom(open, t)
           Locked == {c \in Challenges : open[c].settling}
           found == Found(overall, "global", now, Overall)
           n == Cardinality(Valid)
           s == Cardinality(Locked)
           H == Cardinality(Handlers)
           m == Cardinality(All)
<1>0. /\ now \in Nat /\ LockInv /\ \A c \in Challenges : open[c].expires \in Int
      /\ IsLimiter(overall, {"global"}, now, Overall)
  BY DEF RoomInv, TypeInv, SellerTypeOK
<1>1. IsFiniteSet(Valid) /\ n \in Nat /\ IsFiniteSet(Challenges)
  BY IssuedFinite
<1>2. IsFiniteSet(Locked) /\ s <= H
  BY <1>0, SettlingBounded
<1>3. s \in Nat /\ H \in Nat
  BY <1>2, SellerAssumption, FS_CardinalityType
<1>4. All \subseteq Valid \cup Locked
  <2>1. t + Ttl = now + 1
    BY <1>0, ConfigsTyped
  <2>2. ASSUME NEW c \in All, c \notin Locked PROVE c \in Valid
    <3>1. IsOpen(open, c) /\ open[c].expires > now
      BY <2>2 DEF Pruned, IsOpen
    <3>2. open[c].expires >= now + 1
      BY <1>0, <3>1
    <3> HIDE DEF t
    <3> QED  BY <2>1, <2>2, <3>1, <3>2 DEF IssuedFrom
  <2> QED  BY <2>2
<1>5. m <= n + s /\ m \in Nat
  <2>1. /\ IsFiniteSet(Valid \cup Locked)
        /\ Cardinality(Valid \cup Locked) = n + s - Cardinality(Valid \cap Locked)
    BY <1>1, <1>2, FS_Union
  <2>2. Cardinality(Valid \cap Locked) \in Nat
    BY <1>1, FS_Intersection, FS_CardinalityType
  <2>3. IsFiniteSet(All) /\ m <= Cardinality(Valid \cup Locked)
    BY <1>4, <2>1, FS_Subset
  <2>4. m \in Nat
    BY <2>3, FS_CardinalityType
  <2> HIDE DEF m, n, s
  <2> QED  BY <1>1, <1>3, <2>1, <2>2, <2>3, <2>4
<1>6. n * Unit + found <= Overall.burst + (Ttl - 1) * Overall.refill
  <2>1. t \in Int /\ t <= now /\ now - t = Ttl - 1
    BY <1>0, ConfigsTyped
  <2>2. n * Unit + found <= Overall.burst + (now - t) * Overall.refill
    BY <2>1, IssuedAndFound
  <2> HIDE DEF n, found, t
  <2> QED  BY <2>1, <2>2
<1>7. found \in Nat
  <2>1. overall \in Seq(Buckets({"global"}, now, Overall)) /\ Distinct(overall)
    BY <1>0 DEF IsLimiter, Buckets, Distinct
  <2>2. "global" \in {"global"}
    OBVIOUS
  <2>3. found \in 0 .. Overall.burst
    BY <1>0, <2>1, <2>2, ConfigsTyped, FoundInRange
  <2> QED  BY <2>3, ConfigsTyped
<1> HIDE DEF n, s, H, m, found, All
<1>8. MaxOpen * Unit >= Overall.burst + (Ttl - 1) * Overall.refill + H * Unit
  BY SellerAssumption DEF H
<1>9. PICK r \in Nat : r = (Ttl - 1) * Overall.refill
  <2>1. Ttl - 1 \in Nat
    BY ConfigsTyped
  <2> QED  BY <2>1, ConfigsTyped
<1>10. PICK a \in Nat : a = n * Unit
  BY <1>1, ConfigsTyped
<1>11. PICK b \in Nat : b = H * Unit
  BY <1>3, ConfigsTyped
<1>12. (n + 1 + H) * Unit = a + Unit + b
  BY <1>1, <1>3, <1>10, <1>11, ConfigsTyped
<1>13. PICK x \in Nat : x = MaxOpen * Unit
  BY ConfigsTyped
<1>14. (n + 1 + H) * Unit <= x
  BY <1>6, <1>7, <1>8, <1>9, <1>10, <1>11, <1>12, <1>13, ConfigsTyped DEF found
<1>15. n + 1 + H <= MaxOpen
  <2> SUFFICES ASSUME n + 1 + H >= MaxOpen + 1 PROVE FALSE
    BY <1>1, <1>3, ConfigsTyped
  <2>1. PICK k \in Nat : k = n + 1 + H
    BY <1>1, <1>3
  <2>2. (MaxOpen + 1) * Unit <= k * Unit
    BY <2>1, ConfigsTyped, ProductMonotone
  <2>3. (MaxOpen + 1) * Unit = x + Unit
    BY <1>13, ConfigsTyped, ProductNext
  <2>4. k * Unit <= x /\ k * Unit \in Int
    BY <1>14, <2>1, ConfigsTyped
  <2> QED  BY <2>2, <2>3, <2>4, ConfigsTyped
<1> QED  BY <1>1, <1>2, <1>3, <1>5, <1>15, ConfigsTyped DEF m, All

\* Issuing a challenge spends the tokens it found; closing some spends nothing.
LEMMA LimitAfterTake ==
    ASSUME RoomInv, NEW ip \in Ips, NEW store, DOMAIN store = Challenges,
           Pruned(store), Reissue(ip, store), now' = now
    PROVE  IssuedWithinLimit' /\ RoomForBuyers'
<1> DEFINE take == TryTake(overall, "global", now, Overall)
           found == Found(overall, "global", now, Overall)
           left == IF take.ok THEN found - Unit ELSE found
           new == [expires |-> now + Ttl, settling |-> FALSE]
           full == Cardinality({c \in Challenges : IsOpen(store, c)}) >= MaxOpen
           mine == TryTake(perIp, ip, now, PerIp).ok
<1>0. /\ now \in Nat /\ IsLimiter(overall, {"global"}, now, Overall) /\ TypeInv
      /\ \A c \in Challenges : open[c].expires \in Int
      /\ "global" \in {"global"}
  BY DEF RoomInv, TypeInv, SellerTypeOK
<1>1. /\ take.ok = (found >= Unit)
      /\ \E i \in DOMAIN take.lim : take.lim[i] = Bucket("global", left, now)
  <2> DEFINE key  == "global"
             keys == {"global"}
             t    == TryTake(overall, key, now, Overall)
             f    == Found(overall, key, now, Overall)
             l    == IF t.ok THEN f - Unit ELSE f
  <2>1. key \in keys /\ IsLimiter(overall, keys, now, Overall)
    BY <1>0
  <2>2. t.ok = (f >= Unit) /\ \E i \in DOMAIN t.lim : t.lim[i] = Bucket(key, l, now)
    <3> HIDE DEF key, keys
    <3> QED  BY <1>0, <2>1, ConfigsTyped, TakeEffect
  <2> QED  BY <2>2
<1>2. found \in Nat
  <2>1. overall \in Seq(Buckets({"global"}, now, Overall)) /\ Distinct(overall)
    BY <1>0 DEF IsLimiter, Buckets, Distinct
  <2>2. found \in 0 .. Overall.burst
    BY <1>0, <2>1, ConfigsTyped, FoundInRange
  <2> QED  BY <2>2, ConfigsTyped
<1>3. take.ok => ~full
  <2> DEFINE All == {c \in Challenges : IsOpen(store, c)}
  <2>1. All \in SUBSET Challenges
    OBVIOUS
  <2> HIDE DEF All
  <2>2. Cardinality(All) \in Nat
    BY <2>1, IssuedFinite, FS_Subset, FS_CardinalityType
  <2>3. take.ok => Cardinality(All) < MaxOpen
    BY <1>1, RoomWhenFound DEF All
  <2> QED  BY <2>2, <2>3, ConfigsTyped DEF All
<1>4. RoomForBuyers'
  <2>1. refused' = (refused \/ (mine /\ take.ok /\ full))
    BY DEF Reissue
  <2> QED  BY <1>3, <2>1 DEF RoomInv, RoomForBuyers
<1>5. \/ open' = store /\ overall' = overall
      \/ open' = store /\ overall' = take.lim
      \/ /\ overall' = take.lim /\ take.ok
         /\ open' = [store EXCEPT ![issued + 1] = new]
  <2>1. overall' = IF mine THEN take.lim ELSE overall
    BY DEF Reissue
  <2>2. \/ open' = store
        \/ mine /\ take.ok /\ open' = [store EXCEPT ![issued + 1] = new]
    BY DEF Reissue
  <2> QED  BY <2>1, <2>2
<1>6. \A t \in Int : IssuedFrom(store, t) \subseteq IssuedFrom(open, t)
  BY DEF IssuedFrom, Pruned, IsOpen
<1>7. \A t \in Int : /\ Cardinality(IssuedFrom(store, t)) <= Cardinality(IssuedFrom(open, t))
                     /\ Cardinality(IssuedFrom(store, t)) \in Nat
                     /\ Cardinality(IssuedFrom(open, t)) \in Nat
  BY <1>6, IssuedFinite, FS_Subset
<1> HIDE DEF take, found, full, mine, new
<1>8. ASSUME NEW t \in Int, NEW after, after = open', NEW lim, lim = overall',
             IssuedFrom(after, t) # {}
      PROVE  \E i \in DOMAIN lim :
               /\ t <= lim[i].last
               /\ Cardinality(IssuedFrom(after, t)) * Unit + lim[i].tokens
                    <= Overall.burst + (lim[i].last - t) * Overall.refill
  <2> DEFINE n == Cardinality(IssuedFrom(open, t))
             m == Cardinality(IssuedFrom(after, t))
  <2>0. n \in Nat /\ m \in Nat /\ left \in Int
    BY <1>2, IssuedFinite, ConfigsTyped
  <2>1. IssuedFrom(open, t) # {} =>
          \E i \in DOMAIN overall :
             /\ t <= overall[i].last
             /\ n * Unit + overall[i].tokens
                  <= Overall.burst + (overall[i].last - t) * Overall.refill
    BY DEF RoomInv, IssuedWithinLimit
  <2>2. ASSUME NEW i \in DOMAIN overall
        PROVE  /\ overall[i].tokens \in Nat /\ overall[i].last \in Nat
               /\ overall[i].last <= now
    BY <1>0, ConfigsTyped, BucketTyped
  <2>3. CASE after = store /\ lim = overall
    <3>1. PICK i \in DOMAIN overall :
             /\ t <= overall[i].last
             /\ n * Unit + overall[i].tokens
                  <= Overall.burst + (overall[i].last - t) * Overall.refill
      BY <1>6, <1>8, <2>1, <2>3
    <3>2. PICK k \in Nat : k = overall[i].tokens
      BY <2>2
    <3>3. PICK r \in Int : r = Overall.burst + (overall[i].last - t) * Overall.refill
      BY <2>2, ConfigsTyped
    <3>4. m <= n
      BY <1>7, <2>3
    <3>5. m * Unit <= n * Unit /\ m * Unit \in Nat /\ n * Unit \in Nat
      BY <2>0, <3>4, ConfigsTyped, ProductMonotone
    <3>6. m * Unit + k <= r
      <4> HIDE DEF m, n
      <4> QED  BY <3>1, <3>2, <3>3, <3>5
    <3> QED  BY <2>3, <3>1, <3>2, <3>3, <3>6
  <2>4. ASSUME lim = take.lim, t <= now, m * Unit + left <= n * Unit + found
        PROVE  \E i \in DOMAIN lim :
                 /\ t <= lim[i].last
                 /\ m * Unit + lim[i].tokens
                      <= Overall.burst + (lim[i].last - t) * Overall.refill
    <3>1. PICK i \in DOMAIN lim : lim[i] = Bucket("global", left, now)
      BY <1>1, <2>4
    <3>2. lim[i].tokens = left /\ lim[i].last = now
      BY <3>1 DEF Bucket
    <3>3. n * Unit + found <= Overall.burst + (now - t) * Overall.refill
      BY <2>4, IssuedAndFound DEF found
    <3>4. PICK r \in Int : r = Overall.burst + (now - t) * Overall.refill
      BY <1>0, ConfigsTyped
    <3>5. PICK a \in Int : a = m * Unit + left
      BY <2>0, ConfigsTyped
    <3>6. PICK b \in Int : b = n * Unit + found
      BY <1>2, <2>0, ConfigsTyped
    <3>7. a <= r
      <4>1. a <= b
        BY <2>4, <3>5, <3>6
      <4>2. b <= r
        BY <3>3, <3>4, <3>6
      <4> QED  BY <4>1, <4>2
    <3>8. /\ t <= lim[i].last
          /\ m * Unit + lim[i].tokens
               <= Overall.burst + (lim[i].last - t) * Overall.refill
      BY <2>4, <3>2, <3>4, <3>5, <3>7
    <3> QED  BY <3>8
  <2>5. CASE after = store /\ lim = take.lim
    <3>1. t <= now
      <4>1. PICK i \in DOMAIN overall : t <= overall[i].last
        BY <1>6, <1>8, <2>1, <2>5
      <4> QED  BY <1>0, <2>2, <4>1
    <3>2. m <= n
      BY <1>7, <2>5
    <3>3. m * Unit <= n * Unit /\ m * Unit \in Nat /\ n * Unit \in Nat
      BY <2>0, <3>2, ConfigsTyped, ProductMonotone
    <3>4. left <= found
      BY <1>2, ConfigsTyped
    <3>5. m * Unit + left <= n * Unit + found
      <4> HIDE DEF m, n, left
      <4> QED  BY <1>2, <2>0, <3>3, <3>4
    <3> QED  BY <2>4, <2>5, <3>1, <3>5
  <2>6. CASE /\ lim = take.lim /\ take.ok
             /\ after = [store EXCEPT ![issued + 1] = new]
    <3>1. IssuedFrom(after, t) \subseteq IssuedFrom(store, t) \cup {issued + 1}
      <4>1. \A c \in Challenges : c # issued + 1 => after[c] = store[c]
        BY <2>6
      <4> QED  BY <4>1 DEF IssuedFrom, IsOpen
    <3>2. t <= now
      <4>1. CASE IssuedFrom(open, t) # {}
        <5>1. PICK i \in DOMAIN overall : t <= overall[i].last
          BY <2>1, <4>1
        <5> QED  BY <1>0, <2>2, <5>1
      <4>2. CASE IssuedFrom(open, t) = {}
        <5>1. IssuedFrom(after, t) = {issued + 1}
          BY <1>6, <1>8, <3>1, <4>2
        <5>2. issued + 1 \in Challenges /\ after[issued + 1].expires >= t + Ttl
          BY <5>1 DEF IssuedFrom
        <5>3. issued + 1 \in DOMAIN store => after[issued + 1] = new
          BY <2>6
        <5>4. new.expires = now + Ttl
          BY DEF new
        <5>5. issued + 1 \in DOMAIN store
          BY <5>2
        <5> QED  BY <1>0, <5>2, <5>3, <5>4, <5>5, ConfigsTyped
      <4> QED  BY <4>1, <4>2
    <3>3. m <= n + 1
      <4>1. /\ IsFiniteSet(IssuedFrom(store, t))
            /\ Cardinality(IssuedFrom(store, t)) \in Nat
        BY IssuedFinite
      <4>2. /\ IsFiniteSet(IssuedFrom(store, t) \cup {issued + 1})
            /\ Cardinality(IssuedFrom(store, t) \cup {issued + 1})
                 <= Cardinality(IssuedFrom(store, t)) + 1
        <5> DEFINE S == IssuedFrom(store, t)
                   x == issued + 1
        <5> HIDE DEF S, x
        <5>1. /\ IsFiniteSet(S \cup {x})
              /\ Cardinality(S \cup {x})
                   = IF x \in S THEN Cardinality(S) ELSE Cardinality(S) + 1
          BY <4>1, FS_AddElement DEF S
        <5>2. Cardinality(S \cup {x}) <= Cardinality(S) + 1
          BY <4>1, <5>1 DEF S
        <5> QED  BY <5>1, <5>2 DEF S, x
      <4>3. m <= Cardinality(IssuedFrom(store, t) \cup {issued + 1})
        BY <3>1, <4>2, FS_Subset
      <4>4. Cardinality(IssuedFrom(store, t) \cup {issued + 1}) \in Nat
        BY <4>2, FS_CardinalityType
      <4>5. Cardinality(IssuedFrom(store, t)) <= n
        BY <1>7
      <4> HIDE DEF m, n
      <4> QED  BY <2>0, <4>1, <4>2, <4>3, <4>4, <4>5
    <3>4. m * Unit <= (n + 1) * Unit /\ m * Unit \in Nat
      BY <2>0, <3>3, ConfigsTyped, ProductMonotone
    <3>5. (n + 1) * Unit = n * Unit + Unit /\ n * Unit \in Nat
      BY <2>0, ConfigsTyped, ProductNext
    <3>6. left = found - Unit
      BY <2>6
    <3>7. m * Unit + left <= n * Unit + found
      <4> HIDE DEF m, n, left
      <4> QED  BY <1>2, <3>4, <3>5, <3>6, ConfigsTyped
    <3> QED  BY <2>4, <2>6, <3>2, <3>7
  <2> HIDE DEF m, n
  <2> QED  BY <1>5, <1>8, <2>3, <2>5, <2>6 DEF m
<1>9. IssuedWithinLimit'
  BY <1>8 DEF IssuedWithinLimit, IssuedFrom, IsOpen, Challenges
<1> QED  BY <1>4, <1>9

\* Steps that issue nothing close challenges at most.
LEMMA LimitKept ==
    ASSUME RoomInv, UNCHANGED <<overall, refused>>,
           \A c \in Challenges : IsOpen(open', c) => open'[c].expires = open[c].expires
    PROVE  IssuedWithinLimit' /\ RoomForBuyers'
<1>0. now \in Nat /\ IsLimiter(overall, {"global"}, now, Overall)
  BY DEF RoomInv, TypeInv, SellerTypeOK
<1>1. ASSUME NEW t \in Int, NEW after, after = open', IssuedFrom(after, t) # {}
      PROVE  \E i \in DOMAIN overall :
               /\ t <= overall[i].last
               /\ Cardinality(IssuedFrom(after, t)) * Unit + overall[i].tokens
                    <= Overall.burst + (overall[i].last - t) * Overall.refill
  <2> DEFINE n == Cardinality(IssuedFrom(open, t))
             m == Cardinality(IssuedFrom(after, t))
  <2>1. IssuedFrom(after, t) \subseteq IssuedFrom(open, t)
    BY <1>1 DEF IssuedFrom, IsOpen
  <2>2. n \in Nat /\ m \in Nat /\ m <= n
    BY <2>1, IssuedFinite, FS_Subset
  <2>3. PICK i \in DOMAIN overall :
           /\ t <= overall[i].last
           /\ n * Unit + overall[i].tokens
                <= Overall.burst + (overall[i].last - t) * Overall.refill
    BY <1>1, <2>1 DEF RoomInv, IssuedWithinLimit
  <2>4. PICK k \in Nat : k = overall[i].tokens
    BY <1>0, ConfigsTyped, BucketTyped
  <2>5. overall[i].last \in Nat
    BY <1>0, ConfigsTyped, BucketTyped
  <2>6. PICK r \in Int : r = Overall.burst + (overall[i].last - t) * Overall.refill
    BY <2>5, ConfigsTyped
  <2>7. m * Unit <= n * Unit /\ m * Unit \in Nat /\ n * Unit \in Nat
    BY <2>2, ConfigsTyped, ProductMonotone
  <2>8. m * Unit + k <= r
    <3> HIDE DEF m, n
    <3> QED  BY <2>3, <2>4, <2>6, <2>7
  <2> QED  BY <2>3, <2>4, <2>6, <2>8
<1>2. IssuedWithinLimit'
  BY <1>1 DEF IssuedWithinLimit, IssuedFrom, IsOpen, Challenges
<1> QED  BY <1>2 DEF RoomInv, RoomForBuyers

\* Every step keeps the room for buyers.
LEMMA RoomStep == RoomInv /\ [Next]_vars => RoomInv'
<1> SUFFICES ASSUME RoomInv, [Next]_vars PROVE RoomInv'
  OBVIOUS
<1> USE DEF limits, relayer, history
<1>0. /\ TypeInv /\ TypeInv'
      /\ open \in [Challenges -> [expires : Nat, settling : BOOLEAN]]
  BY TypeInvStep DEF RoomInv, TypeInv, SellerTypeOK
<1> SUFFICES IssuedWithinLimit' /\ RoomForBuyers'
  BY <1>0 DEF RoomInv
<1>1. DOMAIN PruneExpired = Challenges
  BY DEF PruneExpired
<1>2. ASSUME NEW ip \in Ips, Ask(ip) PROVE IssuedWithinLimit' /\ RoomForBuyers'
  BY <1>0, <1>1, <1>2, StorePruned, LimitAfterTake DEF Ask
<1>3. ASSUME NEW ip \in Ips, NEW p \in Payments, NEW c \in Challenges,
             RetryTooLate(ip, p, c)
      PROVE  IssuedWithinLimit' /\ RoomForBuyers'
  <2> DEFINE store == [PruneExpired EXCEPT ![c] = Closed]
  <2>1. Reissue(ip, store) /\ now' = now
    BY <1>3 DEF RetryTooLate
  <2>2. DOMAIN store = Challenges /\ Pruned(store)
    BY <1>0, <1>1, StorePruned
  <2> HIDE DEF store
  <2> QED  BY <2>1, <2>2, LimitAfterTake
<1>4. ASSUME NEW h \in Handlers, NEW p \in Payments, NEW c \in Challenges,
             RetryStarts(h, p, c)
      PROVE  IssuedWithinLimit' /\ RoomForBuyers'
  <2> DEFINE store == PruneExpired
  <2>1. /\ open' = [store EXCEPT ![c].settling = TRUE]
        /\ UNCHANGED <<overall, refused>>
    BY <1>4 DEF RetryStarts
  <2>2. \A d \in Challenges : store[d] = open[d] \/ store[d] = Closed
    BY DEF PruneExpired
  <2>3. \A d \in Challenges : store[d] \in [expires : Nat, settling : BOOLEAN]
    <3>1. Closed \in [expires : Nat, settling : BOOLEAN]
      BY DEF Closed
    <3> HIDE DEF store
    <3> QED  BY <1>0, <2>2, <3>1
  <2>4. \A d \in Challenges : open'[d].expires = store[d].expires
    <3> HIDE DEF store
    <3> QED  BY <1>1, <2>1, <2>3 DEF store
  <2>5. \A d \in Challenges : IsOpen(open', d) => open'[d].expires = open[d].expires
    <3> HIDE DEF store
    <3> QED  BY <2>2, <2>4 DEF IsOpen, Closed
  <2> QED  BY <2>1, <2>5, LimitKept
<1>5. ASSUME NEW h \in Handlers, Release(h), UNCHANGED <<overall, refused>>
      PROVE  IssuedWithinLimit' /\ RoomForBuyers'
  <2>1. open' = [open EXCEPT ![handler[h].challenge].settling = FALSE]
    BY <1>5 DEF Release
  <2>2. \A d \in Challenges : open'[d].expires = open[d].expires
    BY <1>0, <2>1
  <2> QED  BY <1>5, <2>2, LimitKept
<1>6. ASSUME UNCHANGED <<open, overall, refused>>
      PROVE  IssuedWithinLimit' /\ RoomForBuyers'
  BY <1>6, LimitKept
<1>7. \/ UNCHANGED <<open, overall, refused>>
      \/ \E h \in Handlers : Release(h) /\ UNCHANGED <<overall, refused>>
      \/ \E h \in Handlers, p \in Payments, c \in Challenges : RetryStarts(h, p, c)
      \/ \E ip \in Ips : Ask(ip)
      \/ \E ip \in Ips, p \in Payments, c \in Challenges : RetryTooLate(ip, p, c)
  BY DEF Next, vars, HandlerStep, Verified, Answer, Timeout, Settle, Prepare, Recover,
         Tick
<1> QED  BY <1>2, <1>3, <1>4, <1>5, <1>6, <1>7

\* For every limit, lifetime and number of handlers for which the store holds
\* one lifetime of the global limit (SellerAssumption, MAX_OPEN_CHALLENGES), no
\* buyer the limiters let through is refused for want of room.
THEOREM AlwaysRoomForBuyers == Spec => []RoomForBuyers
<1>1. Init => RoomInv
  <2> SUFFICES ASSUME Init PROVE RoomInv
    OBVIOUS
  <2>1. \A t \in Int : IssuedFrom(open, t) = {}
    BY DEF Init, IssuedFrom, IsOpen, Closed
  <2> QED  BY <2>1, TypeInvInit DEF Init, RoomInv, IssuedWithinLimit, RoomForBuyers
<1>2. RoomInv => RoomForBuyers
  BY DEF RoomInv
<1> QED  BY <1>1, <1>2, RoomStep, PTL DEF Spec
=============================================================================
