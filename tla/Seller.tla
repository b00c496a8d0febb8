------------------------------- MODULE Seller -------------------------------
(***************************************************************************)
(* A paid resource: the seller process (demo/seller.ts) with its gate      *)
(* (src/x402/seller.ts), the limiters in front of its challenges, and the  *)
(* relayer's /verify and /settle (src/domain/payment-service.ts), which    *)
(* Settlement models in detail and which here only keep the statuses.      *)
(*                                                                         *)
(* A challenge is one priced request: its number stands for the            *)
(* sellerRequestId and for the binding hash of everything it is priced by. *)
(***************************************************************************)
EXTENDS Limiter, FiniteSets

CONSTANTS
    Ips,                \* client addresses
    Handlers,           \* requests the seller serves at a time
    Ttl,                \* lifetime of a challenge, maxTimeoutSeconds
    MaxOpen,            \* MAX_OPEN_CHALLENGES
    PerIp, Overall,     \* the configurations of the two limiters
    LastTime,           \* bound on the clock
    LastChallenge,      \* bound on the challenges issued
    LastPayment,        \* bound on the payments prepared
    MaxDrained          \* bound on evictions of one address's bucket

LimiterConfigs == [burst : Nat \ {0}, refill : Nat \ {0}, keys : Nat \ {0}]

\* The store has room for every challenge the global limiter lets through in
\* one lifetime, and for one request in progress per handler.
ASSUME SellerAssumption ==
    /\ {Ttl, MaxOpen} \subseteq Nat \ {0}
    /\ {LastTime, LastChallenge, LastPayment, MaxDrained} \subseteq Nat
    /\ {PerIp, Overall} \subseteq LimiterConfigs
    /\ IsFiniteSet(Handlers)
    /\ MaxOpen * Unit >= Overall.burst + (Ttl - 1) * Overall.refill
                         + Cardinality(Handlers) * Unit

VARIABLES
    now,        \* the clock
    perIp,      \* perIpChallengeLimiter
    overall,    \* globalChallengeLimiter
    open,       \* openChallenges
    issued,     \* the challenges issued so far are 1 .. issued
    handler,    \* handler[h]: the request in progress
    payment,    \* payment[p]: the relayer's record
    inbox,      \* /settle calls the relayer has not processed, <<p, c>>
    delivered,  \* history: challenges whose content was sent
    invited,    \* history: payments whose retry was answered by a new challenge
    refused,    \* history: a challenge was refused for want of room
    taken,      \* history: challenges counted against each address
    drained     \* history: evictions of a bucket of that address that was not full

limits   == <<perIp, overall, refused, taken, drained>>
relayer  == <<payment, inbox>>
history  == <<delivered, invited>>
vars == <<now, open, issued, handler, limits, relayer, history>>

Challenges == 1 .. LastChallenge
Payments   == 1 .. LastPayment

Closed    == [expires |-> 0, settling |-> FALSE]
Idling    == [step |-> "idle", challenge |-> 0, payment |-> 0, granted |-> FALSE]
NoPayment == [for |-> 0, status |-> "none", expires |-> 0]

IsOpen(store, c) == store[c].expires > 0
Busy(h) == handler[h].step # "idle"

-----------------------------------------------------------------------------
(* Challenges.                                                              *)

\* pruneExpiredChallenges.
PruneExpired ==
    [c \in Challenges |->
        IF open[c].expires <= now /\ ~open[c].settling THEN Closed ELSE open[c]]

CountIp(ip, limited) ==
    LET victim == Evicted(perIp, now, PerIp)
        evicts == IndexOf(perIp, ip) = {} /\ victim > 0
                  /\ victim \notin Idle(perIp, now, PerIp)
    IN  /\ taken' = [taken EXCEPT ![ip] = IF limited THEN @ ELSE @ + 1]
        /\ drained' = IF evicts THEN [drained EXCEPT ![perIp[victim].key] = @ + 1]
                      ELSE drained
        /\ drained' \in [Ips -> 0 .. MaxDrained]

\* reissueChallenge, with what pruning left in the store: the address is
\* charged first, then everyone together, then the room is looked at.
Reissue(ip, store) ==
    LET mine == TryTake(perIp, ip, now, PerIp)
        all  == TryTake(overall, "global", now, Overall)
        full == Cardinality({c \in Challenges : IsOpen(store, c)}) >= MaxOpen
    IN  /\ issued < LastChallenge
        /\ perIp' = mine.lim
        /\ CountIp(ip, ~mine.ok)
        /\ overall' = IF mine.ok THEN all.lim ELSE overall
        /\ refused' = (refused \/ (mine.ok /\ all.ok /\ full))
        /\ IF mine.ok /\ all.ok /\ ~full
             THEN /\ issued' = issued + 1
                  /\ open' = [store EXCEPT ![issued + 1] =
                                [expires |-> now + Ttl, settling |-> FALSE]]
             ELSE /\ open' = store
                  /\ UNCHANGED issued

\* A request without a payment, or with a header that cannot be read.
Ask(ip) ==
    /\ Reissue(ip, PruneExpired)
    /\ UNCHANGED <<now, handler, relayer, history>>

\* Mutant: expiry is looked at before the settlement in progress.
UnpayableExpired(store, c) == store[c].expires <= now

\* A retry may be answered by a new challenge: the one it pays for is gone.
Unpayable(store, c) == ~store[c].settling /\ store[c].expires <= now

\* A request carries a prepared payment and the binding hash of a challenge,
\* which SublyX402Client takes from the same offer, and another client need
\* not.
Presents(p, c) == payment[p].status # "none" /\ c \in 1 .. issued

\* Its header names a challenge that is unknown or expired.
RetryTooLate(ip, p, c) ==
    LET store == PruneExpired
    IN  /\ Presents(p, c)
        /\ Unpayable(store, c)
        /\ Reissue(ip, [store EXCEPT ![c] = Closed])
        /\ invited' = IF payment[p].for = c THEN invited \cup {p} ELSE invited
        /\ UNCHANGED <<now, handler, relayer, delivered>>

\* Mutant: retries do not wait for each other.
MaySettleTogether(store, c) == store[c].expires > now

\* No settlement of this challenge is in progress (409), and it is still open.
MaySettle(store, c) == ~store[c].settling /\ store[c].expires > now

\* The gate takes the binding hash of the stored request, which is the one
\* the header named, and calls /verify.
RetryStarts(h, p, c) ==
    LET store == PruneExpired
    IN  /\ Presents(p, c)
        /\ ~Busy(h)
        /\ MaySettle(store, c)
        /\ open' = [store EXCEPT ![c].settling = TRUE]
        /\ handler' = [handler EXCEPT ![h] = [step |-> "verify", challenge |-> c,
                                              payment |-> p, granted |-> FALSE]]
        /\ UNCHANGED <<now, issued, limits, relayer, history>>

-----------------------------------------------------------------------------
(* The gate.                                                                *)

\* Whatever the outcome, the challenge stays, for a retry of the same header.
Release(h) ==
    /\ handler' = [handler EXCEPT ![h] = Idling]
    /\ open' = [open EXCEPT ![handler[h].challenge].settling = FALSE]

Failed(s) == s \in {"failed", "expired"}

\* A prepared payment past its expiry.
Expired(p) == payment[p].status = "prepared" /\ payment[p].expires <= now

\* verifyPaymentPayload: bound to this challenge and neither failed nor
\* expired; whatever is submitted or settled verifies again.
Verifies(p, c) ==
    payment[p].for = c /\ ~Failed(payment[p].status) /\ ~Expired(p)

\* /verify answers: the gate calls /settle, or denies access.  An expired
\* payment is written off.
Verified(h) ==
    LET p == handler[h].payment
        c == handler[h].challenge
    IN  /\ handler[h].step = "verify"
        /\ payment' = IF Expired(p) THEN [payment EXCEPT ![p].status = "expired"]
                      ELSE payment
        /\ IF Verifies(p, c)
             THEN /\ handler' = [handler EXCEPT ![h].step = "settle"]
                  /\ inbox' = inbox \cup {<<p, c>>}
                  /\ UNCHANGED open
             ELSE /\ Release(h)
                  /\ UNCHANGED inbox
        /\ UNCHANGED <<now, issued, limits, history>>

\* The states one /settle call may leave a payment in: written off when it
\* has expired, untouched when it is final or bound to another request.
SettleOutcomes(p, c) ==
    CASE payment[p].for # c \/ Failed(payment[p].status) -> {payment[p].status}
      [] Expired(p) -> {"expired"}
      [] payment[p].status = "settled" -> {"settled"}
      [] OTHER -> {"submitted", "settled", "failed"}

\* Mutant: a submission counts as a success.
GrantsSubmitted(p, c) == payment'[p].for = c /\ payment'[p].status # "failed"

\* isSuccessfulSettlement and settlementMismatchReason: a settled receipt, of
\* this payment and of this request.
Grants(p, c) == payment'[p].for = c /\ payment'[p].status = "settled"

\* The relayer processes /settle; a handler still waiting gets the answer.
Settle(p, c) ==
    /\ <<p, c>> \in inbox
    /\ inbox' = inbox \ {<<p, c>>}
    /\ \E s \in SettleOutcomes(p, c) : payment' = [payment EXCEPT ![p].status = s]
    /\ handler' = [h \in Handlers |->
                     IF handler[h].step = "settle" /\ handler[h].payment = p
                        /\ handler[h].challenge = c
                       THEN [handler[h] EXCEPT !.step = "reply", !.granted = Grants(p, c)]
                       ELSE handler[h]]
    /\ UNCHANGED <<now, open, issued, limits, history>>

\* The answer arrives: content, or 402.
Answer(h) ==
    /\ handler[h].step = "reply"
    /\ Release(h)
    /\ delivered' = IF handler[h].granted THEN delivered \cup {handler[h].challenge}
                    ELSE delivered
    /\ UNCHANGED <<now, issued, limits, relayer, invited>>

\* The call fails or runs into facilitatorTimeoutMs (502); the relayer may
\* still process it.
Timeout(h) ==
    /\ Busy(h)
    /\ Release(h)
    /\ UNCHANGED <<now, issued, limits, relayer, history>>

-----------------------------------------------------------------------------
(* The relayer and time.                                                    *)

\* expirePreparedPaymentsForLockedPosition, for the wallet the buyers share.
ExpiredPayments ==
    [q \in Payments |-> IF Expired(q) THEN [payment[q] EXCEPT !.status = "expired"]
                        ELSE payment[q]]

\* preparePayment of the relayer, under the locks of the seller request and of
\* the wallet: stale payments expire first, and one payment of a request is
\* alive at a time.
Prepare(p, c) ==
    /\ payment[p].status = "none"
    /\ \A q \in 1 .. p - 1 : payment[q].status # "none"
    /\ c \in 1 .. issued
    /\ \A q \in Payments : payment[q].for = c => Failed(ExpiredPayments[q].status)
    /\ payment' = [ExpiredPayments EXCEPT ![p] =
                     [for |-> c, status |-> "prepared", expires |-> now + Ttl]]
    /\ UNCHANGED <<now, open, issued, handler, inbox, limits, history>>

\* recoverPendingSettlements resolves a submitted payment.
Recover(p) ==
    /\ payment[p].status = "submitted"
    /\ \E s \in {"settled", "failed"} : payment' = [payment EXCEPT ![p].status = s]
    /\ UNCHANGED <<now, open, issued, handler, inbox, limits, history>>

Tick ==
    /\ now < LastTime
    /\ now' = now + 1
    /\ UNCHANGED <<open, issued, handler, limits, relayer, history>>

Init ==
    /\ now = 0
    /\ perIp = <<>>
    /\ overall = <<>>
    /\ open = [c \in Challenges |-> Closed]
    /\ issued = 0
    /\ handler = [h \in Handlers |-> Idling]
    /\ payment = [p \in Payments |-> NoPayment]
    /\ inbox = {}
    /\ delivered = {}
    /\ invited = {}
    /\ refused = FALSE
    /\ taken = [ip \in Ips |-> 0]
    /\ drained = [ip \in Ips |-> 0]

HandlerStep(h) == Verified(h) \/ Answer(h) \/ Timeout(h)

Next ==
    \/ \E ip \in Ips : Ask(ip)
    \/ \E ip \in Ips, p \in Payments, c \in Challenges : RetryTooLate(ip, p, c)
    \/ \E h \in Handlers, p \in Payments, c \in Challenges : RetryStarts(h, p, c)
    \/ \E h \in Handlers : HandlerStep(h)
    \/ \E p \in Payments, c \in Challenges : Settle(p, c)
    \/ \E p \in Payments, c \in Challenges : Prepare(p, c)
    \/ \E p \in Payments : Recover(p)
    \/ Tick

Spec == Init /\ [][Next]_vars

-----------------------------------------------------------------------------
(* Properties.                                                              *)

SellerTypeOK ==
    /\ now \in 0 .. LastTime
    /\ issued \in 0 .. LastChallenge
    /\ open \in [Challenges -> [expires : Nat, settling : BOOLEAN]]
    /\ handler \in [Handlers -> [step : {"idle", "verify", "settle", "reply"},
                                 challenge : 0 .. LastChallenge,
                                 payment : 0 .. LastPayment, granted : BOOLEAN]]
    /\ payment \in [Payments -> [for : 0 .. LastChallenge, expires : Nat,
                                 status : {"none", "prepared", "submitted", "settled",
                                           "failed", "expired"}]]
    /\ inbox \subseteq Payments \X Challenges
    /\ delivered \subseteq Challenges /\ invited \subseteq Payments
    /\ refused \in BOOLEAN
    /\ {taken, drained} \subseteq [Ips -> Nat]
    /\ IsLimiter(perIp, Ips, now, PerIp)
    /\ IsLimiter(overall, {"global"}, now, Overall)

(***************************************************************************)
(* Settle before deliver: content is only ever sent for a challenge whose  *)
(* own payment has settled, although answers may be late, calls may time   *)
(* out and a header may combine a payment with another challenge           *)
(* (SublySellerGate.settle).                                               *)
(***************************************************************************)
AccessPaid ==
    \A c \in delivered :
        \E p \in Payments : payment[p].for = c /\ payment[p].status = "settled"

(***************************************************************************)
(* The settling flag is a lock: a challenge is settled by one request at a *)
(* time, and it is marked exactly while one is at it, whatever expires, is *)
(* pruned or times out in between: it is neither lost, which would let a   *)
(* second settlement start, nor left behind, which would turn every retry  *)
(* away (openChallenges of demo/seller.ts).                                *)
(***************************************************************************)
SettlingExclusive ==
    \A c \in Challenges :
        LET at == {h \in Handlers : Busy(h) /\ handler[h].challenge = c}
        IN  /\ \A g, h \in at : g = h
            /\ open[c].settling <=> at # {}

(***************************************************************************)
(* A retry is invited to pay again only when its own challenge has run out *)
(* and no settlement of it is in progress at the seller: before that the   *)
(* buyer gets its content, a 409 or an error it may retry.                 *)
(***************************************************************************)
InvitedOnlyTooLate ==
    [][\A p \in invited' \ invited :
         LET c == payment[p].for
         IN  /\ open[c].expires <= now
             /\ \A h \in Handlers : Busy(h) => handler[h].challenge # c]_vars

(***************************************************************************)
(* With a store that holds one lifetime of the global limit, no flood of   *)
(* requests makes the seller refuse a buyer for want of room: neither an   *)
(* idle time nor settlements that outlive their challenge fill it          *)
(* (MAX_OPEN_CHALLENGES).                                                  *)
(***************************************************************************)
RoomForBuyers == ~refused

(***************************************************************************)
(* The price of a bounded limiter: an address gets its burst, its refill,  *)
(* and one more burst for each time its bucket was evicted while it was    *)
(* not full, and nothing for the eviction of a full one (evictIfFull).     *)
(***************************************************************************)
AllowancePerEviction ==
    \A ip \in Ips :
        taken[ip] * Unit <= (1 + drained[ip]) * PerIp.burst + now * PerIp.refill
=============================================================================
