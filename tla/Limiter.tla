------------------------------ MODULE Limiter -------------------------------
(***************************************************************************)
(* The token-bucket rate limiter, src/x402/rate-limit.ts.                  *)
(*                                                                         *)
(* A limiter is a sequence of buckets, oldest first: the insertion order   *)
(* of the code's Map, which updating a bucket does not change.  Tokens are *)
(* counted in fractions, Unit of them to a take, because a bucket refills  *)
(* by elapsed time; a configuration c is [burst, refill, keys]: capacity   *)
(* and refill per tick in those fractions, and maxKeys.                    *)
(***************************************************************************)
EXTENDS Integers, Sequences, SequencesExt

CONSTANT Unit

ASSUME UnitAssumption == Unit \in Nat \ {0}

\* At most maxKeys buckets, one per key, none above its capacity.
IsLimiter(lim, keys, now, c) ==
    /\ lim \in Seq([key : keys, tokens : 0 .. c.burst, last : 0 .. now])
    /\ Len(lim) <= c.keys
    /\ \A i, j \in DOMAIN lim : lim[i].key = lim[j].key => i = j

Bucket(key, tokens, now) == [key |-> key, tokens |-> tokens, last |-> now]

\* Mutant: a bucket keeps what it would refill above its capacity.
RefilledWithoutCap(b, now, c) == b.tokens + (now - b.last) * c.refill

\* The tokens of b at this time.
Refilled(b, now, c) ==
    LET tokens == b.tokens + (now - b.last) * c.refill
    IN  IF tokens < c.burst THEN tokens ELSE c.burst

IndexOf(lim, key) == {i \in DOMAIN lim : lim[i].key = key}

\* The buckets that have refilled: dropping one changes nothing.
Idle(lim, now, c) ==
    {i \in DOMAIN lim : lim[i].tokens + (now - lim[i].last) * c.refill >= c.burst}

\* Mutant: room is made one bucket late.
EvictedLate(lim, now, c) ==
    IF Len(lim) <= c.keys THEN 0
    ELSE IF Idle(lim, now, c) # {} THEN Min(Idle(lim, now, c)) ELSE 1

\* The bucket evictIfFull drops, 0 for none: the first idle one, else the oldest.
Evicted(lim, now, c) ==
    IF Len(lim) < c.keys THEN 0
    ELSE IF Idle(lim, now, c) # {} THEN Min(Idle(lim, now, c)) ELSE 1

EvictIfFull(lim, now, c) ==
    IF Evicted(lim, now, c) = 0 THEN lim ELSE RemoveAt(lim, Evicted(lim, now, c))

\* The bucket a take for key uses, refilled.
Charged(lim, key, now, c) ==
    IF IndexOf(lim, key) = {} THEN Append(EvictIfFull(lim, now, c), Bucket(key, c.burst, now))
    ELSE [i \in DOMAIN lim |->
            IF lim[i].key = key THEN Bucket(key, Refilled(lim[i], now, c), now)
            ELSE lim[i]]

\* Mutant: a take refills without moving the time it refilled to.
TryTakeRefillsTwice(lim, key, now, c) ==
    LET charged == Charged(lim, key, now, c)
        i       == CHOOSE j \in IndexOf(charged, key) : TRUE
        kept    == IF IndexOf(lim, key) = {} THEN charged
                   ELSE [charged EXCEPT ![i].last = lim[i].last]
    IN  IF charged[i].tokens < Unit THEN [ok |-> FALSE, lim |-> kept]
        ELSE [ok |-> TRUE, lim |-> [kept EXCEPT ![i].tokens = @ - Unit]]

\* tryTake: whether the key may proceed, and the limiter afterwards.
TryTake(lim, key, now, c) ==
    LET charged == Charged(lim, key, now, c)
        i       == CHOOSE j \in IndexOf(charged, key) : TRUE
    IN  IF charged[i].tokens < Unit THEN [ok |-> FALSE, lim |-> charged]
        ELSE [ok |-> TRUE, lim |-> [charged EXCEPT ![i].tokens = @ - Unit]]
=============================================================================
