---------------------------- MODULE BudgetProofs ----------------------------
(***************************************************************************)
(* What the budget arithmetic guarantees for every rate, amount, penalty   *)
(* and position.                                                           *)
(***************************************************************************)
EXTENDS Budget, TLAPS

(* Integer division, as the provers need it.                               *)

\* A quotient brackets its dividend.
LEMMA DivBounds ==
    ASSUME NEW n \in Int, NEW d \in Nat \ {0}
    PROVE  /\ n \div d \in Int
           /\ d * (n \div d) <= n
           /\ n < d * (n \div d) + d
  OBVIOUS

\* The quotient is the largest integer whose multiple fits (BigInt "/").
LEMMA DivGE ==
    ASSUME NEW n \in Int, NEW d \in Nat \ {0}, NEW q \in Int, d * q <= n
    PROVE  q <= n \div d
<1> DEFINE r == n \div d
<1>1. r \in Int /\ n < d * r + d
  BY DivBounds
<1>2. d * q < d * (r + 1)
  BY <1>1
<1> HIDE DEF r
<1>3. q < r + 1
  BY <1>1, <1>2
<1> QED  BY <1>1, <1>3 DEF r

\* Dividing naturals gives a natural.
LEMMA DivNat ==
    ASSUME NEW n \in Nat, NEW d \in Nat \ {0}
    PROVE  n \div d \in Nat
  BY DivGE, DivBounds

\* ceilDiv is the smallest natural whose multiple reaches the numerator.
LEMMA CeilDivBounds ==
    ASSUME NEW n \in Nat, NEW d \in Nat \ {0}
    PROVE  /\ CeilDiv(n, d) \in Nat
           /\ n <= d * CeilDiv(n, d)
           /\ d * CeilDiv(n, d) < n + d
<1>1. n + d - 1 \in Nat
  OBVIOUS
<1>2. (n + d - 1) \div d \in Nat
  BY <1>1, DivNat
<1>3. /\ d * ((n + d - 1) \div d) <= n + d - 1
      /\ n + d - 1 < d * ((n + d - 1) \div d) + d
  BY <1>1, DivBounds
<1> QED  BY <1>2, <1>3 DEF CeilDiv

\* Cancelling a positive factor.
LEMMA Cancel ==
    ASSUME NEW a \in Int, NEW b \in Int, NEW d \in Nat \ {0}, d * a < d * b
    PROVE  a < b
  OBVIOUS

-----------------------------------------------------------------------------
(* grossWithdrawForNetTarget.                                               *)

\* The penalty (withdrawalPenaltyFor) is a natural.
LEMMA PenaltyType ==
    ASSUME NEW g \in Nat, NEW bps \in Nat, NEW lamports \in Nat
    PROVE  WithdrawalPenaltyFor(g, bps, lamports) \in Nat
<1>1. g * bps \in Nat
  OBVIOUS
<1>2. CeilDiv(g * bps, FullBps) \in Nat
  BY <1>1, CeilDivBounds, FullBpsAssumption
<1> QED  BY <1>2 DEF WithdrawalPenaltyFor, MaxBigInt

\* What a withdrawal nets is an integer, negative if the penalty exceeds it.
LEMMA NetType ==
    ASSUME NEW g \in Nat, NEW bps \in Nat, NEW lamports \in Nat
    PROVE  NetOf(g, bps, lamports) \in Int
<1>1. WithdrawalPenaltyFor(g, bps, lamports) \in Nat
  BY PenaltyType
<1> QED  BY <1>1 DEF NetOf

\* The search of grossWithdrawForNetTarget starts at a natural that covers the
\* flat penalty and the proportional one, its rounding left aside.
LEMMA GrossFloorType ==
    ASSUME NEW target \in Nat, NEW bps \in Nat, NEW lamports \in Nat,
           bps < FullBps
    PROVE  /\ GrossFloor(target, bps, lamports) \in Nat
           /\ GrossFloor(target, bps, lamports) >= target + lamports
           /\ target * FullBps
                <= (FullBps - bps) * GrossFloor(target, bps, lamports)
<1> DEFINE e == FullBps - bps
           c == CeilDiv(target * FullBps, e)
<1>1. e \in Nat \ {0} /\ target * FullBps \in Nat
  BY FullBpsAssumption
<1>2. c \in Nat /\ target * FullBps <= e * c
  BY <1>1, CeilDivBounds
<1> HIDE DEF e, c
<1>3. \A g \in Nat : c <= g => target * FullBps <= e * g
  <2> SUFFICES ASSUME NEW g \in Nat, c <= g PROVE target * FullBps <= e * g
    OBVIOUS
  <2>1. e * c <= e * g
    BY <1>1, <1>2
  <2> QED  BY <2>1, <1>1, <1>2
<1> QED  BY <1>2, <1>3 DEF GrossFloor, MaxBigInt, e, c

(***************************************************************************)
(* The floor already nets the target: the loop of                          *)
(* grossWithdrawForNetTarget never runs its body, for any penalty.         *)
(***************************************************************************)
THEOREM GrossFloorNetsTarget ==
    ASSUME NEW target \in Nat, NEW bps \in Nat, NEW lamports \in Nat,
           bps < FullBps
    PROVE  NetOf(GrossFloor(target, bps, lamports), bps, lamports) >= target
<1> DEFINE g == GrossFloor(target, bps, lamports)
           p == CeilDiv(g * bps, FullBps)
<1>1. /\ g \in Nat
      /\ g >= target + lamports
      /\ target * FullBps <= (FullBps - bps) * g
  BY GrossFloorType
<1> HIDE DEF g
<1>2. g * bps \in Nat
  BY <1>1
<1>3. p \in Nat /\ FullBps * p < g * bps + FullBps
  BY <1>2, CeilDivBounds, FullBpsAssumption
<1>4. target <= g - p
  <2>1. FullBps * (target - 1) < FullBps * (g - p)
    BY <1>1, <1>3, FullBpsAssumption
  <2>2. target - 1 < g - p
    BY <2>1, <1>1, <1>3, FullBpsAssumption, Cancel
  <2> QED  BY <2>2, <1>1, <1>3
<1> HIDE DEF p
<1>5. target <= g - lamports
  BY <1>1
<1> QED
  BY <1>1, <1>3, <1>4, <1>5 DEF NetOf, WithdrawalPenaltyFor, MaxBigInt, g, p

(***************************************************************************)
(* So the gross withdrawal is the floor, and a natural.                    *)
(***************************************************************************)
THEOREM GrossWithdrawIsFloor ==
    ASSUME NEW target \in Nat, NEW bps \in Nat, NEW lamports \in Nat,
           bps < FullBps
    PROVE  /\ GrossWithdrawForNetTarget(target, bps, lamports)
                = GrossFloor(target, bps, lamports)
           /\ GrossWithdrawForNetTarget(target, bps, lamports) \in Nat
<1> DEFINE fl == GrossFloor(target, bps, lamports)
           S == fl .. fl + target + lamports + 1
           P(x) == /\ NetOf(x, bps, lamports) >= target
                   /\ \A g \in fl .. x - 1 : NetOf(g, bps, lamports) < target
<1>1. fl \in Nat
  BY GrossFloorType
<1>2. NetOf(fl, bps, lamports) >= target
  BY GrossFloorNetsTarget
<1>3. fl \in S /\ P(fl)
  BY <1>1, <1>2
<1>4. \A x \in S : P(x) => x = fl
  <2> SUFFICES ASSUME NEW x \in S, P(x), x # fl PROVE FALSE
    OBVIOUS
  <2>1. fl \in fl .. x - 1
    BY <1>1
  <2>2. NetOf(fl, bps, lamports) < target
    BY <2>1
  <2>3. NetOf(fl, bps, lamports) \in Int
    BY <1>1, NetType
  <2> QED  BY <2>2, <2>3, <1>2
<1>5. GrossWithdrawForNetTarget(target, bps, lamports) = CHOOSE x \in S : P(x)
  BY DEF GrossWithdrawForNetTarget
<1> HIDE DEF S, P
<1>6. (CHOOSE x \in S : P(x)) = fl
  BY <1>3, <1>4
<1> QED  BY <1>1, <1>5, <1>6

\* The floor nets no more than the target either, so it nets it exactly
\* (grossWithdrawForNetTarget).
THEOREM GrossFloorNetsNoMore ==
    ASSUME NEW target \in Nat, NEW bps \in Nat, NEW lamports \in Nat,
           bps < FullBps
    PROVE  NetOf(GrossFloor(target, bps, lamports), bps, lamports) <= target
<1> DEFINE e == FullBps - bps
           c == CeilDiv(target * FullBps, e)
           g == GrossFloor(target, bps, lamports)
           p == CeilDiv(g * bps, FullBps)
<1>1. e \in Nat \ {0} /\ target * FullBps \in Nat /\ FullBps \in Nat \ {0}
  BY FullBpsAssumption
<1>2. c \in Nat /\ e * c < target * FullBps + e
  BY <1>1, CeilDivBounds
<1>3. g \in Nat /\ g >= target + lamports
  BY GrossFloorType
<1>4. g = c \/ g = target + lamports
  BY DEF GrossFloor, MaxBigInt
<1> HIDE DEF c, g
<1>5. g * bps \in Nat
  BY <1>3
<1>6. p \in Nat /\ g * bps <= FullBps * p
  BY <1>1, <1>5, CeilDivBounds
<1> HIDE DEF p
<1>7. NetOf(g, bps, lamports) = g - (IF g <= 0 THEN 0 ELSE MaxBigInt(p, lamports))
  BY DEF NetOf, WithdrawalPenaltyFor, p
<1>8. CASE g <= 0
  BY <1>3, <1>7, <1>8 DEF g
<1>9. CASE g > 0 /\ g = target + lamports
  <2>1. MaxBigInt(p, lamports) \in Nat /\ MaxBigInt(p, lamports) >= lamports
    BY <1>6 DEF MaxBigInt
  <2>2. NetOf(g, bps, lamports) <= target
    BY <1>3, <1>7, <1>9, <2>1
  <2> QED  BY <2>2 DEF g
<1>10. CASE g > 0 /\ g = c
  <2>1. FullBps * g - bps * g < target * FullBps + FullBps
    BY <1>1, <1>2, <1>3, <1>10
  <2>2. FullBps * (g - p) < FullBps * (target + 1)
    BY <1>1, <1>3, <1>6, <2>1
  <2>3. g - p < target + 1
    BY <1>1, <1>3, <1>6, <2>2, Cancel
  <2>4. MaxBigInt(p, lamports) \in Nat /\ MaxBigInt(p, lamports) >= p
    BY <1>6 DEF MaxBigInt
  <2>5. NetOf(g, bps, lamports) <= target
    BY <1>3, <1>6, <1>7, <1>10, <2>3, <2>4
  <2> QED  BY <2>5 DEF g
<1> QED  BY <1>3, <1>4, <1>8, <1>9, <1>10

\* Withdrawing more nets more, and no more than what is withdrawn on top.
LEMMA NetGrows ==
    ASSUME NEW a \in Nat, NEW b \in Nat, NEW bps \in Nat, NEW lamports \in Nat,
           0 < a, a <= b, bps < FullBps
    PROVE  /\ NetOf(a, bps, lamports) <= NetOf(b, bps, lamports)
           /\ NetOf(b, bps, lamports) <= NetOf(a, bps, lamports) + (b - a)
<1> DEFINE F == FullBps
           p == CeilDiv(a * bps, FullBps)
           q == CeilDiv(b * bps, FullBps)
           d == b - a
<1>1. /\ F \in Nat \ {0} /\ a * bps \in Nat /\ b * bps \in Nat /\ d \in Nat
      /\ b * bps = a * bps + d * bps /\ d * bps \in Nat /\ bps < F /\ b > 0
  BY FullBpsAssumption
<1>2. /\ p \in Nat /\ a * bps <= F * p /\ F * p < a * bps + F
      /\ q \in Nat /\ b * bps <= F * q /\ F * q < b * bps + F
  BY <1>1, CeilDivBounds
<1>3. /\ NetOf(a, bps, lamports) = a - MaxBigInt(p, lamports)
      /\ NetOf(b, bps, lamports) = b - MaxBigInt(q, lamports)
  BY <1>1 DEF NetOf, WithdrawalPenaltyFor
<1> HIDE DEF F, p, q, d
<1>4. d * bps <= F * d
  BY <1>1
<1>5. p <= q
  <2>1. F * p < F * (q + 1)
    BY <1>1, <1>2
  <2>2. p < q + 1
    BY <1>1, <1>2, <2>1, Cancel
  <2> QED  BY <1>2, <2>2
<1>6. q <= p + d
  <2>1. F * q < F * (p + d + 1)
    BY <1>1, <1>2, <1>4
  <2>2. q < p + d + 1
    BY <1>1, <1>2, <2>1, Cancel
  <2> QED  BY <1>1, <1>2, <2>2
<1> QED  BY <1>2, <1>3, <1>5, <1>6 DEF MaxBigInt, d

-----------------------------------------------------------------------------
(* evaluatePaymentBudget.                                                   *)

BudgetPositions ==
    [shares : Nat, rate : Nat, basis : Nat, reserved : Nat, feeDebt : Nat,
     buffer : Nat, capacity : Nat]

\* The value of a position is the largest amount its shares pay for.
LEMMA ValueBounds ==
    ASSUME NEW s \in Nat, NEW r \in Nat
    PROVE  /\ ComputePositionValue(s, r) \in Nat
           /\ RateScale * ComputePositionValue(s, r) <= s * r
<1>1. s * r \in Nat
  OBVIOUS
<1>2. /\ (s * r) \div RateScale \in Nat
      /\ RateScale * ((s * r) \div RateScale) <= s * r
  BY <1>1, DivNat, DivBounds, RateScaleAssumption
<1> QED  BY <1>2 DEF ComputePositionValue, MulDivFloor

\* What "ok" means: after the withdrawal and the fee the position still
\* covers basis, reservations, fee debt and buffer.
LEMMA AcceptedMeansCovered ==
    ASSUME NEW p \in BudgetPositions, NEW w \in Nat, NEW fee \in Nat,
           NEW active \in Nat,
           EvaluatePaymentBudget(p, w, fee, active) = "ok"
    PROVE  /\ p.rate > 0
           /\ p.basis + p.buffer + p.reserved + p.feeDebt + fee + w
                <= ComputePositionValue(p.shares, p.rate)
<1>1. /\ p.shares \in Nat /\ p.rate \in Nat /\ p.basis \in Nat
      /\ p.reserved \in Nat /\ p.feeDebt \in Nat /\ p.buffer \in Nat
  BY DEF BudgetPositions
<1>2. ComputePositionValue(p.shares, p.rate) \in Nat
  BY <1>1, ValueBounds
<1> QED  BY <1>1, <1>2 DEF EvaluatePaymentBudget

(***************************************************************************)
(* The post-state test of evaluatePaymentBudget can only reject a request  *)
(* for nothing: any positive request that passes the yield test passes it  *)
(* too, so the budget of spendable yield alone protects the principal.     *)
(***************************************************************************)
THEOREM PostStateTestRedundant ==
    ASSUME NEW p \in BudgetPositions, NEW w \in Nat, NEW fee \in Nat,
           NEW active \in Nat, w + fee > 0
    PROVE  EvaluatePaymentBudget(p, w, fee, active)
             # "post_state_principal_invariant_failed"
<1>1. /\ p.shares \in Nat /\ p.rate \in Nat /\ p.basis \in Nat
      /\ p.reserved \in Nat /\ p.feeDebt \in Nat /\ p.buffer \in Nat
  BY DEF BudgetPositions
<1>2. ComputePositionValue(p.shares, p.rate) \in Nat
  BY <1>1, ValueBounds
<1> QED
  BY <1>1, <1>2 DEF EvaluatePaymentBudget, SpendableYield, GrossYield, ClampToZero

(***************************************************************************)
(* An accepted withdrawal of w raw USDC burns ceil(w * scale / rate)       *)
(* shares, at most those the position has, and the shares that remain are  *)
(* worth the principal basis, the reservations, the fee debt and the       *)
(* buffer, provided the accepted fee is worth a share, but for one unit of *)
(* the scale: the fee headroom pays for rounding the shares up.            *)
(***************************************************************************)
THEOREM AcceptedBudgetKeepsPrincipal ==
    ASSUME NEW p \in BudgetPositions, NEW w \in Nat, NEW fee \in Nat,
           NEW active \in Nat,
           EvaluatePaymentBudget(p, w, fee, active) = "ok",
           p.rate <= RateScale * fee + 1
    PROVE  /\ SharesToRedeem(w, p.rate) \in 0 .. p.shares
           /\ p.basis + p.buffer + p.reserved + p.feeDebt
                <= ComputePositionValue(p.shares - SharesToRedeem(w, p.rate),
                                        p.rate)
<1> DEFINE K == RateScale
           s == p.shares
           r == p.rate
           v == ComputePositionValue(s, r)
           c == CeilDiv(w * K, r)
           need == p.basis + p.buffer + p.reserved + p.feeDebt
<1>1. K \in Nat \ {0} /\ s \in Nat /\ r \in Nat \ {0} /\ need \in Nat
  BY RateScaleAssumption, AcceptedMeansCovered DEF BudgetPositions
<1>2. need + fee + w <= v
  BY AcceptedMeansCovered DEF BudgetPositions
<1>3. v \in Nat /\ K * v <= s * r
  BY <1>1, ValueBounds
<1>4. c \in Nat /\ r * c < w * K + r
  <2>1. w * K \in Nat
    BY <1>1
  <2> QED  BY <1>1, <2>1, CeilDivBounds
<1>5. r <= K * fee + 1
  OBVIOUS
<1> HIDE DEF K, s, r, v, c, need
<1>6. K * w <= K * v
  <2>1. w <= v
    BY <1>1, <1>2, <1>3
  <2> QED  BY <2>1, <1>1, <1>3
<1>7. c <= s
  <2>1. r * c < r * (s + 1)
    BY <1>1, <1>3, <1>4, <1>6
  <2>2. c < s + 1
    BY <2>1, <1>1, <1>4, Cancel
  <2> QED  BY <2>2, <1>1, <1>4
<1>8. K * need <= (s - c) * r
  <2>1. K * (need + fee + w) <= K * v
    BY <1>1, <1>2, <1>3
  <2>2. K * need + K * fee + K * w <= s * r
    BY <2>1, <1>1, <1>3
  <2> QED  BY <2>2, <1>1, <1>4, <1>5
<1>9. need <= ((s - c) * r) \div K
  <2>1. (s - c) * r \in Int
    BY <1>1, <1>4
  <2> QED  BY <2>1, <1>1, <1>8, DivGE
<1> QED
  BY <1>1, <1>4, <1>7, <1>9
  DEF SharesToRedeem, ComputePositionValue, MulDivFloor, K, s, r, c, need

=============================================================================
