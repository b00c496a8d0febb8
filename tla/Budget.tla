------------------------------- MODULE Budget -------------------------------
(***************************************************************************)
(* The yield budget: the pure arithmetic that decides how much of a vault  *)
(* position may be spent (src/domain/budget.ts, src/lib/raw-units.ts and   *)
(* the withdrawal penalty of src/kamino/vault-adapter.ts).                 *)
(*                                                                         *)
(* Raw units are natural numbers.  RateScale stands for RATE_SCALE and     *)
(* FullBps for FULL_BPS; nothing below depends on their values.            *)
(***************************************************************************)
EXTENDS Integers

CONSTANTS
    RateScale,      \* denominator of an exchange rate (USDC per share)
    FullBps         \* basis points in one whole

ASSUME RateScaleAssumption == RateScale \in Nat \ {0}
ASSUME FullBpsAssumption   == FullBps \in Nat \ {0}

-----------------------------------------------------------------------------
(* Raw-unit helpers: BigInt division truncates, and all arguments are       *)
(* non-negative, so \div is exact.                                          *)

MinBigInt(a, b)  == IF a <= b THEN a ELSE b
MaxBigInt(a, b)  == IF a >= b THEN a ELSE b
ClampToZero(a)   == IF a < 0 THEN 0 ELSE a
CeilDiv(n, d)    == (n + d - 1) \div d
MulDivFloor(a, b, d) == (a * b) \div d
MulDivCeil(a, b, d)  == CeilDiv(a * b, d)

-----------------------------------------------------------------------------
(* What a position is worth, and which part of it is yield.                 *)

ComputePositionValue(shares, rate) == MulDivFloor(shares, rate, RateScale)

\* position: [shares, rate, basis, reserved, feeDebt, buffer, capacity]
GrossYield(position) ==
    ClampToZero(ComputePositionValue(position.shares, position.rate)
                  - position.basis)

SpendableYield(position) ==
    ClampToZero(GrossYield(position)
                  - position.reserved - position.feeDebt - position.buffer)

SharesToRedeem(withdraw, rate) == CeilDiv(withdraw * RateScale, rate)

(***************************************************************************)
(* evaluatePaymentBudget: the verdict on a withdrawal of `withdraw` raw    *)
(* USDC that will also be charged `fee`.  The order of the tests is the    *)
(* order of the early returns.                                             *)
(***************************************************************************)
EvaluatePaymentBudget(position, withdraw, fee, activeReserved) ==
    LET spendable == SpendableYield(position)
        post      == ComputePositionValue(position.shares, position.rate)
                       - withdraw
    IN  IF position.rate <= 0 THEN "invalid_exchange_rate"
        ELSE IF spendable < withdraw + fee THEN "insufficient_yield"
        ELSE IF position.capacity < activeReserved + withdraw
             THEN "budget_illiquid"
        ELSE IF post - position.reserved - position.feeDebt - fee
                  < position.basis + position.buffer
             THEN "post_state_principal_invariant_failed"
        ELSE "ok"

-----------------------------------------------------------------------------
(* The vault's withdrawal penalty and the gross withdrawal that nets a      *)
(* target after it.                                                         *)

WithdrawalPenaltyFor(gross, bps, lamports) ==
    IF gross <= 0 THEN 0
    ELSE MaxBigInt(CeilDiv(gross * bps, FullBps), lamports)

NetOf(gross, bps, lamports) == gross - WithdrawalPenaltyFor(gross, bps, lamports)

\* Where the search of grossWithdrawForNetTarget starts.
GrossFloor(target, bps, lamports) ==
    MaxBigInt(CeilDiv(target * FullBps, FullBps - bps), target + lamports)

(***************************************************************************)
(* The while loop returns the first gross at or above the floor whose net  *)
(* reaches the target.  Only called with bps < FullBps (the code throws    *)
(* withdraw_illiquid otherwise).                                           *)
(***************************************************************************)
GrossWithdrawForNetTarget(target, bps, lamports) ==
    LET floor == GrossFloor(target, bps, lamports)
    IN  CHOOSE gross \in floor .. floor + target + lamports + 1 :
            /\ NetOf(gross, bps, lamports) >= target
            /\ \A g \in floor .. gross - 1 : NetOf(g, bps, lamports) < target
=============================================================================
