---------------------------- MODULE MCVaultFlow ----------------------------
(***************************************************************************)
(* Small instances of VaultFlow for TLC.  Amounts are a few raw units and  *)
(* RateScale is 2, so that one step of the exchange rate moves the value   *)
(* of four shares by two units and roundings happen.                       *)
(***************************************************************************)
EXTENDS VaultFlow, TLC

RequestsAll ==
    {[kind |-> "deposit", amount |-> 5],
     [kind |-> "normal", amount |-> 3],
     [kind |-> "yield_realize", amount |-> 1]}

RequestsOneDeposit == {[kind |-> "deposit", amount |-> 2]}

MovesBothWays == {-1, 2}

NoKinds == {}
DepositOnly == {"deposit"}

FlowSymmetry   == Permutations(Txs)
WorkerSymmetry == Permutations(Workers)
=============================================================================
