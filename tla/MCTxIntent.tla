----------------------------- MODULE MCTxIntent -----------------------------
(***************************************************************************)
(* A small instance of TxIntent for TLC: a wallet that must unstake, and   *)
(* has yield to realize, and one that holds just enough.                   *)
(***************************************************************************)
EXTENDS TxIntent

SomeHoldings == {[free |-> 1, staked |-> 4, basis |-> 1],
                 [free |-> 3, staked |-> 0, basis |-> 1]}

ASSUME InstanceIsSensible == Sensible
=============================================================================
