---------------------------- MODULE MCSettlement ----------------------------
(***************************************************************************)
(* Small instances of Settlement for TLC: payments of one raw unit or two  *)
(* out of a position worth a dozen, at a rate of one unit per share that   *)
(* may rise to one and a half.                                             *)
(***************************************************************************)
EXTENDS Settlement, TLC

PaymentSymmetry == Permutations(Txs)
PaymentAndRequestSymmetry == Permutations(Txs) \cup Permutations(SellerRequests)
=============================================================================
