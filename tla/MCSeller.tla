------------------------------ MODULE MCSeller ------------------------------
(***************************************************************************)
(* A small instance of Seller for TLC: two addresses that share a limiter  *)
(* of one bucket, and a store with just the room the assumption asks for.  *)
(***************************************************************************)
EXTENDS Seller, TLC

PerIpConfig   == [burst |-> 2, refill |-> 1, keys |-> 1]
OverallConfig == [burst |-> 2, refill |-> 2, keys |-> 1]

\* Handlers and addresses may be permuted.
SellerSymmetry == Permutations(Handlers) \cup Permutations(Ips)
=============================================================================
