------------------------------ MODULE MCPayer ------------------------------
(***************************************************************************)
(* A small instance of Payer for TLC.                                      *)
(***************************************************************************)
EXTENDS Payer, TLC

LegacyRecords == {Old("unknown")}
Symmetric ==
    Permutations(Clients) \cup Permutations(Keys) \cup Permutations(Flows)
=============================================================================
