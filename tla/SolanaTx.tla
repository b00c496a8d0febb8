------------------------------ MODULE SolanaTx ------------------------------
(***************************************************************************)
(* The life of a signed transaction on the chain, as the relayer can       *)
(* observe it through the submission engine (src/solana/submission.ts).    *)
(* The chain itself is outside the repository; the engine's calls are the  *)
(* operators Found, HeightPastMargin and Broadcast.                        *)
(*                                                                         *)
(* A transaction carries a recent blockhash: while its window is "open"    *)
(* any node that holds its bytes may include it in a block.  Past          *)
(* lastValidBlockHeight the window is "closed": it can no longer land, but *)
(* the receipt of one that did may not be indexed yet.  Thirty-two blocks  *)
(* later the window is "expired", and every receipt there will ever be is  *)
(* indexed.                                                                *)
(***************************************************************************)
CONSTANT Txs        \* signed transactions, one per intent

VARIABLES
    tx,             \* tx[t]: where the transaction is
    visible,        \* visible[t]: getTransaction finds its receipt
    window          \* window[t]: how far the chain is past its blockhash

txVars == <<tx, visible, window>>

TxStates     == {"unsent", "wire", "landed", "reverted"}
WindowStates == {"open", "closed", "expired"}

\* Included in a block, successfully or with an error.
OnChain(t) == tx[t] \in {"landed", "reverted"}

TxTypeOK ==
    /\ tx \in [Txs -> TxStates]
    /\ visible \in [Txs -> BOOLEAN]
    /\ window \in [Txs -> WindowStates]

TxInit ==
    /\ tx = [t \in Txs |-> "unsent"]
    /\ visible = [t \in Txs |-> FALSE]
    /\ window = [t \in Txs |-> "open"]

-----------------------------------------------------------------------------
(* What the engine's calls return.                                          *)

\* lookupTransaction: a receipt with its meta, at commitment "confirmed".
Found(t) == visible[t]

\* isBlockhashExpired: blockHeight > lastValidBlockHeight + 32.
HeightPastMargin(t) == window[t] = "expired"

\* sendSignedTransaction: the bytes reach a node.  Resending bytes that are
\* already on the wire, on chain or dead changes nothing.
Broadcast(t) ==
    tx' = IF tx[t] = "unsent" THEN [tx EXCEPT ![t] = "wire"] ELSE tx

-----------------------------------------------------------------------------
(* Steps of the chain.                                                      *)

\* A block includes the transaction.
Include(t, result) ==
    /\ tx[t] = "wire"
    /\ window[t] = "open"
    /\ tx' = [tx EXCEPT ![t] = result]
    /\ UNCHANGED <<visible, window>>

\* The receipt becomes visible to getTransaction.
Index(t) ==
    /\ OnChain(t)
    /\ ~visible[t]
    /\ visible' = [visible EXCEPT ![t] = TRUE]
    /\ UNCHANGED <<tx, window>>

\* The chain moves past lastValidBlockHeight.
CloseWindow(t) ==
    /\ window[t] = "open"
    /\ window' = [window EXCEPT ![t] = "closed"]
    /\ UNCHANGED <<tx, visible>>

\* The chain moves past the indexing margin.
PassMargin(t) ==
    /\ window[t] = "closed"
    /\ OnChain(t) => visible[t]
    /\ window' = [window EXCEPT ![t] = "expired"]
    /\ UNCHANGED <<tx, visible>>
=============================================================================
