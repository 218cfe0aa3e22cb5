------------------------------- MODULE Chain -------------------------------
(***************************************************************************)
(* The part of a bitcoin-like chain that lies SafeBlock blocks below the   *)
(* tip of the node, as go_collector_services/btc_collect sees it.  Blocks  *)
(* deeper than SafeBlock do not change any more, so the chain is a         *)
(* constant.  Transactions are numbered 1..NumTx through the whole chain;  *)
(* block h holds the transactions BlockEnd[h-1]+1 .. BlockEnd[h].  An      *)
(* output stands for a (txid, n) pair, or for a BTM output id.  Height 0   *)
(* is the block no collector handles (main starts at height+1; for BTM     *)
(* the stored height starts at -1, and heights are shifted by one here).   *)
(***************************************************************************)
EXTENDS Naturals

CONSTANTS
    Output,      \* the outputs that transactions create
    MaxHeight,   \* the last block of the chain
    NumTx,       \* the number of transactions in blocks 1..MaxHeight
    BlockEnd,    \* [0..MaxHeight -> 0..NumTx], the last transaction of a block
    Vin,         \* [1..NumTx -> SUBSET Output], the outputs a transaction spends
    Vout         \* [1..NumTx -> SUBSET Output], the outputs it creates

Heights == 0..MaxHeight
Txs     == 1..NumTx

\* What the first n transactions of the chain created and spent, and the
\* outputs they left unspent: the set the index is to hold.
Created(n) == UNION {Vout[i] : i \in 1..n}
Spent(n)   == UNION {Vin[i] : i \in 1..n}
Unspent(n) == Created(n) \ Spent(n)

\* The unspent outputs once block h is applied.
UnspentAt(h) == Unspent(BlockEnd[h])

\* The shape of the constants.
ASSUME ChainShape ==
    /\ MaxHeight \in Nat \ {0}
    /\ NumTx \in Nat
    /\ BlockEnd \in [Heights -> 0..NumTx]
    /\ BlockEnd[0] = 0
    /\ \A g, h \in Heights : g <= h => BlockEnd[g] <= BlockEnd[h]
    /\ Vin \in [Txs -> SUBSET Output]
    /\ Vout \in [Txs -> SUBSET Output]

\* The consensus rules of the chain: no output is created or spent twice, and
\* a transaction spends outputs that exist.  They are created by an earlier
\* transaction or, on BCH, whose blocks are sorted by txid, possibly by a later
\* one of the same block: the first h blocks spend only what they create.
ASSUME ChainRules ==
    /\ \A i, j \in Txs : i # j => Vout[i] \cap Vout[j] = {}
    /\ \A i, j \in Txs : i # j => Vin[i] \cap Vin[j] = {}
    /\ \A h \in Heights : \A i \in 1..BlockEnd[h] : Vin[i] \subseteq Created(BlockEnd[h])

\* On every chain but BCH a block lists parents before their children.
ParentsFirst == \A i \in Txs : Vin[i] \subseteq Created(i-1)
=============================================================================
