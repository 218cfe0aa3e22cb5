------------------------------- MODULE EthLog -------------------------------
(***************************************************************************)
(* What the collector of Ethereum promises the readers of MongoDB.  Rows   *)
(* appear in the order of their blocks, which run ahead of the sync number *)
(* by a round at most; the sync number covers a block when all its rows    *)
(* are there.  A collector that starts, or begins anew after a rest,       *)
(* removes deposits and withdrawals of blocks above the sync number, but   *)
(* no guard calls, and reads those blocks again.  Module EthSync           *)
(* implements this, module HistoryApi reads it.                            *)
(***************************************************************************)
EXTENDS Integers

CONSTANTS
    Top,        \* the last block
    Row,        \* the rows there may be: records with a block and a kind
    Cleared,    \* the kinds that are removed at a start
    Ahead       \* how far behind the sync number a round may end

VARIABLES
    sync,       \* "syncblocknum" in b_config
    present,    \* rows in b_deposit_, b_withdraw_ and b_guardcall_transaction
    phase       \* "down": no collector, or one that clears or rests; "on"

ethLog == <<sync, present, phase>>

EthTypeOK == sync \in 0..Top /\ present \subseteq Row /\ phase \in {"down", "on"}

EthInit == sync = 0 /\ present = {} /\ phase = "down"

Above == {r \in Row : r.block > sync}

\* All rows up to block b are there.
Complete(b) == \A r \in Above : r.block <= b => r \in present

Clear ==
    /\ phase = "down"
    /\ \E kinds \in SUBSET Cleared : present' = present \ {r \in Above : r.kind \in kinds}
    /\ phase' \in {"down", "on"}
    /\ UNCHANGED sync

Store ==
    /\ phase = "on"
    /\ \E r \in Above \ present :
          /\ r.block <= sync + Ahead /\ Complete(r.block - 1)
          /\ present' = present \cup {r}
    /\ UNCHANGED <<sync, phase>>

Commit ==
    /\ phase = "on"
    /\ \E b \in (sync + 1)..(sync + Ahead) : b <= Top /\ Complete(b) /\ sync' = b
    /\ UNCHANGED <<present, phase>>

\* The process dies, or is at the end of the chain.
Pause ==
    /\ phase = "on" /\ phase' = "down"
    /\ UNCHANGED <<sync, present>>

EthNext == Clear \/ Store \/ Commit \/ Pause
=============================================================================
