---------------------------- MODULE TransferLog ----------------------------
(***************************************************************************)
(* What a Bitcoin-like collector promises the readers of MongoDB: the      *)
(* transfers appear block by block, those of a block in any order, and the *)
(* sync number moves on when the block is done.  A collector that starts   *)
(* again takes its last block out and collects it once more.  Module       *)
(* MongoCollector implements this, module HistoryApi reads it.             *)
(***************************************************************************)
EXTENDS Integers

CONSTANTS
    Top,      \* the last block
    Row       \* the transfers there may be: records with a block and a kind

ASSUME LogAssumption ==
    Top \in Nat /\ \A r \in Row : r.block \in 0..Top /\ r.kind \in {"deposit", "withdraw"}

VARIABLES
    sync,     \* the sync number of the coin in b_config
    present,  \* b_deposit_transaction, b_withdraw_transaction
    phase     \* no collector, one that collects block sync again, or the next one

log == <<sync, present, phase>>

LogTypeOK ==
    /\ sync \in 0..Top /\ present \subseteq Row
    /\ phase \in {"down", "again", "on"}

LogInit == sync = 0 /\ present = {} /\ phase = "down"

\* The block whose transfers are being written.
Turn == IF phase = "again" THEN sync ELSE sync + 1

\* A collector starts, and clears what it is going to collect again.
Clear ==
    /\ phase = "down"
    /\ present' = {r \in present : r.block < sync}
    /\ phase' = "again"
    /\ UNCHANGED sync

Store ==
    /\ phase # "down"
    /\ \E new \in SUBSET {r \in Row : r.block = Turn} :
         /\ new # {}
         /\ present' = present \cup new
    /\ UNCHANGED <<sync, phase>>

Commit ==
    /\ phase # "down" /\ Turn <= Top
    /\ sync' = Turn
    /\ phase' = "on"
    /\ UNCHANGED present

Crash ==
    /\ phase # "down"
    /\ phase' = "down"
    /\ UNCHANGED <<sync, present>>

LogNext == Clear \/ Store \/ Commit \/ Crash

LogSpec == LogInit /\ [][LogNext]_log
=============================================================================
