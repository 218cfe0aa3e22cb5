---------------------------- MODULE MCHistoryApi ----------------------------
(***************************************************************************)
(* btc: windows of two blocks; two deposits in block 1 and a withdrawal in *)
(* block 2, so that every order of queries and writes within a block and   *)
(* within a window occurs, and a deposit behind an empty window.  eth: a   *)
(* guard call and a deposit in block 2, right after the base, and a        *)
(* withdrawal behind an empty window of one block.                         *)
(***************************************************************************)
EXTENDS HistoryApi

MCRow == [block : {1}, kind : {"deposit"}, trx : {1, 2}]
           \cup {[block |-> 2, kind |-> "withdraw", trx |-> 1],
                 [block |-> 5, kind |-> "deposit", trx |-> 1]}

MCEthRow == [block : {2}, kind : {"deposit", "guardcall"}]
           \cup {[block |-> 4, kind |-> "withdraw"]}

MCDepNum == [btc |-> 2, eth |-> 1]
=============================================================================
