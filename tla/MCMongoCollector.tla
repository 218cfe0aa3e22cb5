--------------------------- MODULE MCMongoCollector ---------------------------
(***************************************************************************)
(* Four heights, of which all but the last are collected; a deposit, then  *)
(* both kinds in the next block, so that an address may be registered      *)
(* before, between and after its transfers.  A block is confirmed by the   *)
(* next one, and the head itself may be replaced.                          *)
(***************************************************************************)
EXTENDS MongoCollector

CONSTANT a1

MCAddr == {a1}
MCIn  == [kind |-> "deposit", addr |-> a1]
MCOut == [kind |-> "withdraw", addr |-> a1]
MCTransfers == [h \in 0..3 |-> CASE h = 1 -> {MCIn} [] h = 2 -> {MCIn, MCOut} [] OTHER -> {}]
===============================================================================
