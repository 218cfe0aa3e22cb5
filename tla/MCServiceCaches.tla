-------------------------- MODULE MCServiceCaches --------------------------
(***************************************************************************)
(* Two workers.  Two transactions are asked for; one confirmation is not   *)
(* enough and the last block may be replaced, on a chain of at most four   *)
(* blocks.  One is broadcast; answers are kept for two seconds and swept   *)
(* every three.  Calls register one address four times at most, one by one *)
(* or two at a time.  A file holds one of two lists of senators, which are *)
(* remembered for two seconds; one of two claims is good.  Balances are of *)
(* up to four digits, and of coins with two or three decimals.             *)
(***************************************************************************)
EXTENDS ServiceCaches
=============================================================================
