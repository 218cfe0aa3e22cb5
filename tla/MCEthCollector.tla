---------------------------- MODULE MCEthCollector ----------------------------
(***************************************************************************)
(* Two collectors and three handlers, so that exit blocks have to be       *)
(* passed on; three blocks of which every second is a checkpoint of the    *)
(* fast phase, and channels smaller than what is fed.                      *)
(***************************************************************************)
EXTENDS EthCollector

CONSTANTS c1, c2, h1, h2, h3

MCCollectors == {c1, c2}
MCHandlers   == {h1, h2, h3}
===============================================================================
