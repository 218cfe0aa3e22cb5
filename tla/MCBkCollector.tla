---------------------------- MODULE MCBkCollector ----------------------------
(***************************************************************************)
(* Two contracts, a window of one block and a chain that is longer.        *)
(***************************************************************************)
EXTENDS BkCollector

CONSTANTS c1, c2

MCContract == {c1, c2}
==============================================================================
