---------------------------- MODULE MCUtxoIndex ----------------------------
(***************************************************************************)
(* A chain of three blocks on which every case of the handler occurs: o1   *)
(* is created in block 1 and spent in block 2 (a delete of the store, or a *)
(* cancellation when both blocks fall in one window), o3 is created and    *)
(* spent inside block 2, o4 survives block 2 and is spent in block 3, o2   *)
(* and o5 are never spent.  Parents come first, so the chain may be BCH or *)
(* another; MCUtxoService has a chain that only BCH allows.                *)
(***************************************************************************)
EXTENDS UtxoIndex

CONSTANTS o1, o2, o3, o4, o5

MCOutput    == {o1, o2, o3, o4, o5}
MCMaxHeight == 3
MCNumTx     == 4
MCBlockEnd  == [h \in 0..3 |-> CASE h = 0 -> 0 [] h = 1 -> 1 [] h = 2 -> 3 [] h = 3 -> 4]

MCVin ==
    [i \in 1..4 |-> CASE i = 1 -> {}
                      [] i = 2 -> {o1}
                      [] i = 3 -> {o3}
                      [] i = 4 -> {o4}]
MCVout ==
    [i \in 1..4 |-> CASE i = 1 -> {o1, o2}
                      [] i = 2 -> {o3}
                      [] i = 3 -> {o4}
                      [] i = 4 -> {o5}]
=============================================================================
