------------------------------ MODULE MCEthSync ------------------------------
(***************************************************************************)
(* Four blocks in rounds of two; the second holds a deposit of ETH and a   *)
(* guard call, the third a token's deposit and a withdrawal of ETH, so     *)
(* that blocks inside a round and at its end hold rows of all tables.      *)
(***************************************************************************)
EXTENDS EthSync

CONSTANTS k1, k2

MCCoroutines == {k1, k2}

MCTrxs == [h \in 0..4 |-> CASE h = 2 -> {"eth in", "guard call"}
                            [] h = 3 -> {"erc in", "eth out"}
                            [] OTHER -> {}]
==============================================================================
