--------------------------- MODULE MCUsdtCollector ---------------------------
(***************************************************************************)
(* Six heights of which five are collected, in batches of two and alone;   *)
(* a simple send to and one from a watched address, a "send all" between   *)
(* two watched ones, and sends that must not be recorded.                  *)
(***************************************************************************)
EXTENDS UsdtCollector

CONSTANTS w1, w2, x, usdt, omni

MCAddr     == {w1, w2, x}
MCWatched  == {w1, w2}
MCProperty == {usdt, omni}

Simple(from, to, property, valid) ==
    [type |-> 0, property |-> property, ecosystem |-> None, subsends |-> {}, valid |-> valid,
     from |-> from, to |-> to]
All(from, to, ecosystem, subsends) ==
    [type |-> 4, property |-> None, ecosystem |-> ecosystem, subsends |-> subsends,
     valid |-> TRUE, from |-> from, to |-> to]

MCTxs == [h \in 0..6 |->
    CASE h = 1 -> {Simple(x, w1, usdt, TRUE), Simple(w1, x, usdt, TRUE), Simple(x, w1, omni, TRUE)}
      [] h = 2 -> {All(w1, w2, "main", {usdt, omni}), Simple(x, w2, usdt, FALSE)}
      [] h = 3 -> {All(w2, x, "test", {usdt}), Simple(w2, x, None, TRUE)}
      [] h = 4 -> {Simple(w2, x, usdt, TRUE)}
      [] OTHER -> {}]
===============================================================================
