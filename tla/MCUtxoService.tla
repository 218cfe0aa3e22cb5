--------------------------- MODULE MCUtxoService ---------------------------
(***************************************************************************)
(* A chain of BCH with two blocks: o1 is created in block 1 and spent in   *)
(* block 2, whose first transaction spends o3, which the second creates;   *)
(* o4 is dust, o2 and o5 stay; bob owns o5, alice the others.              *)
(***************************************************************************)
EXTENDS UtxoService

CONSTANTS o1, o2, o3, o4, o5, alice, bob

MCOutput    == {o1, o2, o3, o4, o5}
MCMaxHeight == 2
MCNumTx     == 3
MCBlockEnd  == [h \in 0..2 |-> CASE h = 0 -> 0 [] h = 1 -> 1 [] h = 2 -> 3]
MCVin  == [i \in 1..3 |-> CASE i = 1 -> {} [] i = 2 -> {o3} [] i = 3 -> {o1}]
MCVout == [i \in 1..3 |-> CASE i = 1 -> {o1, o2} [] i = 2 -> {o4, o5} [] i = 3 -> {o3}]

MCOwnerOf == [o \in MCOutput |-> IF o = o5 THEN bob ELSE alice]
MCAmount  == [o \in MCOutput |-> CASE o = o1 -> 8 [] o = o2 -> 4 [] o = o3 -> 7
                                   [] o = o4 -> 1 [] o = o5 -> 5]
=============================================================================
