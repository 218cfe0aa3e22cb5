----------------------------- MODULE BkCollector -----------------------------
(***************************************************************************)
(* btc_data_collector/BKCoinTxCollector.py: every ten seconds the          *)
(* collector asks the chain which exchange contracts have changed since a  *)
(* while before the last block it knows, reads the orders of each and puts *)
(* them in the place of the old ones in MongoDB.                           *)
(*                                                                         *)
(* The orders of a contract are named by the block that made them what     *)
(* they are.  Names that UsdtCollector has too begin with Bk here, so that *)
(* one module, UsdtBkProofs, can speak of both collectors.                 *)
(***************************************************************************)
EXTENDS Integers, FiniteSets

CONSTANTS
    Contract,    \* the exchange contracts
    BkTop,       \* the height the chain grows to
    Window,      \* how far back the collector asks (25 blocks)
    BkMaxBoots   \* bound on how often the process is started

ASSUME BkAssumption ==
    BkTop \in Nat /\ Window \in Nat /\ BkMaxBoots \in Nat \ {0}

BkHeights == 0..BkTop

VARIABLES
    bkHead,     \* the chain's height
    orders,     \* the block that last changed a contract's orders; 0: none yet
    book,       \* b_exchange_contracts: the orders found there
    saved,      \* b_config, SYNC_BLOCK_NUM
    lastBlock,  \* last_block
    pc,         \* "off", "ask" -> ("check" -> "read" -> "remove")* -> "insert"* ->
                \* "save" -> "ask"
    todo,       \* what get_contract_storage_changed has listed, still to do
    item,       \* the contract in hand, and the block it is listed with
    orderList   \* order_list

bkMongo == <<book, saved>>
memory  == <<lastBlock, pc, todo, item, orderList>>

VARIABLES
    bkBoots,    \* starts of the process
    bkSilent    \* history: a request was left without a result

bkVars == <<bkHead, orders, bkMongo, memory, bkBoots, bkSilent>>

Listing == [contract : Contract, block : BkHeights]

BkTypeOK ==
    /\ bkHead \in BkHeights /\ orders \in [Contract -> BkHeights]
    /\ book \subseteq Listing /\ orderList \subseteq Listing /\ todo \subseteq Listing
    /\ saved \in 0..(BkTop + 1) /\ lastBlock \in 0..(BkTop + 1)
    /\ pc \in {"off", "ask", "check", "read", "remove", "insert", "save"}
    /\ item \in Listing \cup {<<>>}
    /\ bkBoots \in 0..BkMaxBoots /\ bkSilent \in BOOLEAN

BkInit ==
    /\ bkHead = 0 /\ orders = [c \in Contract |-> 0]
    /\ book = {} /\ saved = 0                      \* mgmt/init_db.js
    /\ lastBlock = 0 /\ pc = "off" /\ todo = {} /\ item = <<>> /\ orderList = {}
    /\ bkBoots = 0 /\ bkSilent = FALSE

\* A block, with trades in some of the contracts.
BkGrow ==
    /\ bkHead < BkTop
    /\ bkHead' = bkHead + 1
    /\ \E S \in SUBSET Contract :
         orders' = [c \in Contract |-> IF c \in S THEN bkHead + 1 ELSE orders[c]]
    /\ UNCHANGED <<bkMongo, memory, bkBoots, bkSilent>>

-----------------------------------------------------------------------------
BkBoot ==
    /\ pc = "off" /\ bkBoots < BkMaxBoots
    /\ bkBoots' = bkBoots + 1
    /\ lastBlock' = saved
    /\ pc' = "ask"
    /\ UNCHANGED <<bkHead, orders, bkMongo, todo, item, orderList, bkSilent>>

\* Killed, or ended by an exception of the driver.
BkKill ==
    /\ pc # "off"
    /\ lastBlock' = 0 /\ pc' = "off" /\ todo' = {} /\ item' = <<>> /\ orderList' = {}
    /\ UNCHANGED <<bkHead, orders, bkMongo, bkBoots, bkSilent>>

\* Go on with a listed contract, in the node's order, or with the insertion.
NextOf(left) ==
    \/ left = {} /\ pc' = "insert" /\ todo' = {} /\ item' = <<>>
    \/ \E x \in left : pc' = "check" /\ todo' = left \ {x} /\ item' = x

\* last_block - 25
Since == lastBlock - Window

\* get_contract_storage_changed: the node lists each contract once.
Ask ==
    /\ pc = "ask"
    /\ \/ /\ NextOf({[contract |-> c, block |-> orders[c]] :
                       c \in {d \in Contract : orders[d] > 0 /\ orders[d] >= Since}})
          /\ UNCHANGED bkSilent
       \/ bkSilent' = TRUE /\ pc' = "save" /\ UNCHANGED <<todo, item>>
    /\ UNCHANGED <<bkHead, orders, bkMongo, lastBlock, orderList, bkBoots>>

\* Mutant of Later: one too far.
LaterStill(b) == IF b >= lastBlock THEN b + 2 ELSE lastBlock

\* last_block, once a block has been seen.
Later(b) == IF b >= lastBlock THEN b + 1 ELSE lastBlock

Check ==
    /\ pc = "check"
    /\ \/ pc' = "read" /\ UNCHANGED <<todo, item, lastBlock, bkSilent>>
       \/ bkSilent' = TRUE /\ lastBlock' = Later(item.block) /\ NextOf(todo)
    /\ UNCHANGED <<bkHead, orders, bkMongo, orderList, bkBoots>>

\* The orders are those of now, and bear the listed block.
Read ==
    /\ pc = "read"
    /\ \/ /\ orderList' = orderList \cup {[contract |-> item.contract,
                                           block |-> orders[item.contract]]}
          /\ pc' = "remove" /\ UNCHANGED <<todo, item, lastBlock, bkSilent>>
       \/ /\ bkSilent' = TRUE /\ lastBlock' = Later(item.block) /\ NextOf(todo)
          /\ UNCHANGED orderList
    /\ UNCHANGED <<bkHead, orders, bkMongo, bkBoots>>

\* Mutant of Kept: the old orders stay.
KeptAll(c) == book

\* What is left when the rows of a contract are removed.
Kept(c) == {x \in book : x.contract # c}

Remove ==
    /\ pc = "remove"
    /\ book' = Kept(item.contract)
    /\ lastBlock' = Later(item.block)
    /\ NextOf(todo)
    /\ UNCHANGED <<bkHead, orders, saved, orderList, bkBoots, bkSilent>>

\* insert_many, unordered.
Insert ==
    /\ pc = "insert"
    /\ \/ orderList = {} /\ pc' = "save" /\ UNCHANGED <<book, orderList>>
       \/ \E x \in orderList : /\ book' = book \cup {x} /\ orderList' = orderList \ {x}
                               /\ UNCHANGED pc
    /\ UNCHANGED <<bkHead, orders, saved, lastBlock, todo, item, bkBoots, bkSilent>>

\* Mutant of ToSave: the height of the chain.
ToSaveHead == bkHead

ToSave == lastBlock

Save ==
    /\ pc = "save"
    /\ saved' = ToSave
    /\ pc' = "ask"
    /\ UNCHANGED <<bkHead, orders, book, lastBlock, todo, item, orderList, bkBoots, bkSilent>>

Run == Ask \/ Check \/ Read \/ Remove \/ Insert \/ Save

-----------------------------------------------------------------------------
BkNext == BkGrow \/ BkBoot \/ BkKill \/ Run

BkSpec == BkInit /\ [][BkNext]_bkVars

\* The collector runs, and somebody starts it again.
BkFairSpec == BkSpec /\ WF_bkVars(BkBoot) /\ WF_bkVars(Run)

-----------------------------------------------------------------------------
(* What must hold.                                                         *)

\* The orders of a contract that ought to be in the book.
Current(c) == IF orders[c] = 0 THEN {} ELSE {[contract |-> c, block |-> orders[c]]}

\* A book that is out of date, or was emptied before a kill, is going to be read
\* again by a process that starts from the saved number, as long as the node
\* answers.
NothingForgotten ==
    ~bkSilent => \A c \in Contract :
        {x \in book : x.contract = c} = Current(c) \/ orders[c] >= saved - Window

\* The orders of a contract in the book are all of one block: those of different
\* times are never mixed, whatever the node leaves without a result.
NeverMixed == \A x, y \in book : x.contract = y.contract => x.block = y.block

\* However kills fall between removing, inserting and saving: a book that is out of
\* date is going to be read again, and never shows orders of two times at once.
BookSound == BkTypeOK /\ NothingForgotten /\ NeverMixed

\* The rounds come to an end, and a collector that is left to run and gets its
\* answers shows the orders of the chain in the end.
BookFollows ==
    \A c \in Contract :
        <>[](pc # "off" /\ ~bkSilent) =>
            /\ []<>(pc = "save")
            /\ <>[](pc = "save" => {x \in book : x.contract = c} = Current(c))
=============================================================================
