----------------------------- MODULE AddressBook -----------------------------
(***************************************************************************)
(* The addresses a client registers through service/sim_api.py, and the    *)
(* places that must learn of them.                                         *)
(*                                                                         *)
(* Zchain.Multisig.Create has the node make a multisig address ("btc",     *)
(* which stands for sim_btc_plugin and usdt; hc and btm do without the     *)
(* wallet), removes the row it finds of it in b_<coin>_multisig_address    *)
(* and inserts a new one.  The collector of the coin loads the table when  *)
(* it starts and after blocks at the end of the chain.                     *)
(*                                                                         *)
(* Zchain.Addr.importAddr, and importAddrs one address after the other,    *)
(* tell the node's wallet ("btc"), or write to b_eths_address, which the   *)
(* collector reads for every transaction, and then tell eth_collect        *)
(* ("eth").  An address with the suffix "erc" is of a contract.            *)
(*                                                                         *)
(* Several workers serve the calls.  A step is one call to a database, the *)
(* node or eth_collect.  Multisig.Add is left out: it calls a method of    *)
(* the utilities that is not defined, and does nothing but fail.           *)
(***************************************************************************)
EXTENDS Naturals, Sequences

CONSTANTS
    Addr, Workers,
    Tokens,      \* erc_chainId_map
    Unlisted,    \* an "erc" chain that is not in it
    ListLen,     \* bound of the lists of importAddrs
    MaxItems     \* bound of the addresses that are registered, calls taken together

Chains == Tokens \cup {"eth", Unlisted}

Create(a)      == [op |-> "create", chain |-> "btc", addr |-> a, erc |-> FALSE]
WalletImports  == [op : {"import"}, chain : {"btc"}, addr : Addr, erc : {FALSE}]
EthImports     == [op : {"import"}, chain : Chains, addr : Addr, erc : BOOLEAN]
Items          == {Create(a) : a \in Addr} \cup WalletImports \cup EthImports
Batches(S)     == UNION {[1..n -> S] : n \in 1..ListLen}

VARIABLES
    coin,       \* "btc" or "eth"
    rows,       \* its collection of addresses
    told,       \* the addresses the wallet, or relation_address of eth_collect, has
    watched,    \* multisig_address_cache of the collector
    pc, todo,   \* per worker: its step, and the list it works through
    items,      \* how many addresses the calls so far had
    done,       \* history: the items that have been worked through
    failed      \* history: a call was broken off, or a refusal went unnoticed

table == <<coin, rows, watched>>
vars  == <<table, told, pc, todo, items, done, failed>>

Steps == {"idle", "node", "look", "remove", "insert again", "insert", "update", "tell", "tell erc"}

TypeOK ==
    /\ coin \in {"btc", "eth"}
    /\ rows \subseteq [chain : Chains \cup {"btc"}, addr : Addr, contract : BOOLEAN]
    /\ told \subseteq Addr \X {"wallet", "normal", "erc"}
    /\ watched \subseteq Addr
    /\ pc \in [Workers -> Steps] /\ \A w \in Workers : todo[w] \in Seq(Items)
    /\ items \in 0..MaxItems /\ done \subseteq Items /\ failed \in BOOLEAN

Init ==
    /\ coin \in {"btc", "eth"}
    /\ rows = {} /\ told = {} /\ watched = {}
    /\ pc = [w \in Workers |-> "idle"] /\ todo = [w \in Workers |-> << >>]
    /\ items = 0 /\ done = {} /\ failed = FALSE

-----------------------------------------------------------------------------
Item(w) == Head(todo[w])
Row(it) == [chain |-> it.chain, addr |-> it.addr, contract |-> it.erc]
RowsOf(it) == {r \in rows : r.chain = it.chain /\ r.addr = it.addr}

\* The step an item begins with.  A token that is not listed is passed over.
First(it) ==
    CASE it.op = "create"                      -> "node"
      [] it.op = "import" /\ it.chain = "btc"  -> "tell"
      [] it.op = "import" /\ it.chain # "btc"  -> "look"

Begins(list) == IF list # << >> /\ Head(list).chain # Unlisted THEN First(Head(list)) ELSE "idle"

\* Head of the list done: the next one, or the answer.
Finish(w) ==
    /\ done' = done \cup {Item(w)}
    /\ todo' = [todo EXCEPT ![w] = Tail(@)]
    /\ pc' = [pc EXCEPT ![w] = Begins(Tail(todo[w]))]

GoTo(w, step) == pc' = [pc EXCEPT ![w] = step] /\ UNCHANGED <<todo, done>>

\* A client calls Multisig.Create, importAddr or importAddrs.
Call(w) ==
    /\ pc[w] = "idle" /\ todo[w] = << >>
    /\ \E list \in IF coin = "eth" THEN Batches(EthImports)
                   ELSE {<<Create(a)>> : a \in Addr} \cup Batches(WalletImports) :
          /\ items + Len(list) <= MaxItems /\ items' = items + Len(list)
          /\ todo' = [todo EXCEPT ![w] = list]
          /\ pc' = [pc EXCEPT ![w] = Begins(list)]
    /\ UNCHANGED <<table, told, done, failed>>

\* An item of an unlisted token: nothing happens, and the answer does not say so.
PassOver(w) ==
    /\ pc[w] = "idle" /\ todo[w] # << >>
    /\ Finish(w)
    /\ UNCHANGED <<table, told, items, failed>>

\* createmultisig and importaddress at the node.
CreateAtNode(w) ==
    /\ pc[w] = "node"
    /\ told' = told \cup {<<Item(w).addr, "wallet">>}
    /\ GoTo(w, "look")
    /\ UNCHANGED <<table, items, failed>>

\* find_one
Look(w) ==
    /\ pc[w] = "look"
    /\ GoTo(w, CASE RowsOf(Item(w)) = {}                           -> "insert"
                 [] RowsOf(Item(w)) # {} /\ Item(w).op = "create"  -> "remove"
                 [] RowsOf(Item(w)) # {} /\ Item(w).op = "import"  -> "update")
    /\ UNCHANGED <<table, told, items, failed>>

Remove(w) ==
    /\ pc[w] = "remove"
    /\ rows' = rows \ RowsOf(Item(w))
    /\ GoTo(w, "insert again")
    /\ UNCHANGED <<coin, watched, told, items, failed>>

\* Mutant of Inserted: a row that was removed is not inserted again.
InsertedOnce(w) == IF pc[w] = "insert" THEN rows \cup {Row(Item(w))} ELSE rows

Inserted(w) == rows \cup {Row(Item(w))}

\* insert_one.  Only b_eths_address has a unique key: who comes second there ends
\* with an error, and tells eth_collect nothing.
Insert(w) ==
    /\ pc[w] \in {"insert", "insert again"}
    /\ IF Item(w).op = "create"
         THEN rows' = Inserted(w) /\ Finish(w)
         ELSE IF RowsOf(Item(w)) = {}
                THEN rows' = Inserted(w) /\ GoTo(w, "tell")
                ELSE /\ pc' = [pc EXCEPT ![w] = "idle"] /\ todo' = [todo EXCEPT ![w] = << >>]
                     /\ UNCHANGED <<rows, done>>
    /\ UNCHANGED <<coin, watched, told, items, failed>>

\* {"$set": {"isContractAddress": ...}}
Update(w) ==
    /\ pc[w] = "update"
    /\ rows' = {[r EXCEPT !.contract = IF r \in RowsOf(Item(w)) THEN Item(w).erc ELSE @] : r \in rows}
    /\ GoTo(w, "tell")
    /\ UNCHANGED <<coin, watched, told, items, failed>>

\* Mutant of AfterTell: contracts are registered as normal addresses only.
AfterTellDone(it) == "done"

\* add_guard_address makes a second call for a contract.
AfterTell(it) == IF it.erc THEN "tell erc" ELSE "done"

\* Service.AddNormalAddress of eth_collect, or importaddress of the node.
Tell(w) ==
    /\ pc[w] = "tell"
    /\ told' = told \cup {<<Item(w).addr, IF coin = "btc" THEN "wallet" ELSE "normal">>}
    /\ IF AfterTell(Item(w)) = "done" THEN Finish(w) ELSE GoTo(w, "tell erc")
    /\ UNCHANGED <<table, items, failed>>

\* Service.AddErc20Address.
TellErc(w) ==
    /\ pc[w] = "tell erc"
    /\ told' = told \cup {<<Item(w).addr, "erc">>}
    /\ Finish(w)
    /\ UNCHANGED <<table, items, failed>>

Serve(w) ==
    \/ PassOver(w) \/ CreateAtNode(w) \/ Look(w) \/ Remove(w) \/ Insert(w) \/ Update(w)
    \/ Tell(w) \/ TellErc(w)

\* A request that is not answered, or a worker that dies: the call is broken off.
BreakOff(w) ==
    /\ ~failed /\ todo[w] # << >>
    /\ failed' = TRUE
    /\ pc' = [pc EXCEPT ![w] = "idle"] /\ todo' = [todo EXCEPT ![w] = << >>]
    /\ UNCHANGED <<table, told, items, done>>

\* A refusal of the wallet or of eth_collect, which nobody looks at.
Unnoticed(w) ==
    /\ ~failed /\ pc[w] \in {"node", "tell", "tell erc"}
    /\ failed' = TRUE
    /\ CASE pc[w] = "node"      -> GoTo(w, "look")
         [] pc[w] = "tell erc"  -> Finish(w)
         [] pc[w] = "tell"      ->
              IF AfterTell(Item(w)) = "done" THEN Finish(w) ELSE GoTo(w, "tell erc")
    /\ UNCHANGED <<table, told, items>>

-----------------------------------------------------------------------------
(* The collector of the coin: _update_cache.                               *)

InBook == {r.addr : r \in rows}

Boot ==
    /\ coin = "btc"
    /\ watched' = InBook
    /\ UNCHANGED <<coin, rows, told, pc, todo, items, done, failed>>

\* Mutant of Refreshed: the table is loaded at the start only.
RefreshedNever == watched

Refreshed == watched \cup InBook

Refresh ==
    /\ coin = "btc"
    /\ watched' = Refreshed
    /\ UNCHANGED <<coin, rows, told, pc, todo, items, done, failed>>

\* All calls are answered: the bound of the model, not an end of the service.
AtRest ==
    /\ items = MaxItems /\ \A w \in Workers : todo[w] = << >>
    /\ UNCHANGED vars

Next ==
    \/ AtRest
    \/ Boot \/ Refresh
    \/ \E w \in Workers : Call(w) \/ Serve(w) \/ BreakOff(w) \/ Unnoticed(w)

Spec == Init /\ [][Next]_vars

\* Calls that have begun go on; the collector, at the end of the chain, comes to
\* refresh its addresses again and again.
Fairness == WF_vars(Refresh) /\ \A w \in Workers : WF_vars(Serve(w))

-----------------------------------------------------------------------------
(* What must hold, as long as nothing has failed.                          *)

Busy(a) == \E w \in Workers : todo[w] # << >> /\ Item(w).addr = a

\* However calls for the same address overlap, one that has been answered leaves it
\* in its table; a multisig address is missing only while another call of it is
\* between its remove and its insert.
BookHolds ==
    \A it \in done :
        \/ failed \/ it.chain = Unlisted
        \/ it.op = "import" /\ coin = "btc"
        \/ RowsOf(it) # {}
        \/ \E w \in Workers : pc[w] = "insert again" /\ Item(w) = it

\* What has been imported is known where it has to be: to the wallet of the node, or
\* to eth_collect, and there as a contract if it was imported as one.
ImportsTold ==
    \A it \in done : it.op = "import" =>
        \/ failed \/ it.chain = Unlisted
        \/ coin = "btc" /\ <<it.addr, "wallet">> \in told
        \/ coin = "eth" /\ <<it.addr, "normal">> \in told /\ (it.erc => <<it.addr, "erc">> \in told)

\* The two stores agree: an address that the collector takes for a contract is one
\* that eth_collect keeps token transfers of, unless a call is on its way to say so.
StoresAgree ==
    \A r \in rows : r.contract =>
        failed \/ <<r.addr, "erc">> \in told \/ Busy(r.addr)

\* No address has two rows in b_eths_address.
OneRow == coin = "eth" => \A r, s \in rows : r.chain = s.chain /\ r.addr = s.addr => r = s

\* What a client that registers addresses relies on.
Registered == BookHolds /\ ImportsTold /\ StoresAgree /\ OneRow

\* The collector comes to watch every multisig address that was answered, however
\* it was started amid the calls.
Watches ==
    \A a \in Addr : (coin = "btc" /\ Create(a) \in done) ~> (a \in watched \/ failed)
=============================================================================
