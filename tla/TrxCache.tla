------------------------------ MODULE TrxCache ------------------------------
(***************************************************************************)
(* The transaction cache of service/sim_api.py: Zchain.Trans.queryTrans    *)
(* and queryTransBatch share the collection b_query_trans_cache, several   *)
(* workers (gunicorn.conf) serve both calls, and a worker gives way at     *)
(* every call to the node or to the database.  A record is never removed   *)
(* or renewed, so what it says must never change again.                    *)
(*                                                                         *)
(* An answer is abstracted to the place of the transaction: the height of  *)
(* its block, or the mempool.  A batch is served one transaction after the *)
(* other, each as a call of its own would be, so a call has one            *)
(* transaction here.  Coins: those of sim_btc_plugin ("btc"), "usdt",      *)
(* "btm", whose transactions the index of btc_collect finds, and "eth"     *)
(* (and its tokens), of which an answer is made of two requests.  hc       *)
(* decides by a field of the inputs that only its node defines, and is     *)
(* left out.                                                               *)
(***************************************************************************)
EXTENDS Integers

CONSTANTS
    Trx, Workers,
    SafeConf,      \* 7, the confirmations that are not yet enough; and SafeBlock of btm
    MaxReorg,      \* the deepest reorganisation
    MaxHeight      \* bound of the chain

Coins == {"btc", "usdt", "btm", "eth"}

\* A block with more than SafeConf confirmations stays.
ASSUME FinalityAssumption ==
    SafeConf \in Nat /\ MaxReorg \in 0..SafeConf /\ MaxHeight \in Nat /\ MaxHeight > 0

ASSUME TrxAssumption == Trx # {}

Unknown == -1
Mempool == 0
Places  == Unknown..MaxHeight
Calls   == {"query", "batch"}
Records == [trx: Trx, source: Places, place: Places, by: Calls]

VARIABLES
    coin,     \* the chain whose transactions are asked for
    tip,      \* height of the node's chain
    place,    \* where the node has each transaction
    cache,    \* b_query_trans_cache
    pc,       \* per worker: "idle", "ask" the node (of eth twice, "receipt"), "save" the answer
    call,     \* per worker: the call in hand, or the last one answered; of eth, source is
              \* the place of the first half of the answer, source_trx
    replaced  \* history, of eth: the heights at which a block has been replaced

vars == <<coin, tip, place, cache, pc, call, replaced>>

TypeOK ==
    /\ coin \in Coins /\ tip \in 1..MaxHeight
    /\ place \in [Trx -> Places]
    /\ \A t \in Trx : place[t] <= tip
    /\ cache \subseteq Records
    /\ \A r \in cache : r.place # Unknown
    /\ pc \in [Workers -> {"idle", "ask", "receipt", "save"}]
    /\ call \in [Workers -> Records] /\ replaced \subseteq 1..MaxHeight

Fresh(t, c) == [trx |-> t, source |-> Unknown, place |-> Unknown, by |-> c]

Init ==
    /\ coin \in Coins /\ tip = 1
    /\ place = [t \in Trx |-> Unknown]
    /\ cache = {}
    /\ pc = [w \in Workers |-> "idle"]
    /\ call = [w \in Workers |-> Fresh(CHOOSE t \in Trx : TRUE, "query")]
    /\ replaced = {}

-----------------------------------------------------------------------------
(* The node.                                                               *)

\* The chain grows by a block after giving up its last d ones: transactions of
\* those blocks and of the mempool find a new place, or are dropped.
NodeGrows ==
    /\ tip < MaxHeight
    /\ \E d \in 0..MaxReorg :
          /\ d < tip
          /\ LET Moves(t) == place[t] > tip - d \/ place[t] <= Mempool
                 New      == {Unknown, Mempool} \cup (tip - d + 1)..(tip + 1)
             IN  \E new \in [{t \in Trx : Moves(t)} -> New] :
                    place' = [t \in Trx |-> IF Moves(t) THEN new[t] ELSE place[t]]
          /\ replaced' = IF coin = "eth" THEN replaced \cup (tip - d + 1)..tip ELSE replaced
    /\ tip' = tip + 1
    /\ UNCHANGED <<coin, cache, pc, call>>

Confirmations(p) == IF p > Mempool THEN tip - p + 1 ELSE 0

\* bitcoind leaves "confirmations" out of the answer for the mempool.
HasConfirmations(p) == p > Mempool

-----------------------------------------------------------------------------
(* The service.                                                            *)

\* Mutant of QueryCaches: mined is taken for final.
QueryCachesMined(p) == HasConfirmations(p)

\* queryTrans keeps an answer that has more than SafeConf confirmations, and any
\* answer for btm, which does not tell them.
QueryCaches(p) == coin = "btm" \/ (HasConfirmations(p) /\ Confirmations(p) > SafeConf)

\* Mutant of BatchCaches: usdt is kept like the other coins.
BatchCachesAll(p) == HasConfirmations(p) => Confirmations(p) > 0

\* queryTransBatch keeps a btc answer unless it says 0 confirmations, an
\* answer without the field included; it keeps nothing for usdt and btm.
BatchCaches(p) == coin = "btc" /\ (HasConfirmations(p) => Confirmations(p) > 0)

\* A call that finds a record is answered from it.
AnsweredFromCache(w) ==
    /\ pc[w] = "idle"
    /\ \E r \in cache : call' = [call EXCEPT ![w] = r]
    /\ UNCHANGED <<coin, tip, place, cache, pc, replaced>>

\* One that finds none goes on to the node.  Of eth the two calls do the same.
Begin(w) ==
    /\ pc[w] = "idle"
    /\ \E t \in Trx, c \in IF coin = "eth" THEN {"query"} ELSE Calls :
          /\ ~\E r \in cache : r.trx = t
          /\ call' = [call EXCEPT ![w] = Fresh(t, c)]
    /\ pc' = [pc EXCEPT ![w] = "ask"]
    /\ UNCHANGED <<coin, tip, place, cache, replaced>>

\* Mutant of Succeeds: the error answer is taken for a transaction.
SucceedsAlways(p) == p \in Places

\* Anything but an error, for which the utility returns the empty string.
Succeeds(p) == p # Unknown

\* What the utility finds: at the node all it has; of btm what the index of btc_collect
\* has come to by now, which is blocks of the depth SafeBlock only.
Found(t) ==
    IF coin = "btm" THEN {Unknown} \cup {p \in {place[t]} : Confirmations(p) > SafeConf}
                    ELSE {place[t]}

\* The node answers: an error, an answer to be passed on, or one to be kept.
Answered(w) ==
    /\ pc[w] = "ask" /\ coin # "eth"
    /\ \E p \in Found(call[w].trx) :
          LET Keeps == IF call[w].by = "query" THEN QueryCaches(p) ELSE BatchCaches(p)
          IN  /\ call' = [call EXCEPT ![w].place = p]
              /\ pc' = [pc EXCEPT ![w] = IF Succeeds(p) /\ Keeps THEN "save" ELSE "idle"]
    /\ UNCHANGED <<coin, tip, place, cache, replaced>>

\* get_transaction_data, Service.GetTrx: the transaction, mined or not.
GetTrx(w) ==
    /\ pc[w] = "ask" /\ coin = "eth"
    /\ LET p == place[call[w].trx] IN
       /\ call' = [call EXCEPT ![w].source = p]
       /\ pc' = [pc EXCEPT ![w] = IF p = Unknown THEN "idle" ELSE "receipt"]
    /\ UNCHANGED <<coin, tip, place, cache, replaced>>

\* Mutant of HasReceipt: the node has one of a transaction in its mempool.
HasReceiptAny(p) == p # Unknown

HasReceipt(p) == p > Mempool

\* Service.GetTrxReceipt.  Without a receipt the call, or the batch, ends with an
\* error; with one, the answer is kept, whatever its confirmations.
GetTrxReceipt(w) ==
    /\ pc[w] = "receipt"
    /\ LET p == place[call[w].trx] IN
       IF HasReceipt(p)
         THEN call' = [call EXCEPT ![w].place = p] /\ pc' = [pc EXCEPT ![w] = "save"]
         ELSE call' = [call EXCEPT ![w].source = Unknown] /\ pc' = [pc EXCEPT ![w] = "idle"]
    /\ UNCHANGED <<coin, tip, place, cache, replaced>>

\* insert_one: there is no second look and no unique key.
Save(w) ==
    /\ pc[w] = "save"
    /\ cache' = cache \cup {call[w]}
    /\ pc' = [pc EXCEPT ![w] = "idle"]
    /\ UNCHANGED <<coin, tip, place, call, replaced>>

Next ==
    \/ NodeGrows
    \/ \E w \in Workers :
          AnsweredFromCache(w) \/ Begin(w) \/ Answered(w) \/ GetTrx(w) \/ GetTrxReceipt(w)
            \/ Save(w)

Spec == Init /\ [][Next]_vars

-----------------------------------------------------------------------------
(* What must hold.                                                         *)

\* What queryTrans keeps stays true, whatever the chain does between the
\* node's answer and the insert and ever after, whichever other worker stores
\* an answer for the same transaction.
FinalByQuery ==
    coin # "eth" => \A r \in cache : r.by = "query" => r.place = place[r.trx]

\* A usdt or btm record of either call stays true: queryTrans and queryTransBatch
\* never answer from the cache what the node would deny.
CachedIsFinal ==
    coin \in {"usdt", "btm"} => \A r \in cache : r.place = place[r.trx]

\* What is kept of eth is wrong only about blocks that have been replaced, which may be
\* any number of confirmations after it was asked for.  The two halves of an answer
\* agree, but that the first may be from before the transaction was mined.
EthAsMined ==
    coin = "eth" => \A r \in cache :
        /\ r.place \in {place[r.trx]} \cup replaced
        /\ r.source \in {r.place, Mempool} \cup replaced
=============================================================================
