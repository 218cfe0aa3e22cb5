----------------------------- MODULE UtxoService -----------------------------
(***************************************************************************)
(* The JSON-RPC service of go_collector_services/btc_collect/server.go on  *)
(* top of the index: GetBlockHeight, ListUnSpent and GetBalance, as the    *)
(* wallet calls them while the collector goes on flushing.  A call reads   *)
(* one snapshot of one store (a LevelDB iterator), so it is one step; but  *)
(* a flush writes the store in many, and the height is in another one.     *)
(*                                                                         *)
(* A client remembers the height it last asked for.  What it is told after *)
(* that must fit the height, although the two calls read different stores  *)
(* at different moments, with restarts of the collector in between.        *)
(***************************************************************************)
EXTENDS UtxoIndex, FiniteSetsExt

CONSTANTS
    Addr,
    OwnerOf,     \* the address of every output
    Amount,      \* its value
    Dust,        \* 0.0001: ListUnSpent leaves out what is not worth more
    ListCap      \* 1500: it stops at so many outputs

ASSUME WalletAssumption ==
    /\ IsFiniteSet(Output) /\ OwnerOf \in [Output -> Addr]
    /\ Amount \in [Output -> Nat]
    /\ Dust \in Nat /\ ListCap \in Nat \ {0}

VARIABLES
    seen,      \* the height the client was last told
    reply      \* the last answer to ListUnSpent or GetBalance; history: the height
               \* the client knew (or the stored one), the last block applied

NoReply == [call |-> "none"]

serviceVars == <<vars, seen, reply>>

Worth(outs) == MapThenSumSet(LAMBDA o : Amount[o], outs)

-----------------------------------------------------------------------------
\* The service is started with the low phase (main.go:1270).
Serving == pc # "off" /\ phase = "low"

GetBlockHeight ==
    /\ Serving
    /\ seen' = height
    /\ UNCHANGED <<vars, reply>>

\* Mutant of Owned: the prefix of the key, 20 characters of the address, is
\* all that is compared.
OwnedByPrefix(a, outs) == {o \in outs : OwnerOf[o] \in Addr}

\* The outputs of an address; those that only share the prefix of the key are
\* left out.
Owned(a, outs) == {o \in outs : OwnerOf[o] = a}

Listable(a) == {o \in Owned(a, addrDb) : Amount[o] > Dust}

\* Mutant of Lists: the list stops one short of the cap.
ListsFewer(a) ==
    {outs \in SUBSET Listable(a) :
        \/ outs = Listable(a) /\ Cardinality(outs) < ListCap
        \/ Cardinality(outs) = ListCap - 1}

\* The map is walked in any order until the list is full.
Lists(a) ==
    {outs \in SUBSET Listable(a) :
        \/ outs = Listable(a) /\ Cardinality(outs) < ListCap
        \/ Cardinality(outs) = ListCap}

ListUnSpent ==
    /\ Serving
    /\ \E a \in Addr : \E outs \in Lists(a) :
          reply' = [call |-> "list", addr |-> a, outs |-> outs,
                    seen |-> seen, upto |-> lastHeight]
    /\ UNCHANGED <<vars, seen>>

\* GetBalance counts dust and has no cap.
GetBalance ==
    /\ Serving
    /\ \E a \in Addr :
          reply' = [call |-> "balance", addr |-> a, total |-> Worth(Owned(a, addrDb)),
                    from |-> height, upto |-> lastHeight]
    /\ UNCHANGED <<vars, seen>>

Rpc == GetBlockHeight \/ ListUnSpent \/ GetBalance

ServiceInit == Init /\ seen = 0 /\ reply = NoReply
ServiceNext == Rpc \/ (Next /\ UNCHANGED <<seen, reply>>)
ServiceSpec == ServiceInit /\ [][ServiceNext]_serviceVars

-----------------------------------------------------------------------------
(* What must hold.                                                         *)

CoinsOf(a, outs) == {o \in outs : OwnerOf[o] = a}

\* A coin that is spent at the height the client knows is never offered to it,
\* and no coin of someone else or of a block to come.
ListSpendable ==
    intact /\ reply.call = "list" =>
        reply.outs \subseteq
            CoinsOf(reply.addr, Created(BlockEnd[reply.upto])) \ Spent(BlockEnd[reply.seen])

\* A list that is not full has every coin worth listing that is unspent at the
\* height the client knows, and that no block has spent since.
ListComplete ==
    intact /\ reply.call = "list" /\ Cardinality(reply.outs) < ListCap =>
        {o \in CoinsOf(reply.addr, UnspentAt(reply.seen)) : Amount[o] > Dust}
            \ Spent(BlockEnd[reply.upto])
            \subseteq reply.outs

\* A balance read at any moment is at least that of the stored height or that of
\* the last block, whichever is less, and at most that of the coins of both: a
\* flush that moves money from an old coin to a new one never shows neither.
BalanceInBounds ==
    intact /\ reply.call = "balance" =>
        LET old == CoinsOf(reply.addr, UnspentAt(reply.from))
            new == CoinsOf(reply.addr, UnspentAt(reply.upto))
        IN  /\ reply.total >= Worth(old) \/ reply.total >= Worth(new)
            /\ reply.total <= Worth(old \cup new)

\* With blocks that list a child before its parent the index stays exact; no list of
\* coins offers one the client could know to be spent, and none that has room leaves a
\* coin out, although blocks are flushed between its two reads.
ListExact == Exact /\ ListSpendable /\ ListComplete
=============================================================================
