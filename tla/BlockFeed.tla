------------------------------ MODULE BlockFeed ------------------------------
(***************************************************************************)
(* What the block pipeline of btc_collect promises to the handler, and     *)
(* what module UtxoIndex takes for granted: blocks come one height after   *)
(* the other and none past count, the exit token comes only when nothing   *)
(* that was fed is left, and the low phase starts where the fast one       *)
(* ended.                                                                  *)
(***************************************************************************)
EXTENDS Naturals

CONSTANTS
    FirstHeight,   \* the stored height the process started from
    FastCount,     \* the safe block count of the node at the start
    LastCount,     \* the count the chain grows to
    BadHeights     \* blocks with an input the index may lack

VARIABLES
    phase,    \* "fast" or "low"
    count,    \* the count main feeds up to
    got,      \* the last block the handler received
    state,    \* the handler: "running", "exited" (exit token) or "dead"
    isDone    \* is_done

feedVars == <<phase, count, got, state, isDone>>

FeedInit ==
    /\ phase = "fast" /\ count = FastCount /\ got = FirstHeight
    /\ state = "running" /\ isDone = FALSE

Deliver ==
    /\ state = "running" /\ got + 1 < count
    /\ got' = got + 1
    /\ \/ UNCHANGED <<state, isDone>>
       \/ got + 1 \in BadHeights /\ state' = "dead" /\ isDone' = TRUE
    /\ UNCHANGED <<phase, count>>

Exit ==
    /\ state = "running"
    /\ \/ phase = "fast" /\ (isDone \/ got + 1 >= count)
       \/ phase = "low" /\ isDone /\ got + 1 >= count
    /\ state' = "exited"
    /\ UNCHANGED <<phase, count, got, isDone>>

Resume ==
    /\ phase = "fast" /\ state = "exited" /\ ~isDone
    /\ phase' = "low" /\ state' = "running" /\ got' = count - 1
    /\ UNCHANGED <<count, isDone>>

Grow ==
    /\ phase = "low" /\ ~isDone
    /\ \E c \in (count + 1)..LastCount : count' = c
    /\ UNCHANGED <<phase, got, state, isDone>>

Stop == ~isDone /\ isDone' = TRUE /\ UNCHANGED <<phase, count, got, state>>

FeedNext == Deliver \/ Exit \/ Resume \/ Grow \/ Stop

FeedSpec == FeedInit /\ [][FeedNext]_feedVars
=============================================================================
