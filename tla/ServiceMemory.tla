---------------------------- MODULE ServiceMemory ----------------------------
(***************************************************************************)
(* What service/sim_api.py remembers of others: each worker process the    *)
(* list of senators of a file (Zchain.Plugin.QueryWhiteListSenatorId), for *)
(* Keep seconds, and all of them together the signatures that were good    *)
(* (Zchain.Crypt.VerifyMessage), in b_verify_cache and for ever.           *)
(*                                                                         *)
(* The clock of the list is set before the file is read: after a read that *)
(* failed, of a file that is missing or has no line with a list, the       *)
(* worker gives the list it had, or the empty one, without another look.   *)
(* Reading a file does not give way to other calls.  Ages stop counting    *)
(* when all comparisons come out the same.                                 *)
(***************************************************************************)
EXTENDS Naturals

CONSTANTS
    Lists,         \* what the file may hold
    NoList,        \* no list: an unreadable file, and what a worker starts with
    Workers,
    Keep,          \* 60 seconds
    Claims,        \* address, message and signature of a call
    Good           \* those the node confirms

VARIABLES
    file,          \* WHITE_LIST_FILE_PATH
    list,          \* per worker: bak_white_list_datas
    age,           \* per worker: seconds since bak_white_list_time
    readOk,        \* history, per worker: the last read succeeded
    lastIn,        \* history: seconds since a list was last in the file
    proved,        \* b_verify_cache
    asks,          \* per worker: the claim in hand, with the step of its call
    verdict        \* per worker: the answer to the last one

memo   == <<file, list, age, readOk, lastIn>>
claims == <<proved, asks, verdict>>

Ages == 0..(Keep + 1)

TypeOK ==
    /\ Good \subseteq Claims /\ NoList \notin Lists
    /\ file \in Lists \cup {NoList}
    /\ list \in [Workers -> Lists \cup {NoList}]
    /\ age \in [Workers -> Ages] /\ lastIn \in [Lists -> Ages]
    /\ readOk \in [Workers -> BOOLEAN]
    /\ proved \subseteq Claims
    /\ asks \in [Workers -> [claim : Claims, step : {"done", "node", "keep"}]]
    /\ verdict \in [Workers -> BOOLEAN]

Init ==
    /\ file \in Lists \cup {NoList}
    /\ list = [w \in Workers |-> NoList] /\ age = [w \in Workers |-> Keep + 1]
    /\ readOk = [w \in Workers |-> FALSE]
    /\ lastIn = [l \in Lists |-> IF l = file THEN 0 ELSE Keep + 1]
    /\ proved = {}
    /\ asks \in [Workers -> [claim : Claims, step : {"done"}]]
    /\ verdict = [w \in Workers |-> FALSE]

Older(n) == IF n <= Keep THEN n + 1 ELSE n

\* A second passes, in which the file may have been written.
Tick ==
    /\ file' \in Lists \cup {NoList}
    /\ lastIn' = [l \in Lists |-> IF l = file' THEN 0 ELSE Older(lastIn[l])]
    /\ age' = [w \in Workers |-> Older(age[w])]
    /\ UNCHANGED <<list, readOk>>

-----------------------------------------------------------------------------
LooksAgain(w) == age[w] > Keep

\* Mutant of Clock: every call sets it.
ClockEver(w) == 0

Clock(w) == IF LooksAgain(w) THEN 0 ELSE age[w]

\* QueryWhiteListSenatorId: a call that looks and finds no list ends with an error.
QueryWhiteList(w) ==
    /\ age' = [age EXCEPT ![w] = Clock(w)]
    /\ IF LooksAgain(w)
         THEN /\ list' = [list EXCEPT ![w] = IF file # NoList THEN file ELSE @]
              /\ readOk' = [readOk EXCEPT ![w] = (file # NoList)]
         ELSE UNCHANGED <<list, readOk>>
    /\ UNCHANGED <<file, lastIn>>

ListNext == Tick \/ \E w \in Workers : QueryWhiteList(w)

-----------------------------------------------------------------------------

\* VerifyMessage: a claim in the cache is good.
Recalled(w) ==
    /\ asks[w].step = "done"
    /\ \E c \in proved : asks' = [asks EXCEPT ![w].claim = c]
    /\ verdict' = [verdict EXCEPT ![w] = TRUE]
    /\ UNCHANGED proved

AskNode(w) ==
    /\ asks[w].step = "done"
    /\ \E c \in Claims \ proved : asks' = [asks EXCEPT ![w] = [claim |-> c, step |-> "node"]]
    /\ UNCHANGED <<proved, verdict>>

\* Mutant of Kept: any answer is kept.
KeptAny(yes) == TRUE

\* Only a good claim is kept: an error of the node is a "no" that is not.
Kept(yes) == yes

\* The node's answer, or an error instead of it.
NodeVerifies(w) ==
    /\ asks[w].step = "node"
    /\ \E yes \in BOOLEAN :
          /\ yes => asks[w].claim \in Good
          /\ verdict' = [verdict EXCEPT ![w] = yes]
          /\ asks' = [asks EXCEPT ![w].step = IF Kept(yes) THEN "keep" ELSE "done"]
    /\ UNCHANGED proved

KeepClaim(w) ==
    /\ asks[w].step = "keep"
    /\ proved' = proved \cup {asks[w].claim}
    /\ asks' = [asks EXCEPT ![w].step = "done"]
    /\ UNCHANGED verdict

ClaimNext ==
    \E w \in Workers : Recalled(w) \/ AskNode(w) \/ NodeVerifies(w) \/ KeepClaim(w)

-----------------------------------------------------------------------------
\* No worker gives a list that left the file more than Keep seconds ago, unless its
\* last look at the file failed; in particular two workers disagree no longer.
ListFresh ==
    \A w \in Workers : readOk[w] /\ age[w] <= Keep => lastIn[list[w]] <= age[w]

\* Whoever of the workers asks, a signature is called good only if the node once
\* said so.
VerdictTrue ==
    /\ proved \subseteq Good
    /\ \A w \in Workers : verdict[w] /\ asks[w].step = "done" => asks[w].claim \in Good
=============================================================================
