--------------------------- MODULE BroadcastCache ---------------------------
(***************************************************************************)
(* Zchain.Trans.broadcastTrx of service/sim_api.py: the answer of the node *)
(* to a raw transaction, an error included, is kept for KeepFor seconds    *)
(* (collection b_broadcast_trans_cache) and given again to whoever asks    *)
(* for the same transaction meanwhile.  Each worker process now and then   *)
(* sweeps the expired records of all workers.                              *)
(*                                                                         *)
(* Time is kept as ages, so that it has no end: a record counts the        *)
(* seconds since effectiveTime, a worker those since its last sweep, and   *)
(* both stop counting once all comparisons come out the same.              *)
(***************************************************************************)
EXTENDS Naturals

CONSTANTS
    Trx, Workers,
    KeepFor,       \* 10 seconds
    SweepEvery     \* 10 minutes

Results   == {"ok", "rejected"}
Ages      == 0..(KeepFor + 1)
SweepAges == 0..(SweepEvery + 1)

VARIABLES
    cache,     \* b_broadcast_trans_cache
    swept,     \* per worker: seconds since last_clean_broadcast_cache_time
    pc,        \* per worker: "idle", "node", "insert", "sweep"
    asked,     \* per worker: the transaction in hand
    result,    \* per worker: the answer of the node
    stored     \* history: age of the newest answer stored for a transaction

vars == <<cache, swept, pc, asked, result, stored>>

TypeOK ==
    /\ cache \subseteq [trx: Trx, age: Ages, result: Results]
    /\ swept \in [Workers -> SweepAges]
    /\ pc \in [Workers -> {"idle", "node", "insert", "sweep"}]
    /\ asked \in [Workers -> Trx]
    /\ result \in [Workers -> Results]
    /\ stored \in [Trx -> Ages]
    \* Until it is old enough to be swept, the newest answer has its record.
    /\ \A t \in Trx : stored[t] <= KeepFor =>
          \E r \in cache : r.trx = t /\ r.age = stored[t]

Init ==
    /\ cache = {}
    /\ swept \in [Workers -> SweepAges]
    /\ pc = [w \in Workers |-> "idle"]
    /\ asked \in [Workers -> Trx]
    /\ result = [w \in Workers |-> "ok"]
    /\ stored = [t \in Trx |-> KeepFor + 1]

Older(age, limit) == IF age < limit THEN age + 1 ELSE limit

\* A second passes.
Tick ==
    /\ cache' = {[r EXCEPT !.age = Older(r.age, KeepFor + 1)] : r \in cache}
    /\ swept' = [w \in Workers |-> Older(swept[w], SweepEvery + 1)]
    /\ stored' = [t \in Trx |-> Older(stored[t], KeepFor + 1)]
    /\ UNCHANGED <<pc, asked, result>>

-----------------------------------------------------------------------------
\* Mutant of Usable: it never expires.
UsableForever(r) == r.age \in Ages

\* {"effectiveTime": {"$gt": now - 10}}
Usable(r) == r.age < KeepFor

\* The answer is in the cache.
AnsweredFromCache(w) ==
    /\ pc[w] = "idle"
    /\ \E r \in cache :
          /\ Usable(r)
          /\ asked' = [asked EXCEPT ![w] = r.trx]
          /\ result' = [result EXCEPT ![w] = r.result]
    /\ UNCHANGED <<cache, swept, pc, stored>>

\* It is not: the transaction goes to the node.
Submit(w, t) ==
    /\ pc[w] = "idle"
    /\ ~\E r \in cache : r.trx = t /\ Usable(r)
    /\ asked' = [asked EXCEPT ![w] = t]
    /\ pc' = [pc EXCEPT ![w] = "node"]
    /\ UNCHANGED <<cache, swept, result, stored>>

NodeAnswers(w) ==
    /\ pc[w] = "node"
    /\ \E r \in Results : result' = [result EXCEPT ![w] = r]
    /\ pc' = [pc EXCEPT ![w] = "insert"]
    /\ UNCHANGED <<cache, swept, asked, stored>>

Record(w) == [trx |-> asked[w], age |-> 0, result |-> result[w]]

\* The answer is stored, whatever it is; a worker that has not swept for
\* SweepEvery seconds goes on to do so.
Insert(w) ==
    /\ pc[w] = "insert"
    /\ cache' = cache \cup {Record(w)}
    /\ stored' = [stored EXCEPT ![asked[w]] = 0]
    /\ pc' = [pc EXCEPT ![w] = IF swept[w] > SweepEvery THEN "sweep" ELSE "idle"]
    /\ UNCHANGED <<swept, asked, result>>

\* Mutant of Expired: everything that is not of this second.
ExpiredAtOnce(r) == r.age > 0

\* {"effectiveTime": {"$lt": now - 10}}
Expired(r) == r.age > KeepFor

Sweep(w) ==
    /\ pc[w] = "sweep"
    /\ cache' = {r \in cache : ~Expired(r)}
    /\ swept' = [swept EXCEPT ![w] = 0]
    /\ pc' = [pc EXCEPT ![w] = "idle"]
    /\ UNCHANGED <<asked, result, stored>>

Serve(w) == NodeAnswers(w) \/ Insert(w) \/ Sweep(w)

Next ==
    \/ Tick
    \/ \E w \in Workers :
          \/ AnsweredFromCache(w) \/ \E t \in Trx : Submit(w, t)
          \/ Serve(w)

Spec == Init /\ [][Next]_vars

\* The clock runs, and calls that have begun end: the node answers or times
\* out.  Clients of every transaction keep calling, and each worker gets its
\* share of the calls, in whatever order.
Fairness ==
    /\ WF_vars(Tick)
    /\ \A w \in Workers : WF_vars(Serve(w))
    /\ \A t \in Trx : SF_vars(\E w \in Workers : Submit(w, t))

-----------------------------------------------------------------------------
(* What must hold.                                                         *)

\* An answer that any worker has stored is given again for KeepFor seconds: in
\* that time no call takes the transaction to the node again, whatever the
\* other workers sweep.  (Calls that overlap the first one do: the look and
\* the insert are not one step.)
NoResubmission ==
    [][\A w \in Workers, t \in Trx :
          Submit(w, t) => stored[t] >= KeepFor]_vars

\* A transaction that clients keep sending reaches the node again and again:
\* a rejection kept in the cache is not kept alive by the calls it answers.
Resubmitted ==
    \A t \in Trx : []<>(\E w \in Workers : pc[w] = "node" /\ asked[w] = t)
=============================================================================
