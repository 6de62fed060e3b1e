--------------------------- MODULE QueueRotation ---------------------------
(***************************************************************************)
(* The order in which a worker asks its queues for a job: Worker.          *)
(* _fetch_next and the cursor that outlives the calls.  Every pop is an    *)
(* await, so queues fill and empty in the middle of a scan.                *)
(*                                                                         *)
(* Of a queue only whether it has a job to pop is kept; a pop may or may   *)
(* not take the last one.                                                  *)
(*                                                                         *)
(* Bound: passed is counted up to the number of the worker's queues.       *)
(***************************************************************************)
EXTENDS Integers, Sequences

CONSTANTS
    Workers,
    Queues,
    QueuesOf,      \* worker -> its queues, in the order it was given them
    DriverMayFail

ASSUME RotationAssumption ==
    /\ QueuesOf \in [Workers -> Seq(Queues)]
    /\ \A w \in Workers : \A i, j \in DOMAIN QueuesOf[w] :
          QueuesOf[w][i] = QueuesOf[w][j] => i = j
    /\ \A w \in Workers : QueuesOf[w] # <<>>
    /\ DriverMayFail \in BOOLEAN

VARIABLES
    busy,     \* the queues with a job to pop
    cursor,   \* _queue_cursor
    offset,   \* how far the scan of _fetch_next has come
    at,       \* in _fetch_next, away from it (a job or a sleep), or gone
    passed    \* history: the jobs a worker took while it left a queue waiting

rotationVars == <<busy, cursor, offset, at, passed>>

Count(w) == Len(QueuesOf[w])

RotationTypeOK ==
    /\ busy \subseteq Queues
    /\ cursor \in [Workers -> Nat] /\ offset \in [Workers -> Nat]
    /\ \A w \in Workers : cursor[w] < Count(w) /\ offset[w] < Count(w)
    /\ at \in [Workers -> {"fetch", "away", "gone"}]
    /\ passed \in [Workers -> [Queues -> Nat]]

RotationInit ==
    /\ busy \in SUBSET Queues
    /\ cursor = [w \in Workers |-> 0]
    /\ offset = [w \in Workers |-> 0]
    /\ at = [w \in Workers |-> "fetch"]
    /\ passed = [w \in Workers |-> [q \in Queues |-> 0]]

Index(w) == (cursor[w] + offset[w]) % Count(w)

Target(w) == QueuesOf[w][Index(w) + 1]

\* The queues are now those of b; nobody leaves an empty queue waiting.
Becomes(b) ==
    /\ busy' = b
    /\ passed' = [w \in Workers |-> [q \in Queues |-> IF q \in b THEN passed[w][q] ELSE 0]]

\* w took a job of queue taken, and the queues are now those of b.
TakesFrom(w, taken, b) ==
    /\ busy' = b
    /\ passed' = [v \in Workers |-> [q \in Queues |->
          IF q \notin b \/ (v = w /\ q = taken) THEN 0
          ELSE passed[v][q] + (IF v = w /\ passed[v][q] < Count(w) THEN 1 ELSE 0)]]

\* Mutant: the cursor moves on only after a scan that found nothing.
FindsInPlace(w) ==
    /\ at[w] = "fetch" /\ Target(w) \in busy
    /\ at' = [at EXCEPT ![w] = "away"]
    /\ offset' = [offset EXCEPT ![w] = 0]
    /\ \E b \in {busy, busy \ {Target(w)}} : TakesFrom(w, Target(w), b)
    /\ UNCHANGED cursor

\* pop returned a job.
Finds(w) ==
    /\ at[w] = "fetch" /\ Target(w) \in busy
    /\ at' = [at EXCEPT ![w] = "away"]
    /\ cursor' = [cursor EXCEPT ![w] = (Index(w) + 1) % Count(w)]
    /\ offset' = [offset EXCEPT ![w] = 0]
    /\ \E b \in {busy, busy \ {Target(w)}} : TakesFrom(w, Target(w), b)

\* pop returned nothing: the next queue, or the end of the scan.
Misses(w) ==
    /\ at[w] = "fetch" /\ Target(w) \notin busy
    /\ \/ /\ offset[w] + 1 < Count(w)
          /\ offset' = [offset EXCEPT ![w] = @ + 1]
          /\ UNCHANGED <<cursor, at>>
       \/ /\ offset[w] + 1 = Count(w)
          /\ offset' = [offset EXCEPT ![w] = 0]
          /\ cursor' = [cursor EXCEPT ![w] = (@ + 1) % Count(w)]
          /\ at' = [at EXCEPT ![w] = "away"]
    /\ UNCHANGED <<busy, passed>>

\* The job or the sleep is over.
Returns(w) ==
    /\ at[w] = "away"
    /\ at' = [at EXCEPT ![w] = "fetch"]
    /\ UNCHANGED <<busy, cursor, offset, passed>>

\* An error of pop leaves start(): nothing catches it.
PopRaises(w) ==
    /\ DriverMayFail /\ at[w] = "fetch"
    /\ at' = [at EXCEPT ![w] = "gone"]
    /\ UNCHANGED <<busy, cursor, offset, passed>>

\* Others push to a queue or empty it.
Elsewhere(q) ==
    /\ Becomes(busy \cup {q}) \/ Becomes(busy \ {q})
    /\ UNCHANGED <<cursor, offset, at>>

Fetching(w) == Finds(w) \/ Misses(w) \/ Returns(w)

-----------------------------------------------------------------------------
(* Properties *)

\* A queue that is never empty gets its turn: of the other queues a worker
\* takes at most one job each before it takes one of this queue.
TurnComes ==
    \A w \in Workers : \A i \in DOMAIN QueuesOf[w] :
        passed[w][QueuesOf[w][i]] < Count(w)

\* How many pops of the scan come before that of the i-th queue.
Ahead(w, i) == IF i - 1 >= cursor[w] THEN i - 1 - cursor[w] ELSE i - 1 - cursor[w] + Count(w)

\* What keeps TurnComes: the nearer a queue is to the cursor, the more jobs may
\* have passed it; one the scan has already asked was empty then.
TurnInv ==
    \A w \in Workers : \A i \in DOMAIN QueuesOf[w] :
        LET q == QueuesOf[w][i] IN
        /\ passed[w][q] + Ahead(w, i) < Count(w)
        /\ q \notin busy \/ Ahead(w, i) < offset[w] => passed[w][q] = 0

=============================================================================
