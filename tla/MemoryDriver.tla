---------------------------- MODULE MemoryDriver ----------------------------
(***************************************************************************)
(* The in-memory driver: a dict of payload objects, a list of ids per      *)
(* queue, and a list of delayed ids.  The objects are shared: what a       *)
(* worker holds is the object in the dict, or one that was in it.  Nothing *)
(* is awaited while the asyncio lock is held, so the lock is never waited  *)
(* for, and a call, or a loop of calls that awaits nothing else, is one    *)
(* action.                                                                 *)
(***************************************************************************)
EXTENDS JobPayload, SequencesExt, Lists

CONSTANTS Queues, QueueOf

ASSUME MemoryAssumption == QueueOf \in [Jobs -> Queues]

VARIABLES obj,      \* the payload object of a job; "absent" before it is pushed
          jobs,     \* _jobs: the ids the driver knows
          ready,    \* _queues: queue -> ids
          delayed   \* _delayed: ids

memVars == <<obj, jobs, ready, delayed>>

MemTypeOK ==
    /\ obj \in [Jobs -> Payload]
    /\ jobs \subseteq Jobs
    /\ ready \in [Queues -> Seq(Jobs)]
    /\ delayed \in Seq(Jobs)

MemInit ==
    /\ obj = [j \in Jobs |-> NoPayload]
    /\ jobs = {}
    /\ ready = [q \in Queues |-> <<>>]
    /\ delayed = <<>>

PendingJobs == {j \in jobs : obj[j].status = "pending"}

\* Each of S gets an entry in its queue.  The order is that of the dict or of
\* created_at; neither is kept, so any order will do.
EnqueueAll(S) ==
    \E s \in SetToSeqs(S) :
        ready' = [q \in Queues |-> ready[q] \o Only(s, {i \in DOMAIN s : QueueOf[s[i]] = q})]

Enqueue(j) == EnqueueAll({j})

\* list.remove for each of S: the first entry goes, a second one stays.
Without(s, S) ==
    Only(s, {i \in DOMAIN s : s[i] \notin S \/ \E k \in 1..(i - 1) : s[k] = s[i]})

-----------------------------------------------------------------------------
(* Push and pop *)

Push(j, d) ==
    /\ obj[j].status = "absent"
    /\ obj' = [obj EXCEPT ![j] = NewPayload(d)]
    /\ jobs' = jobs \cup {j}
    /\ IF d = "future" THEN delayed' = Append(delayed, j) /\ UNCHANGED ready
       ELSE Enqueue(j) /\ UNCHANGED delayed

\* Where pop finds the job it returns: entries before it are thrown away.
FirstPending(q) ==
    {i \in DOMAIN ready[q] :
        /\ ready[q][i] \in PendingJobs
        /\ \A k \in 1..(i - 1) : ready[q][k] \notin PendingJobs}

Pop(q, j) ==
    /\ \E i \in FirstPending(q) :
          /\ j = ready[q][i]
          /\ ready' = [ready EXCEPT ![q] = SubSeq(@, i + 1, Len(@))]
    /\ obj' = [obj EXCEPT ![j] = Claimed(@)]
    /\ UNCHANGED <<jobs, delayed>>

\* The entries of a queue with no pending job are thrown away as well.
PopNothing(q) ==
    /\ ready[q] # <<>> /\ FirstPending(q) = {}
    /\ ready' = [ready EXCEPT ![q] = <<>>]
    /\ UNCHANGED <<obj, jobs, delayed>>

\* The loop over _delayed: ids of removed jobs are dropped, due jobs move to
\* their queue, and a second entry of a job finds delay_until cleared.
PopDelayed ==
    LET gone == {i \in DOMAIN delayed : delayed[i] \notin jobs}
        moved == {i \in DOMAIN delayed \ gone :
                     /\ obj[delayed[i]].delay = "due"
                     /\ \A k \in 1..(i - 1) : delayed[k] # delayed[i]}
        due == {delayed[i] : i \in moved}
    IN /\ gone \cup moved # {}
       /\ obj' = [j \in Jobs |-> IF j \in due THEN [obj[j] EXCEPT !.delay = "none"] ELSE obj[j]]
       /\ ready' = [q \in Queues |-> ready[q] \o Only(delayed, {i \in moved : QueueOf[delayed[i]] = q})]
       /\ delayed' = Only(delayed, DOMAIN delayed \ (gone \cup moved))
       /\ UNCHANGED jobs

-----------------------------------------------------------------------------
(* Lifecycle: the object is changed and put in the dict, whether or not it *)
(* still is there.                                                         *)

SetStatus(j, st) ==
    /\ obj' = [obj EXCEPT ![j].status = st]
    /\ jobs' = jobs \cup {j}
    /\ UNCHANGED <<ready, delayed>>

Complete(j) == SetStatus(j, "completed")

Fail(j) == SetStatus(j, "failed")

\* Mutant: the delay is written down, and the job put in its queue all the same.
ReleaseNow(j, d) ==
    /\ obj' = [obj EXCEPT ![j].status = "pending", ![j].delay = IF d = "none" THEN @ ELSE d]
    /\ jobs' = jobs \cup {j}
    /\ Enqueue(j) /\ UNCHANGED delayed

\* Without a delay delay_until stays what it was.
Release(j, d) ==
    /\ obj' = [obj EXCEPT ![j].status = "pending", ![j].delay = IF d = "none" THEN @ ELSE d]
    /\ jobs' = jobs \cup {j}
    /\ IF d = "future" THEN delayed' = Append(delayed, j) /\ UNCHANGED ready
       ELSE Enqueue(j) /\ UNCHANGED delayed

\* Mutant: a job that has used up its attempts is not brought back.
StuckRetryable(q) ==
    {j \in jobs : /\ QueueOf[j] = q /\ obj[j].status = "processing"
                  /\ obj[j].started = "stale" /\ ShouldRetry(obj[j].attempts)}

Stuck(q) ==
    {j \in jobs : QueueOf[j] = q /\ obj[j].status = "processing" /\ obj[j].started = "stale"}

RequeueStuck(q) ==
    /\ Stuck(q) # {}
    /\ obj' = [j \in Jobs |-> IF j \in Stuck(q) THEN Requeued(obj[j]) ELSE obj[j]]
    /\ EnqueueAll({j \in Stuck(q) : ~Contains(ready[q], j)})
    /\ UNCHANGED <<jobs, delayed>>

\* Mutant: whatever has not completed is retried.
RetryUnfinished(S) ==
    /\ S # {} /\ S \subseteq {j \in jobs : obj[j].status # "completed"}
    /\ obj' = [j \in Jobs |-> IF j \in S THEN [obj[j] EXCEPT !.status = "pending"] ELSE obj[j]]
    /\ EnqueueAll(S)
    /\ UNCHANGED <<jobs, delayed>>

\* retry_failed and retry_job: get_jobs and one release(delay=0) per job, with
\* nothing awaited in between.
Retry(S) ==
    /\ S # {} /\ S \subseteq {j \in jobs : obj[j].status = "failed"}
    /\ obj' = [j \in Jobs |-> IF j \in S THEN [obj[j] EXCEPT !.status = "pending"] ELSE obj[j]]
    /\ EnqueueAll(S)
    /\ UNCHANGED <<jobs, delayed>>

-----------------------------------------------------------------------------
(* Administration *)

\* Mutant: the job leaves the delayed list for nowhere.
PromoteNowhere(j) ==
    /\ j \in PendingJobs
    /\ obj' = [obj EXCEPT ![j].delay = "none"]
    /\ delayed' = Without(delayed, {j})
    /\ UNCHANGED <<jobs, ready>>

Promote(j) ==
    /\ j \in PendingJobs
    /\ obj' = [obj EXCEPT ![j].delay = "none"]
    /\ delayed' = Without(delayed, {j})
    /\ IF Contains(ready[QueueOf[j]], j) THEN UNCHANGED ready ELSE Enqueue(j)
    /\ UNCHANGED jobs

\* One delete per job the filters match; each takes the job's first entry out
\* of every list.
Prune(S) ==
    /\ S # {} /\ S \subseteq jobs
    /\ jobs' = jobs \ S
    /\ ready' = [q \in Queues |-> Without(ready[q], S)]
    /\ delayed' = Without(delayed, S)
    /\ UNCHANGED obj

Delete(j) == Prune({j})

\* The ids of a flushed queue stay in the list of delayed ids.
Flush(q) ==
    /\ jobs' = {j \in jobs : QueueOf[j] # q}
    /\ ready' = [ready EXCEPT ![q] = <<>>]
    /\ UNCHANGED <<obj, delayed>>

FlushAll ==
    /\ jobs' = {}
    /\ ready' = [q \in Queues |-> <<>>]
    /\ delayed' = <<>>
    /\ UNCHANGED obj

-----------------------------------------------------------------------------
(* The clock *)

DelayElapses(j) ==
    /\ obj[j].delay = "future"
    /\ obj' = [obj EXCEPT ![j].delay = "due"]
    /\ UNCHANGED <<jobs, ready, delayed>>

ClaimAges(j) ==
    /\ obj[j].status = "processing" /\ obj[j].started = "fresh"
    /\ obj' = [obj EXCEPT ![j].started = "stale"]
    /\ UNCHANGED <<jobs, ready, delayed>>

=============================================================================
