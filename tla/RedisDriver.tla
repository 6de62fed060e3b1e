---------------------------- MODULE RedisDriver ----------------------------
(***************************************************************************)
(* The Redis driver.  A job is a hash; beside it, a ready list per queue,  *)
(* one sorted set of delayed jobs, and the sorted sets that index jobs for *)
(* the dashboard, the pruner and the stuck-job recovery.                   *)
(*                                                                         *)
(* A pipeline is a MULTI/EXEC transaction, hence one action.  A call that  *)
(* reads under WATCH and then EXECs commits only if the hash is still what *)
(* it read, so it is one action too; a call that reads without WATCH       *)
(* writes a copy that may be out of date, and takes it as an argument.     *)
(*                                                                         *)
(* The four index families come in pairs that are always written together  *)
(* (a job never changes its queue): idx:all with idx:queue, idx:status     *)
(* with idx:queue:status.  One member of each pair is kept.                *)
(***************************************************************************)
EXTENDS JobPayload, Lists

CONSTANTS Queues, QueueOf

ASSUME RedisQueueAssumption == QueueOf \in [Jobs -> Queues]

VARIABLES hash,      \* id -> record, NoPayload where there is no key
          ready,     \* queue -> list of ids
          delayed,   \* id -> whether its score in the sorted set has come; "none": no member
          idxAll,    \* members of idx:all
          idxStatus, \* status -> members of idx:status
          pushed     \* ids pushed so far: an id is a fresh uuid4

redisVars == <<hash, ready, delayed, idxAll, idxStatus, pushed>>

RedisTypeOK ==
    /\ hash \in [Jobs -> Payload]
    /\ ready \in [Queues -> Seq(Jobs)]
    /\ delayed \in [Jobs -> Delay]
    /\ idxAll \subseteq Jobs
    /\ idxStatus \in [Status -> SUBSET Jobs]
    /\ pushed \subseteq Jobs

RedisInit ==
    /\ hash = [j \in Jobs |-> NoPayload]
    /\ ready = [q \in Queues |-> <<>>]
    /\ delayed = [j \in Jobs |-> "none"]
    /\ idxAll = {}
    /\ idxStatus = [s \in Status |-> {}]
    /\ pushed = {}

Present(j) == hash[j].status # "absent"

InReady(j) == \E i \in DOMAIN ready[QueueOf[j]] : ready[QueueOf[j]][i] = j

\* LREM key 0 id: what is left, in the order it had.
Without(s, j) == Only(s, {i \in DOMAIN s : s[i] # j})

-----------------------------------------------------------------------------
(* The commands pipelines are made of *)

HSet(j, p) == hash' = [hash EXCEPT ![j] = p]

\* Mutant: no ZREM from the old status.
IndexChangeKeepsOld(j, old, new) ==
    /\ idxStatus' = [idxStatus EXCEPT ![new] = @ \cup {j}]
    /\ UNCHANGED idxAll

\* _index_status_change: nothing when the status stays.
IndexChange(j, old, new) ==
    /\ idxStatus' = [s \in Status |->
                        IF old = new THEN idxStatus[s]
                        ELSE IF s = new THEN idxStatus[s] \cup {j}
                        ELSE IF s = old THEN idxStatus[s] \ {j}
                        ELSE idxStatus[s]]
    /\ UNCHANGED idxAll

\* Mutant: RPUSH before LREM.
RequeueSwapped(j) ==
    ready' = [ready EXCEPT ![QueueOf[j]] = Without(Append(@, j), j)]

\* Mutant: RPUSH only.
RequeueAgain(j) == ready' = [ready EXCEPT ![QueueOf[j]] = Append(@, j)]

\* LREM of the id, then RPUSH.
Requeue(j) ==
    ready' = [ready EXCEPT ![QueueOf[j]] = Append(Without(@, j), j)]

-----------------------------------------------------------------------------
(* Push and pop *)

\* One pipeline for one or many payloads; ids go to the delayed set or the
\* ready list.
Push(j, d) ==
    /\ j \notin pushed
    /\ pushed' = pushed \cup {j}
    /\ HSet(j, NewPayload(d))
    /\ \/ d = "future" /\ delayed' = [delayed EXCEPT ![j] = d] /\ UNCHANGED ready
       \/ d # "future" /\ ready' = [ready EXCEPT ![QueueOf[j]] = Append(@, j)]
                       /\ UNCHANGED delayed
    /\ idxAll' = idxAll \cup {j}
    /\ idxStatus' = [idxStatus EXCEPT !["pending"] = @ \cup {j}]

LPop(q) ==
    /\ ready[q] # <<>>
    /\ ready' = [ready EXCEPT ![q] = Tail(@)]
    /\ UNCHANGED <<hash, delayed, idxAll, idxStatus, pushed>>

\* Mutant: a claim looks at the status alone.
ClaimableEarly(j) == hash[j].status = "pending"

Claimable(j) == hash[j].status = "pending" /\ hash[j].delay # "future"

ClaimPending(j) ==
    /\ Claimable(j)
    /\ HSet(j, Claimed(hash[j]))
    /\ IndexChange(j, "pending", "processing")
    /\ UNCHANGED <<ready, delayed, pushed>>

\* _promote_delayed_job on an id the poller read from the sorted set: a
\* record that is not waiting any more only loses its member, one that was
\* delayed again keeps it (unless that delay has passed by now too), one that
\* is due becomes ready.
PromoteDelayed(j) ==
    /\ \/ /\ hash[j].status # "pending" \/ hash[j].delay = "none"
          /\ delayed' = [delayed EXCEPT ![j] = "none"]
          /\ UNCHANGED <<hash, ready>>
       \/ /\ hash[j].status = "pending" /\ hash[j].delay = "future"
          /\ delayed' = [delayed EXCEPT ![j] = "future"]
          /\ UNCHANGED <<hash, ready>>
       \/ /\ hash[j].status = "pending" /\ hash[j].delay = "due"
          /\ delayed' = [delayed EXCEPT ![j] = "none"]
          /\ HSet(j, [hash[j] EXCEPT !.delay = "none"])
          /\ Requeue(j)
    /\ UNCHANGED <<idxAll, idxStatus, pushed>>

-----------------------------------------------------------------------------
(* Lifecycle: the caller's copy p is written back whole, whatever the hash  *)
(* holds by now, and the indexes move from the copy's status.              *)

Transition(j, p, new) ==
    /\ HSet(j, [p EXCEPT !.status = new])
    /\ IndexChange(j, p.status, new)
    /\ UNCHANGED <<ready, delayed, pushed>>

Complete(j, p) == Transition(j, p, "completed")

Fail(j, p) == Transition(j, p, "failed")

\* delay = 0 leaves the copy's delay_until, which has passed, as it is.
Release(j, p, d) ==
    /\ \/ /\ d = "future"
          /\ HSet(j, [p EXCEPT !.status = "pending", !.delay = d])
          /\ delayed' = [delayed EXCEPT ![j] = d]
          /\ ready' = [ready EXCEPT ![QueueOf[j]] = Without(@, j)]
       \/ /\ d = "none"
          /\ HSet(j, [p EXCEPT !.status = "pending"])
          /\ Requeue(j)
          /\ UNCHANGED delayed
    /\ IndexChange(j, p.status, "pending")
    /\ UNCHANGED pushed

\* The scan goes over the index; each job is checked again under WATCH.
RequeueStuck(j) ==
    /\ j \in idxStatus["processing"]
    /\ hash[j].status = "processing" /\ hash[j].started = "stale"
    /\ HSet(j, Requeued(hash[j]))
    /\ delayed' = [delayed EXCEPT ![j] = "none"]
    /\ Requeue(j)
    /\ IndexChange(j, "processing", "pending")
    /\ UNCHANGED pushed

-----------------------------------------------------------------------------
(* Administration, on a copy p read before *)

Promote(j, p) ==
    /\ p.status = "pending"
    /\ HSet(j, [p EXCEPT !.delay = "none"])
    /\ \/ /\ p.delay = "future"
          /\ delayed' = [delayed EXCEPT ![j] = "none"]
          /\ ready' = [ready EXCEPT ![QueueOf[j]] = Append(@, j)]
       \/ p.delay # "future" /\ UNCHANGED <<delayed, ready>>
    /\ UNCHANGED <<idxAll, idxStatus, pushed>>

Delete(j, p) ==
    /\ HSet(j, NoPayload)
    /\ delayed' = [delayed EXCEPT ![j] = "none"]
    /\ \/ /\ p.status # "absent"
          /\ ready' = [ready EXCEPT ![QueueOf[j]] = Without(@, j)]
          /\ idxAll' = idxAll \ {j}
          /\ idxStatus' = [idxStatus EXCEPT ![p.status] = @ \ {j}]
       \/ p.status = "absent" /\ UNCHANGED <<ready, idxAll, idxStatus>>
    /\ UNCHANGED pushed

\* One job of a prune batch: a read that found the hash gone only clears the
\* index entries.
Reap(j, p) ==
    \/ p.status # "absent" /\ Delete(j, p)
    \/ /\ p.status = "absent"
       /\ idxAll' = idxAll \ {j}
       /\ idxStatus' = [s \in Status |-> idxStatus[s] \ {j}]
       /\ UNCHANGED <<hash, ready, delayed, pushed>>

-----------------------------------------------------------------------------
(* The clock: delay_until and the score are the same number. *)

Elapsed(d) == IF d = "future" THEN "due" ELSE d

DelayElapses(j) ==
    /\ "future" \in {hash[j].delay, delayed[j]}
    /\ HSet(j, [hash[j] EXCEPT !.delay = Elapsed(@)])
    /\ delayed' = [delayed EXCEPT ![j] = Elapsed(@)]
    /\ UNCHANGED <<ready, idxAll, idxStatus, pushed>>

ClaimAges(j) ==
    /\ hash[j].status = "processing" /\ hash[j].started = "fresh"
    /\ HSet(j, [hash[j] EXCEPT !.started = "stale"])
    /\ UNCHANGED <<ready, delayed, idxAll, idxStatus, pushed>>

=============================================================================
