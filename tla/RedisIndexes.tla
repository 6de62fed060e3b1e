---------------------------- MODULE RedisIndexes ----------------------------
(***************************************************************************)
(* The secondary indexes of the Redis driver and the calls that work on    *)
(* many jobs at once: draining an index in windows, reconciling, the       *)
(* rebuild on connect, flush of a queue, bulk deletion and manual retries. *)
(* Each of them reads in one round trip and writes in a later one, while   *)
(* workers, the poller and the others go on.  The ready and delayed lists  *)
(* are not here: module RedisDriver has them, with the loss of an id that  *)
(* is popped and never claimed.                                            *)
(*                                                                         *)
(* A job is its rank in created_at, the score of every index, and the      *)
(* position of an id in an index is the order of the numbers.  Of a hash   *)
(* only the status is kept (RedisDriver has the rest); whether a drain's   *)
(* filter on tag and age selects a job is fixed when the drain starts.     *)
(*                                                                         *)
(* The families jobs:all, jobs:queue:*, jobs:status:* and                  *)
(* jobs:queue:*:status:* are the keys <<queue, status>>, with Any where    *)
(* the key names no queue or no status.                                    *)
(*                                                                         *)
(* Bounds: MaxHolders caps the workers that hold a copy of one job at      *)
(* once, MaxClobbered the jobs written from out-of-date copies, and Retire *)
(* says that workers let such jobs alone from then on; Drains, WalkKeys    *)
(* and Deletions pick the arguments of calls.                              *)
(***************************************************************************)
EXTENDS Naturals, FiniteSets

CONSTANTS
    Jobs,        \* ids, numbered in the order of created_at
    Queues, QueueOf,
    Any,
    Terminal,    \* the statuses a worker ends a job with for good
    Keepers,     \* coroutines that run the calls of this module
    Role,        \* keeper -> the calls it makes
    Drains,      \* keeper -> its drains: an index and the jobs the filters select
    WalkKeys,    \* the indexes that are reconciled
    Deletions,   \* the ids a bulk deletion names
    Batch,       \* ids per window of a drain
    MaxHolders, MaxClobbered, Retire

Live == {"pending", "processing"}

Statuses == Live \cup Terminal

ASSUME IndexAssumption ==
    /\ Jobs \subseteq Nat /\ IsFiniteSet(Jobs)
    /\ QueueOf \in [Jobs -> Queues]
    /\ Any \notin Queues \cup Statuses
    /\ "absent" \notin Statuses /\ "failed" \in Terminal
    /\ Live \cap Terminal = {}
    /\ Batch \in Nat \ {0}
    /\ Drains \in [Keepers -> SUBSET
          [key : (Queues \cup {Any}) \X (Statuses \cup {Any}), selection : SUBSET Jobs]]
    /\ WalkKeys \subseteq (Queues \cup {Any}) \X (Statuses \cup {Any})
    /\ Deletions \subseteq SUBSET Jobs
    /\ MaxHolders \in Nat /\ MaxClobbered \in Nat /\ Retire \in BOOLEAN

VARIABLES
    hash,      \* job -> the status in its hash
    index,     \* key -> members of the sorted set
    holders,   \* job -> workers that hold a copy with status processing
    fresh,     \* jobs not pushed so far
    serving,   \* some process has connected and serves the queues
    keeper,    \* keeper -> the call it is in
    \* histories
    owed,      \* keeper -> entries its drain has to examine
    moved,     \* keeper -> entries of its window that have left the index
    shifted,   \* keepers whose drain had entries removed before its offset
    unindexed, \* jobs of a version without indexes that no rebuild has indexed
    cut,       \* a rebuild was cut short by the death of its process
    clobbered  \* jobs written from a copy that was out of date

hashVars == <<hash, index, holders, fresh>>

historyVars == <<owed, moved, shifted>>

vars == <<hashVars, serving, keeper, historyVars, unindexed, cut, clobbered>>

Key == (Queues \cup {Any}) \X (Statuses \cup {Any})

AllKey == <<Any, Any>>

\* The families _index_add, _index_remove and _index_status_change write.
Families(j, status) ==
    IF status = "absent" THEN {} ELSE {QueueOf[j], Any} \X {status, Any}

StatusFamilies(j, status) == {QueueOf[j], Any} \X {status}

-----------------------------------------------------------------------------
(* The calls, as the keeper sees them *)

Resting == "idle"

NoCall == [call |-> "none", at |-> Resting, key |-> AllKey, selection |-> {},
           offset |-> 0, todo |-> {}, window |-> {},
           copy |-> [j \in Jobs |-> "absent"]]

Calls == {"none", "drain", "walk", "rebuild", "flush", "delete", "retry"}

CallState ==
    [call : Calls, at : {Resting, "read", "copy", "write"}, key : Key,
     selection : SUBSET Jobs, offset : Nat, todo : SUBSET Jobs,
     window : SUBSET Jobs, copy : [Jobs -> Statuses \cup {"absent"}]]

TypeOK ==
    /\ hash \in [Jobs -> Statuses \cup {"absent"}]
    /\ index \in [Key -> SUBSET Jobs]
    /\ holders \in [Jobs -> 0..MaxHolders]
    /\ fresh \subseteq Jobs
    /\ serving \in BOOLEAN
    /\ keeper \in [Keepers -> CallState]
    /\ owed \in [Keepers -> SUBSET Jobs]
    /\ moved \in [Keepers -> SUBSET Jobs]
    /\ shifted \subseteq Keepers
    /\ unindexed \subseteq Jobs
    /\ cut \in BOOLEAN
    /\ clobbered \subseteq Jobs

\* A new installation, or one whose jobs were written without indexes.
Init ==
    /\ hash \in [Jobs -> Statuses \cup {"absent"}]
    /\ index = [i \in Key |-> {}]
    /\ holders = [j \in Jobs |-> 0]
    /\ fresh = {j \in Jobs : hash[j] = "absent"}
    /\ serving = FALSE
    /\ keeper = [k \in Keepers |-> NoCall]
    /\ owed = [k \in Keepers |-> {}]
    /\ moved = [k \in Keepers |-> {}]
    /\ shifted = {}
    /\ unindexed = {j \in Jobs : hash[j] # "absent"}
    /\ cut = FALSE
    /\ clobbered = {}

-----------------------------------------------------------------------------
(* What pipelines are made of: the families of ids with the statuses of a  *)
(* copy.                                                                   *)

\* Mutant: the family of the queue is forgotten.
IndexAddGlobal(ids, copy) ==
    index' = [i \in Key |-> index[i] \cup
                  {j \in ids : i \in Families(j, copy[j]) /\ i # <<QueueOf[j], Any>>}]

IndexAdd(ids, copy) ==
    index' = [i \in Key |-> index[i] \cup {j \in ids : i \in Families(j, copy[j])}]

IndexRemove(ids, copy, orphans, keys) ==
    index' = [i \in Key |->
        (index[i] \ {j \in ids : i \in Families(j, copy[j])})
            \ (IF i \in keys THEN orphans ELSE {})]

\* Mutant: the entry under the old status stays.
IndexStatusChangeAdds(j, old, new) ==
    index' = [i \in Key |->
        IF i \in StatusFamilies(j, new) THEN index[i] \cup {j} ELSE index[i]]

IndexStatusChange(j, old, new) ==
    index' = [i \in Key |->
        IF old = new THEN index[i]
        ELSE IF i \in StatusFamilies(j, new) THEN index[i] \cup {j}
        ELSE IF i \in StatusFamilies(j, old) THEN index[i] \ {j}
        ELSE index[i]]

\* The families _index_remove_orphan clears: those of a queue only if the
\* caller names it.
OrphanKeys(queue) ==
    {AllKey} \cup ({Any} \X Statuses)
             \cup (IF queue = Any THEN {} ELSE {queue} \X (Statuses \cup {Any}))

\* Jobs whose hash is there and not what the copy says.
OutOfDate(ids, copy) == {j \in ids : hash[j] \notin {copy[j], "absent"}}

Clobbers(ids) ==
    /\ clobbered' = clobbered \cup ids
    /\ Cardinality(clobbered') <= MaxClobbered

-----------------------------------------------------------------------------
(* The jobs go on: one WATCHed transaction each, or a worker's whole copy. *)

Alone == UNCHANGED <<serving, keeper, unindexed, cut>>

Push(j) ==
    /\ serving /\ j \in fresh
    /\ fresh' = fresh \ {j}
    /\ hash' = [hash EXCEPT ![j] = "pending"]
    /\ IndexAdd({j}, [i \in {j} |-> "pending"])
    /\ Alone /\ UNCHANGED <<holders, clobbered>>

\* The WATCHed transaction of a pop, on a job that is still pending.  Which ids
\* the lists hold, and what is lost between LPOP and this step, is RedisDriver's
\* matter: here any pending job may be claimed.
Claim(j) ==
    /\ serving /\ hash[j] = "pending"
    /\ holders[j] < MaxHolders
    /\ hash' = [hash EXCEPT ![j] = "processing"]
    /\ holders' = [holders EXCEPT ![j] = @ + 1]
    /\ IndexStatusChange(j, "pending", "processing")
    /\ Alone /\ UNCHANGED <<fresh, clobbered>>

\* complete, fail and release write the worker's copy, whatever the hash holds.
Finish(j, status) ==
    /\ holders[j] > 0
    /\ holders' = [holders EXCEPT ![j] = @ - 1]
    /\ hash' = [hash EXCEPT ![j] = status]
    /\ IndexStatusChange(j, "processing", status)
    /\ Clobbers({j} \ {i \in {j} : hash[i] = "processing"})
    /\ Alone /\ UNCHANGED fresh

\* requeue_stuck_jobs: the claim is old; its worker, if it lives, keeps its copy.
RequeueStuck(j) ==
    /\ serving /\ hash[j] = "processing" /\ j \in index[<<Any, "processing">>]
    /\ hash' = [hash EXCEPT ![j] = "pending"]
    /\ IndexStatusChange(j, "processing", "pending")
    /\ Alone /\ UNCHANGED <<holders, fresh, clobbered>>

-----------------------------------------------------------------------------
(* Steps of calls.  In(k, call, at) is where keeper k is.                  *)

In(k, call, at) == keeper[k].call = call /\ keeper[k].at = at

May(k, call) == serving /\ keeper[k].at = Resting /\ call \in Role[k]

Goes(k, c) == keeper' = [keeper EXCEPT ![k] = c]

Returns(k) == Goes(k, NoCall)

Copies(k, ids) ==
    [keeper[k] EXCEPT !.at = "write", !.window = ids,
        !.copy = [j \in Jobs |-> IF j \in ids THEN hash[j] ELSE "absent"]]

Stays == UNCHANGED <<hashVars, serving, unindexed, cut, clobbered>>

(* _drain_index over _prune_index_batch *)

BeginDrain(k, key, selection) ==
    /\ May(k, "drain")
    /\ Goes(k, [NoCall EXCEPT !.call = "drain", !.at = "read", !.key = key,
                              !.selection = selection])
    /\ Stays

Rank(i, j) == Cardinality({m \in index[i] : m <= j})

\* ZRANGE key offset offset + limit - 1
Window(i, offset) ==
    {j \in index[i] : Rank(i, j) > offset /\ Rank(i, j) <= offset + Batch}

ReadWindow(k) ==
    /\ In(k, "drain", "read")
    /\ LET ids == Window(keeper[k].key, keeper[k].offset) IN
          \/ ids = {} /\ Returns(k)
          \/ ids # {} /\ Goes(k, [keeper[k] EXCEPT !.at = "copy", !.window = ids])
    /\ Stays

Orphans(c) == {j \in c.window : c.copy[j] = "absent"}

Doomed(c) == {j \in c.window \cap c.selection : c.copy[j] # "absent"}

Skipped(c) == c.window \ (Doomed(c) \cup Orphans(c))

\* Mutant: the offset steps over everything scanned.
NextWindowScanned(c) ==
    [c EXCEPT !.at = "read", !.window = {}, !.copy = NoCall.copy,
              !.offset = @ + Cardinality(c.window)]

\* Mutant: the offset stays where it is.
NextWindowSame(c) == [c EXCEPT !.at = "read", !.window = {}, !.copy = NoCall.copy]

\* Only what was kept is stepped over.
NextWindow(c) ==
    [c EXCEPT !.at = "read", !.window = {}, !.copy = NoCall.copy,
              !.offset = @ + Cardinality(Skipped(c))]

Removes(ids) ==
    /\ hash' = [j \in Jobs |-> IF j \in ids THEN "absent" ELSE hash[j]]
    /\ UNCHANGED <<holders, fresh>>

\* The loop ends at a window that is not full.
Continues(k, c) ==
    \/ Cardinality(c.window) < Batch /\ Returns(k)
    \/ Cardinality(c.window) >= Batch /\ Goes(k, NextWindow(c))

\* The HGET pipeline; with nothing to remove there is no second one.
ReadHashes(k) ==
    LET c == Copies(k, keeper[k].window) IN
    /\ In(k, "drain", "copy")
    /\ \/ Skipped(c) = c.window /\ Continues(k, c)
       \/ Skipped(c) # c.window /\ Goes(k, c)
    /\ Stays

WriteWindow(k) ==
    LET c == keeper[k] IN
    /\ In(k, "drain", "write")
    /\ Removes(Doomed(c))
    /\ IndexRemove(Doomed(c), c.copy, Orphans(c), OrphanKeys(c.key[1]))
    /\ Clobbers(OutOfDate(Doomed(c) \cup Orphans(c), c.copy))
    /\ Continues(k, c)
    /\ UNCHANGED <<serving, unindexed, cut>>

(* reconcile_indexes, one index of it: ZSCAN in batches of any size returns *)
(* what stays a member throughout.                                          *)

BeginWalk(k, key) ==
    /\ May(k, "walk")
    /\ index[key] # {}
    /\ Goes(k, [NoCall EXCEPT !.call = "walk", !.at = "read", !.key = key,
                              !.todo = index[key]])
    /\ Stays

Stale(ids) == {j \in ids : hash[j] = "absent"}

\* On to the next batch.
Walks(k, c) ==
    \/ c.todo = {} /\ Returns(k)
    \/ c.todo # {} /\ Goes(k, [c EXCEPT !.at = "read", !.window = {}])

\* EXISTS of a batch; the window is what has to go.
WalkReads(k, ids) ==
    LET c == [keeper[k] EXCEPT !.at = "write", !.window = Stale(ids), !.todo = @ \ ids] IN
    /\ In(k, "walk", "read")
    /\ ids # {} /\ ids \subseteq keeper[k].todo
    /\ \/ c.window = {} /\ Walks(k, c)
       \/ c.window # {} /\ Goes(k, c)
    /\ Stays

WalkRemoves(k) ==
    LET c == keeper[k] IN
    /\ In(k, "walk", "write")
    /\ IndexRemove({}, c.copy, c.window, {c.key})
    /\ Clobbers({j \in c.window : hash[j] # "absent"})
    /\ Walks(k, c)
    /\ UNCHANGED <<hash, holders, fresh, serving, unindexed, cut>>

(* connect(), _backfill_indexes_if_needed: SCAN returns the hashes that are *)
(* there throughout.                                                       *)

Present == {j \in Jobs : hash[j] # "absent"}

Connect(k) ==
    /\ keeper[k].at = Resting /\ "rebuild" \in Role[k]
    /\ \/ /\ index[AllKey] # {} \/ Present = {}
          /\ serving' = TRUE
          /\ UNCHANGED keeper
       \/ /\ index[AllKey] = {} /\ Present # {}
          /\ Goes(k, [NoCall EXCEPT !.call = "rebuild", !.at = "read", !.todo = Present])
          /\ UNCHANGED serving
    /\ UNCHANGED <<hashVars, unindexed, cut, clobbered>>

\* Mutant: the cursor of SCAN is not followed.
RebuildAddsOnce(k) ==
    LET c == keeper[k] IN
    /\ In(k, "rebuild", "write")
    /\ IndexAdd(c.window, c.copy)
    /\ Clobbers({j \in c.window : hash[j] # c.copy[j] /\ c.copy[j] # "absent"})
    /\ unindexed' = unindexed \ {j \in c.window : c.copy[j] # "absent"}
    /\ Returns(k) /\ serving' = TRUE
    /\ UNCHANGED <<hash, holders, fresh, cut>>

RebuildReads(k, ids) ==
    /\ In(k, "rebuild", "read")
    /\ ids # {} /\ ids \subseteq keeper[k].todo
    /\ Goes(k, [Copies(k, ids) EXCEPT !.todo = @ \ ids])
    /\ Stays

RebuildAdds(k) ==
    LET c == keeper[k] IN
    /\ In(k, "rebuild", "write")
    /\ IndexAdd(c.window, c.copy)
    /\ Clobbers({j \in c.window : hash[j] # c.copy[j] /\ c.copy[j] # "absent"})
    /\ unindexed' = unindexed \ {j \in c.window : c.copy[j] # "absent"}
    /\ \/ c.todo = {} /\ Returns(k) /\ serving' = TRUE
       \/ /\ c.todo # {}
          /\ Goes(k, [c EXCEPT !.at = "read", !.window = {}, !.copy = NoCall.copy])
          /\ UNCHANGED serving
    /\ UNCHANGED <<hash, holders, fresh, cut>>

(* flush(queue) *)

FlushReads(k, queue) ==
    /\ May(k, "flush")
    /\ Goes(k, [NoCall EXCEPT !.call = "flush", !.at = "write",
                              !.key = <<queue, Any>>, !.window = index[<<queue, Any>>]])
    /\ Stays

FlushRemoves(k) ==
    LET c == keeper[k]
        q == c.key[1] IN
    /\ In(k, "flush", "write")
    /\ hash' = [j \in Jobs |-> IF j \in c.window THEN "absent" ELSE hash[j]]
    /\ index' = [i \in Key |-> IF i[1] = q THEN {}
                               ELSE IF i[1] = Any THEN index[i] \ c.window
                               ELSE index[i]]
    /\ Clobbers({j \in Jobs : QueueOf[j] = q /\ hash[j] # "absent"} \ c.window)
    /\ Returns(k)
    /\ UNCHANGED <<holders, fresh, serving, unindexed, cut>>

(* bulk_delete_jobs *)

DeleteReads(k, ids) ==
    /\ May(k, "delete")
    /\ Goes(k, [Copies(k, ids) EXCEPT !.call = "delete"])
    /\ Stays

DeleteRemoves(k) ==
    LET c == keeper[k]
        live == c.window \ Orphans(c) IN
    /\ In(k, "delete", "write")
    /\ Removes(live)
    /\ IndexRemove(live, c.copy, Orphans(c), OrphanKeys(Any))
    /\ Clobbers(OutOfDate(c.window, c.copy))
    /\ Returns(k)
    /\ UNCHANGED <<serving, unindexed, cut>>

(* retry_failed: the failed index, the hashes, then one release per job *)

RetryReads(k) ==
    /\ May(k, "retry")
    /\ index[<<Any, "failed">>] # {}
    /\ Goes(k, [NoCall EXCEPT !.call = "retry", !.at = "copy",
                              !.window = index[<<Any, "failed">>]])
    /\ Stays

RetryCopies(k) ==
    LET c == Copies(k, keeper[k].window) IN
    /\ In(k, "retry", "copy")
    /\ Goes(k, [c EXCEPT !.window = @ \ Orphans(c)])
    /\ Stays

RetryReleases(k, j) ==
    LET c == keeper[k] IN
    /\ In(k, "retry", "write")
    /\ j \in c.window
    /\ hash' = [hash EXCEPT ![j] = "pending"]
    /\ IndexStatusChange(j, c.copy[j], "pending")
    /\ Clobbers({i \in {j} : hash[i] # c.copy[i]})
    /\ Goes(k, [c EXCEPT !.window = @ \ {j}, !.copy[j] = "absent"])
    /\ UNCHANGED <<holders, fresh, serving, unindexed, cut>>

RetryEnds(k) ==
    /\ In(k, "retry", "write")
    /\ keeper[k].window = {}
    /\ Returns(k)
    /\ Stays

(* The process dies in the middle of a rebuild, and another may connect.   *)
(* Any other call that dies just takes no further step.                    *)

Crash(k) ==
    /\ keeper[k].call = "rebuild"
    /\ Returns(k)
    /\ cut' = TRUE
    /\ UNCHANGED <<hashVars, serving, unindexed, clobbered>>

-----------------------------------------------------------------------------
(* Histories *)

\* What a call that runs has to deal with: a drain the entries its filters
\* select and those without a hash, a walk the latter.
Debt(c, h, ix) ==
    CASE c.call = "drain" -> {j \in ix[c.key] : j \in c.selection \/ h[j] = "absent"}
      [] c.call = "walk"  -> {j \in ix[c.key] : h[j] = "absent"}
      [] OTHER            -> {}

Resumes(k) == keeper[k].at # Resting /\ keeper'[k].at # Resting

Left(k) == index[keeper[k].key] \ index'[keeper[k].key]

\* Entries the drain counts as kept, or will: those before its offset and
\* those of its window that its filters do not select.
Passed(k) ==
    LET c == keeper[k] IN
    {j \in index[c.key] :
        \/ Rank(c.key, j) <= c.offset
        \/ /\ j \in c.window \ c.selection
           /\ c.at = "copy" \/ c.copy[j] # "absent"}

\* Jobs of the window that the index held under a status their hash had left:
\* the write clears the families of the other status.
Misfiled(c) == {j \in c.window : c.copy[j] # "absent" /\ c.key \notin Families(j, c.copy[j])}

Observe ==
    /\ shifted' = {k \in Keepers :
          /\ Resumes(k) /\ keeper[k].call = "drain"
          /\ k \in shifted \/ Passed(k) \cap Left(k) # {}}
    /\ owed' = [k \in Keepers |->
          IF k \in shifted' THEN {}
          ELSE IF Resumes(k)
               THEN (owed[k] \cap Debt(keeper[k], hash', index')) \ Misfiled(keeper[k])
          ELSE Debt(keeper'[k], hash, index)]
    /\ moved' = [k \in Keepers |->
          IF keeper[k].call = "drain" /\ keeper'[k].window # {}
          THEN moved[k] \cup (keeper[k].window \cap Left(k)) ELSE {}]

-----------------------------------------------------------------------------

Next ==
    \/ \E j \in Jobs :
          /\ Retire => j \notin clobbered
          /\ \/ Push(j) /\ Observe
             \/ Claim(j) /\ Observe
             \/ RequeueStuck(j) /\ Observe
             \/ \E status \in Terminal \cup {"pending"} : Finish(j, status) /\ Observe
    \/ \E k \in Keepers :
          \/ \E d \in Drains[k] : BeginDrain(k, d.key, d.selection) /\ Observe
          \/ ReadWindow(k) /\ Observe
          \/ ReadHashes(k) /\ Observe
          \/ WriteWindow(k) /\ Observe
          \/ \E key \in WalkKeys : BeginWalk(k, key) /\ Observe
          \/ \E ids \in SUBSET Jobs : WalkReads(k, ids) /\ Observe
          \/ WalkRemoves(k) /\ Observe
          \/ Connect(k) /\ Observe
          \/ \E ids \in SUBSET Jobs : RebuildReads(k, ids) /\ Observe
          \/ RebuildAdds(k) /\ Observe
          \/ Crash(k) /\ Observe
          \/ \E q \in Queues : FlushReads(k, q) /\ Observe
          \/ FlushRemoves(k) /\ Observe
          \/ \E ids \in Deletions : DeleteReads(k, ids) /\ Observe
          \/ DeleteRemoves(k) /\ Observe
          \/ RetryReads(k) /\ Observe
          \/ RetryCopies(k) /\ Observe
          \/ \E j \in Jobs : RetryReleases(k, j) /\ Observe
          \/ RetryEnds(k) /\ Observe

Spec == Init /\ [][Next]_vars

-----------------------------------------------------------------------------
(* Properties *)

Stored(j) == {i \in Key : j \in index[i]}

\* A job of the old version is in no family but its own before it is indexed.
Consistent(j) ==
    /\ Stored(j) \subseteq Families(j, hash[j])
    /\ j \notin unindexed => Stored(j) = Families(j, hash[j])

\* Every job is in exactly the four families its hash says, unless some write
\* was made from an out-of-date copy of it: the indexes drift from no other
\* cause, however drains, walks, rebuilds, flushes, deletions and retries
\* interleave with the workers.
NoSilentDrift == \A j \in Jobs \ clobbered : Consistent(j)

\* What calls in progress, and jobs not pushed so far, have to look like for
\* NoSilentDrift to be kept: a flush at its second step names the jobs of its
\* queue, a manual retry jobs that had a hash, and a new job has nothing.
CallsAgree ==
    /\ \A k \in Keepers :
          In(k, "flush", "write") =>
              /\ keeper[k].key[1] \in Queues
              /\ \A j \in keeper[k].window \ clobbered : QueueOf[j] = keeper[k].key[1]
    /\ \A k \in Keepers :
          In(k, "retry", "write") =>
              \A j \in keeper[k].window : keeper[k].copy[j] # "absent"
    /\ \A j \in fresh \ clobbered : hash[j] = "absent" /\ j \notin unindexed

DriftInv == TypeOK /\ NoSilentDrift /\ CallsAgree

\* When a drain or a walk has ended, nothing is left in the index that it had
\* to remove and that was there all the time, unless entries it had stepped
\* over were removed under its offset or the index had a job's status wrong.
NothingPassedOver ==
    [][\A k \in Keepers \ shifted :
          (keeper[k].at # Resting /\ keeper'[k].at = Resting) =>
              owed[k] \cap Debt(keeper[k], hash', index') \subseteq Misfiled(keeper[k])]_vars

\* Once the global index holds something and no rebuild is under way, every
\* job of the old version is indexed, unless a rebuild was cut short.
RebuildIsWhole ==
    (/\ index[AllKey] # {} /\ serving
     /\ \A k \in Keepers : keeper[k].call # "rebuild"
     /\ ~cut) => \A j \in unindexed \ clobbered : hash[j] = "absent"

\* A drain of finished jobs removes an unfinished one only if the job left the
\* index after the drain had listed it, or the index was wrong about it.
PruneSparesUnfinished ==
    [][\A k \in Keepers :
          (In(k, "drain", "write") /\ keeper[k].key[2] \in Terminal /\ keeper'[k] # keeper[k]) =>
          \A j \in Jobs \ (moved[k] \cup clobbered') :
              hash'[j] = "absent" => hash[j] \notin Live]_vars

\* A drain that goes on to a further window has less to scan, unless the
\* entries of the window were on their way: the loop ends.
DrainAdvances ==
    [][\A k \in Keepers :
          (/\ keeper[k].call = "drain" /\ keeper[k].at # "read" /\ keeper'[k].at = "read"
           /\ keeper[k].window \cap (moved[k] \cup clobbered) = {}) =>
              Cardinality(index'[keeper[k].key]) + keeper[k].offset
                  < Cardinality(index[keeper[k].key]) + keeper'[k].offset]_vars

=============================================================================
