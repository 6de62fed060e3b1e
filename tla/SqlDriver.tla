------------------------------ MODULE SqlDriver ------------------------------
(***************************************************************************)
(* The jobs table of the SQLite and PostgreSQL drivers.  Both drivers      *)
(* issue the same statements, each committed on its own, so every driver   *)
(* call but SQLite's pop is one action.  PostgreSQL claims a job with one  *)
(* UPDATE; SQLite SELECTs a row and UPDATEs it in a second statement, and  *)
(* between the two another process may write (one driver object is one     *)
(* process: inside it an asyncio.Lock keeps the two together).             *)
(***************************************************************************)
EXTENDS JobPayload

CONSTANTS Queues,
          QueueOf,     \* the queue a job is pushed to
          CreatedAt    \* the created_at of a job, set when its payload is built

ASSUME QueueAssumption ==
    /\ QueueOf \in [Jobs -> Queues]
    /\ CreatedAt \in [Jobs -> Nat]

VARIABLES rows,     \* the jobs table: id -> row, NoPayload where there is none
          pushed    \* ids pushed so far: an id is a fresh uuid4, never pushed twice

SqlTypeOK ==
    /\ rows \in [Jobs -> Payload]
    /\ pushed \subseteq Jobs

SqlInit ==
    /\ rows = [j \in Jobs |-> NoPayload]
    /\ pushed = {}

Present(j) == rows[j].status # "absent"

StatusIs(st) == {j \in Jobs : rows[j].status = st}

\* The rows a statement's WHERE selects, each replaced as its SET says.
UpdateWhere(S, new) ==
    /\ rows' = [j \in Jobs |-> IF j \in S THEN new[j] ELSE rows[j]]
    /\ UNCHANGED pushed

\* Mutant: an upsert where the code updates.
UpsertById(j) == {k \in Jobs : k = j}

\* WHERE id = ?: one row, or none.
ById(j) == {k \in Jobs : k = j /\ Present(k)}

RemoveWhere(S) == UpdateWhere(S, [j \in S |-> NoPayload])

\* INSERT: the ids are new, so nothing is replaced.
Insert(S, d) ==
    /\ S \cap pushed = {}
    /\ pushed' = pushed \cup S
    /\ rows' = [j \in Jobs |-> IF j \in S THEN NewPayload(d) ELSE rows[j]]

-----------------------------------------------------------------------------
(* Push and pop *)

Push(j, d) == Insert({j}, d)

\* executemany and one commit: all rows appear together.
PushMany(S, d) == Insert(S, d)

\* Mutant: pop does not look at delay_until.
EligibleEarly(q) == {j \in StatusIs("pending") : QueueOf[j] = q}

Eligible(q) == {j \in StatusIs("pending") :
                   QueueOf[j] = q /\ rows[j].delay \in {"none", "due"}}

Oldest(S) == {j \in S : \A k \in S : CreatedAt[j] <= CreatedAt[k]}

\* Mutant: a claim that trusts the SELECT.
ClaimUnchecked(j) == UpdateWhere({j}, [k \in {j} |-> Claimed(rows[k])])

\* The UPDATE of a claim, on a row that is pending when it runs.
Claim(j) ==
    /\ j \in StatusIs("pending")
    /\ UpdateWhere({j}, [k \in {j} |-> Claimed(rows[k])])

PopDelayed ==
    LET due == {j \in StatusIs("pending") : rows[j].delay = "due"} IN
    /\ due # {}
    /\ UpdateWhere(due, [k \in due |-> [rows[k] EXCEPT !.delay = "none"]])

-----------------------------------------------------------------------------
(* Lifecycle: UPDATE ... WHERE id = ?, whatever the row's status is by now, *)
(* and nothing at all when the row is gone.                                *)

SetStatus(j, st) ==
    UpdateWhere(ById(j), [k \in ById(j) |-> [rows[k] EXCEPT !.status = st]])

Complete(j) == SetStatus(j, "completed")

Fail(j) == SetStatus(j, "failed")

Release(j, d) ==
    UpdateWhere(ById(j), [k \in ById(j) |->
                             [rows[k] EXCEPT !.status = "pending", !.delay = d]])

\* Mutant: no cutoff.
StuckWithoutCutoff(q) == {j \in StatusIs("processing") : QueueOf[j] = q}

\* Mutant: the comparison with the cutoff the wrong way round.
StuckReversed(q) ==
    {j \in StatusIs("processing") : QueueOf[j] = q /\ rows[j].started = "fresh"}

Stuck(q) == {j \in StatusIs("processing") : QueueOf[j] = q /\ rows[j].started = "stale"}

RequeueStuck(q) ==
    /\ Stuck(q) # {}
    /\ UpdateWhere(Stuck(q), [k \in Stuck(q) |-> Requeued(rows[k])])

-----------------------------------------------------------------------------
(* Administration *)

Promote(j) ==
    /\ j \in StatusIs("pending")
    /\ UpdateWhere({j}, [k \in {j} |-> [rows[k] EXCEPT !.delay = "none"]])

Delete(j) == RemoveWhere({j})

\* A filter by tag, age, queue or status matches any set of rows.
Prune(S) == RemoveWhere(S)

Flush(q) == RemoveWhere({j \in Jobs : QueueOf[j] = q})

\* A write found the storage full: it purges what is finished, then goes on.
EmergencyCleanup == RemoveWhere({j \in Jobs : rows[j].status \in Terminal})

-----------------------------------------------------------------------------
(* The clock *)

DelayElapses(j) ==
    /\ rows[j].delay = "future"
    /\ UpdateWhere({j}, [k \in {j} |-> [rows[k] EXCEPT !.delay = "due"]])

\* The claim is now older than stuck_processing_seconds.
ClaimAges(j) ==
    /\ rows[j].status = "processing" /\ rows[j].started = "fresh"
    /\ UpdateWhere({j}, [k \in {j} |-> [rows[k] EXCEPT !.started = "stale"]])

=============================================================================
