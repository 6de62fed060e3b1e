---------------------------- MODULE RedisWorkers ----------------------------
(***************************************************************************)
(* Workers, the delayed-job poller, the stuck-job recovery and dashboard   *)
(* operators over the Redis driver.                                        *)
(*                                                                         *)
(* Bounds: MaxFaults caps the operator calls and the claims that grow old   *)
(* in the hands of a live worker.                                          *)
(***************************************************************************)
EXTENDS RedisDriver, Worker, FiniteSets

CONSTANTS
    PrematureRecovery,  \* the stuck timeout may expire while the holder is alive
    DriverMayFail,      \* driver calls in _process's try block may raise
    Crashable,          \* the workers that may die
    CrashInPop,         \* ... between LPOP and the claim too
    Admins,             \* callers of the dashboard's operations
    AdminOps,           \* the operations in use
    MaxFaults

ASSUME RedisWorkersAssumption ==
    /\ {PrematureRecovery, DriverMayFail, CrashInPop} \subseteq BOOLEAN
    /\ Crashable \subseteq Workers
    /\ NoJob \notin Workers   \* it stands for nobody in the refinement
    /\ AdminOps \subseteq {"retry", "promote", "delete", "prune"}
    /\ MaxFaults \in Nat

VARIABLES
    poll,    \* due ids the poller has read and not yet promoted
    admin,   \* an operator's call between its read and its write
    lost,    \* history: jobs whose id went astray in promote() or in a crash inside pop
    faults   \* bound: operator calls and premature recoveries so far

vars == <<redisVars, worker, poll, admin, lost, faults>>

NoCall == [op |-> "none", job |-> NoJob, copy |-> NoPayload]

TypeOK ==
    /\ RedisTypeOK
    /\ WorkerTypeOK
    /\ poll \subseteq Jobs
    /\ admin \in [Admins -> [op : AdminOps \cup {"none"}, job : Jobs \cup {NoJob},
                             copy : Payload]]
    /\ lost \subseteq Jobs
    /\ faults \in 0..MaxFaults

Init ==
    /\ RedisInit
    /\ WorkerInit
    /\ poll = {}
    /\ admin = [a \in Admins |-> NoCall]
    /\ lost = {}
    /\ faults = 0

Aside == UNCHANGED <<poll, admin, lost, faults>>

Fault == faults < MaxFaults /\ faults' = faults + 1

-----------------------------------------------------------------------------
Dispatch ==
    /\ \E j \in Jobs, d \in {"none", "future"} : Push(j, d)
    /\ UNCHANGED <<worker, poll, admin, lost, faults>>

\* pop: the id leaves the list ...
PopId(w, q) ==
    /\ LPop(q)
    /\ BeginPop(w, Head(ready[q]), NoPayload)
    /\ Aside

\* ... and its record is claimed under WATCH ...
PopClaim(w) ==
    /\ worker[w].pc = "popping"
    /\ ClaimPending(worker[w].job)
    /\ StartJob(w, worker[w].job, Claimed(hash[worker[w].job]))
    /\ Aside

\* ... unless it is gone, taken or delayed: then the id is dropped.
PopStale(w) ==
    /\ worker[w].pc = "popping"
    /\ ~Claimable(worker[w].job)
    /\ EmptyPop(w)
    /\ UNCHANGED redisVars
    /\ Aside

-----------------------------------------------------------------------------
(* _process *)

Handle(w) ==
    /\ HandleReturns(w) \/ HandleRaises(w)
    /\ UNCHANGED redisVars
    /\ Aside

CompleteJob(w) ==
    /\ RecordCompletion(w)
    /\ Complete(worker[w].job, worker[w].payload)
    /\ Aside

EndJob(w) ==
    /\ FinishJob(w)
    /\ UNCHANGED redisVars
    /\ Aside

\* _transition marks the copy before it runs the pipeline.
DriverError(w) ==
    /\ DriverMayFail
    /\ DriverRaises(w, "completed")
    /\ UNCHANGED redisVars
    /\ Aside

ReleaseJob(w) ==
    /\ RecordFailure(w, TRUE)
    /\ \E d \in RetryDelays : Release(worker[w].job, worker[w].payload, d)
    /\ Aside

FailJob(w) ==
    /\ RecordFailure(w, FALSE)
    /\ Fail(worker[w].job, worker[w].payload)
    /\ Aside

WorkerDies(w) ==
    /\ w \in Crashable
    /\ worker[w].pc = "popping" => CrashInPop
    /\ Crash(w)
    /\ lost' = IF worker[w].pc = "popping" THEN lost \cup {worker[w].job} ELSE lost
    /\ UNCHANGED redisVars
    /\ UNCHANGED <<poll, admin, faults>>

-----------------------------------------------------------------------------
(* The supervisor's loops *)

PollRead ==
    /\ poll = {}
    /\ poll' = {j \in Jobs : delayed[j] = "due"}
    /\ poll' # {}
    /\ UNCHANGED <<redisVars, worker, admin, lost, faults>>

PollPromote(j) ==
    /\ j \in poll
    /\ PromoteDelayed(j)
    /\ poll' = poll \ {j}
    /\ UNCHANGED <<worker, admin, lost, faults>>

RecoverStuck(j) ==
    /\ RequeueStuck(j)
    /\ UNCHANGED <<worker, poll, admin, lost, faults>>

-----------------------------------------------------------------------------
(* Operators: each call reads the job and writes in a second round trip. *)

\* Mutant: a retry of a job in any status.
AppliesToAny(op, j) == j \in pushed

\* What the read has to see for the call to go on.
Applies(op, j) ==
    \/ op = "retry" /\ hash[j].status = "failed"
    \/ op = "promote" /\ hash[j].status = "pending"
    \/ op = "delete" /\ j \in pushed
    \/ op = "prune" /\ j \in idxStatus["completed"] \cup idxStatus["failed"]

AdminRead(a) ==
    /\ admin[a].op = "none"
    /\ \E op \in AdminOps, j \in Jobs :
          /\ Applies(op, j)
          /\ admin' = [admin EXCEPT ![a] = [op |-> op, job |-> j, copy |-> hash[j]]]
    /\ Fault
    /\ UNCHANGED <<redisVars, worker, poll, lost>>

AdminWrite(a) ==
    LET c == admin[a] IN
    /\ \/ c.op = "retry" /\ Release(c.job, c.copy, "none")
       \/ c.op = "promote" /\ Promote(c.job, c.copy)
       \/ c.op = "delete" /\ Delete(c.job, c.copy)
       \/ c.op = "prune" /\ Reap(c.job, c.copy)
    /\ admin' = [admin EXCEPT ![a] = NoCall]
    /\ lost' = IF c.op = "promote" THEN lost \cup {c.job} ELSE lost
    /\ UNCHANGED <<worker, poll, faults>>

-----------------------------------------------------------------------------
TimePasses ==
    /\ \/ /\ \E j \in Jobs : DelayElapses(j)
          /\ UNCHANGED faults
       \/ /\ \E j \in Jobs : ClaimAges(j) /\ \A w \in Workers : ~Holds(w, j)
          /\ UNCHANGED faults
       \/ /\ PrematureRecovery /\ Fault
          /\ \E j \in Jobs : ClaimAges(j) /\ \E w \in Workers : Holds(w, j)
    /\ UNCHANGED <<worker, poll, admin, lost>>

-----------------------------------------------------------------------------
WorkerStep(w) ==
    \/ \E q \in Queues : PopId(w, q)
    \/ PopClaim(w) \/ PopStale(w)
    \/ Handle(w)
    \/ CompleteJob(w) \/ EndJob(w) \/ DriverError(w)
    \/ ReleaseJob(w) \/ FailJob(w)

Poller == PollRead \/ \E j \in Jobs : PollPromote(j)

Recovery == \E j \in Jobs : RecoverStuck(j)

Next ==
    \/ Dispatch
    \/ \E w \in Workers : WorkerStep(w) \/ WorkerDies(w)
    \/ Poller
    \/ Recovery
    \/ \E a \in Admins : AdminRead(a) \/ AdminWrite(a)
    \/ TimePasses

Spec == Init /\ [][Next]_vars

\* As for the SQL drivers.
Fairness ==
    /\ \A w \in Workers : WF_vars(WorkerStep(w))
    /\ WF_vars(Poller)
    /\ WF_vars(Recovery)
    /\ WF_vars(TimePasses)

FairSpec == Spec /\ Fairness

-----------------------------------------------------------------------------
(* Properties *)

\* Where something will find a pending job: its ready list, the delayed set,
\* or the hands of a worker about to claim it.
Findable(j) ==
    \/ InReady(j)
    \/ delayed[j] # "none"
    \/ \E w \in Workers : worker[w].pc = "popping" /\ worker[w].job = j

\* A pending job can be found, whatever recoveries, retries, deletes and
\* late outcomes do to it, unless promote() was called on it or a worker
\* died between taking its id and claiming it.
NotStranded ==
    \A j \in Jobs : hash[j].status = "pending" /\ j \notin lost => Findable(j)

\* The same, promote() included: it makes a pending job runnable, so after
\* it, as before it, something will find the job.  Does not hold (README,
\* Known races).
NeverStranded ==
    \A j \in Jobs : hash[j].status = "pending" => Findable(j)

\* An id is at most once in a ready list, unless promote() was called on it.
ReadyOnce ==
    \A j \in Jobs \ lost :
        Cardinality({i \in DOMAIN ready[QueueOf[j]] : ready[QueueOf[j]][i] = j}) <= 1

\* The indexes list the jobs that exist, each under its status.
IndexesMatch ==
    /\ idxAll = {j \in Jobs : Present(j)}
    /\ \A s \in Status : idxStatus[s] = {j \in Jobs : hash[j].status = s}

\* A job waiting out a delay is not claimed, whatever stale ids the ready
\* lists hold.
BackoffRespected ==
    [][\A j \in Jobs :
          hash[j].status = "pending" /\ hash[j].delay = "future"
             => hash'[j].status # "processing"]_vars

\* Every dispatched job is in the end completed, failed or removed, even if
\* the worker that has it dies.
EveryJobSettles ==
    \A j \in Jobs :
        hash[j].status \in {"pending", "processing"}
           ~> hash[j].status \in Terminal \cup {"absent"}

LifeState(j) ==
    IF Present(j) THEN hash[j].status
    ELSE IF j \in pushed THEN "removed" ELSE "new"

Holder(j) ==
    IF \E w \in Workers : Executing(w) /\ worker[w].job = j
    THEN CHOOSE w \in Workers : Executing(w) /\ worker[w].job = j
    ELSE NoJob

Life == INSTANCE JobLifecycle
            WITH Nobody <- NoJob,
                 state <- [j \in Jobs |-> LifeState(j)],
                 holder <- [j \in Jobs |-> Holder(j)]

\* Workers on the Redis driver implement the job life cycle.
ImplementsLifecycle == Life!LifeSpec

=============================================================================
