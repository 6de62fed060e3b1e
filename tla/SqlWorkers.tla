----------------------------- MODULE SqlWorkers -----------------------------
(***************************************************************************)
(* Worker processes, retriers, the stuck-job recovery, the delayed-job     *)
(* poller and administration over one jobs table (SqlDriver).  Every       *)
(* driver call commits on its own, so calls of different processes         *)
(* interleave freely; what a process read before is stale at its next call.*)
(*                                                                         *)
(* Bounds: MaxGrants caps the manual retries and premature recoveries of   *)
(* a job; recoveries after a death are as many as the workers that may die.*)
(***************************************************************************)
EXTENDS SqlDriver, Worker, FiniteSets

CONSTANTS
    AtomicPop,          \* TRUE: PostgreSQL's one-statement pop; FALSE: SQLite's two
    PrematureRecovery,  \* the stuck timeout may expire while the holder is alive
    DriverMayFail,      \* driver calls in _process's try block may raise
    Crashable,          \* the workers that may die
    Retriers,           \* callers of retry_failed and retry_job
    AdminOps,           \* the administrative calls in use
    MaxGrants

ASSUME SqlWorkersAssumption ==
    /\ {AtomicPop, PrematureRecovery, DriverMayFail} \subseteq BOOLEAN
    /\ IsFiniteSet(Workers)
    /\ Crashable \subseteq Workers
    /\ NoJob \notin Workers   \* it stands for nobody in the refinement
    /\ MaxGrants \in Nat

VARIABLES
    todo,     \* failed jobs a retrier has read and not yet released
    grants    \* history: runs a job was given back by a retry or a recovery

vars == <<rows, pushed, worker, todo, grants>>

TypeOK ==
    /\ SqlTypeOK
    /\ WorkerTypeOK
    /\ todo \in [Retriers -> SUBSET Jobs]
    /\ grants \in [Jobs -> Nat]

Init ==
    /\ SqlInit
    /\ WorkerInit
    /\ todo = [r \in Retriers |-> {}]
    /\ grants = [j \in Jobs |-> 0]

Grant(S) == grants' = [j \in Jobs |-> IF j \in S THEN grants[j] + 1 ELSE grants[j]]

Aside == UNCHANGED <<todo, grants>>

-----------------------------------------------------------------------------
(* Dispatching *)

Dispatch ==
    /\ \/ \E j \in Jobs, d \in {"none", "future"} : Push(j, d)
       \/ \E S \in SUBSET Jobs : S # {} /\ PushMany(S, "none")
    /\ UNCHANGED <<worker, todo, grants>>

-----------------------------------------------------------------------------
(* pop *)

\* Mutant: the payload that runs is the row before the claim.
PopAtomicOldRow(w, q) ==
    /\ AtomicPop
    /\ \E j \in Eligible(q) : Claim(j) /\ StartJob(w, j, rows[j])
    /\ Aside

\* PostgreSQL: SKIP LOCKED passes over rows another pop is claiming, so the
\* row need not be the oldest.
PopAtomic(w, q) ==
    /\ AtomicPop
    /\ \E j \in Eligible(q) : Claim(j) /\ StartJob(w, j, Claimed(rows[j]))
    /\ Aside

\* SQLite: the SELECT.
PopSelect(w, q) ==
    /\ ~AtomicPop
    /\ \E j \in Oldest(Eligible(q)) : BeginPop(w, j, rows[j])
    /\ UNCHANGED <<rows, pushed>>
    /\ Aside

\* SQLite: the UPDATE, conditional on the status alone.  The payload that is
\* run is the row as it was selected.
PopClaim(w) ==
    /\ worker[w].pc = "popping"
    /\ Claim(worker[w].job)
    /\ StartJob(w, worker[w].job, Claimed(worker[w].payload))
    /\ Aside

PopMiss(w) ==
    /\ worker[w].pc = "popping"
    /\ worker[w].job \notin StatusIs("pending")
    /\ EmptyPop(w)
    /\ UNCHANGED <<rows, pushed>>
    /\ Aside

-----------------------------------------------------------------------------
(* _process *)

Handle(w) ==
    /\ HandleReturns(w) \/ HandleRaises(w)
    /\ UNCHANGED <<rows, pushed>>
    /\ Aside

CompleteJob(w) ==
    /\ Complete(worker[w].job)
    /\ RecordCompletion(w)
    /\ Aside

EndJob(w) ==
    /\ FinishJob(w)
    /\ UNCHANGED <<rows, pushed>>
    /\ Aside

DriverError(w) ==
    /\ DriverMayFail
    /\ DriverRaises(w, worker[w].payload.status)
    /\ UNCHANGED <<rows, pushed>>
    /\ Aside

ReleaseJob(w) ==
    /\ \E d \in RetryDelays : Release(worker[w].job, d)
    /\ RecordFailure(w, TRUE)
    /\ Aside

FailJob(w) ==
    /\ Fail(worker[w].job)
    /\ RecordFailure(w, FALSE)
    /\ Aside

WorkerDies(w) ==
    /\ w \in Crashable
    /\ Crash(w)
    /\ UNCHANGED <<rows, pushed>>
    /\ Aside

-----------------------------------------------------------------------------
(* The supervisor's loops *)

PollDelayed ==
    /\ PopDelayed
    /\ UNCHANGED <<worker, todo, grants>>

RecoverStuck(q) ==
    /\ RequeueStuck(q)
    /\ Grant(Stuck(q))
    /\ UNCHANGED <<worker, todo>>

-----------------------------------------------------------------------------
(* Manual retries: get_jobs(status="failed") or get_job, then one release   *)
(* per job that was read, each a call of its own.                          *)

\* Mutant: get_jobs called without the status filter.
RetryFetchFinished(r) ==
    /\ todo[r] = {}
    /\ \E S \in SUBSET {j \in Jobs : rows[j].status \in Terminal} :
          /\ S # {}
          /\ \A j \in S : grants[j] < MaxGrants
          /\ todo' = [todo EXCEPT ![r] = S]
    /\ UNCHANGED <<rows, pushed, worker, grants>>

RetryFetch(r) ==
    /\ todo[r] = {}
    /\ \E S \in SUBSET StatusIs("failed") :
          /\ S # {}
          /\ \A j \in S : grants[j] < MaxGrants
          /\ todo' = [todo EXCEPT ![r] = S]
    /\ UNCHANGED <<rows, pushed, worker, grants>>

RetryRelease(r, j) ==
    /\ j \in todo[r]
    /\ Release(j, "none")
    /\ todo' = [todo EXCEPT ![r] = @ \ {j}]
    /\ Grant({j})
    /\ UNCHANGED worker

-----------------------------------------------------------------------------
(* Administration *)

Administer ==
    /\ \/ "promote" \in AdminOps /\ \E j \in Jobs : Promote(j)
       \/ "delete" \in AdminOps /\ \E j \in Jobs : Delete(j)
       \/ "prune" \in AdminOps /\ \E S \in SUBSET Jobs : Prune(S)
       \/ "flush" \in AdminOps /\ \E q \in Queues : Flush(q)
       \/ "emergency" \in AdminOps /\ EmergencyCleanup
    /\ UNCHANGED <<worker, todo, grants>>

-----------------------------------------------------------------------------
(* The clock.  A claim that has a live holder turns stale only when the     *)
(* stuck timeout is set below the longest run of a job.                    *)

TimePasses ==
    /\ \/ \E j \in Jobs : DelayElapses(j)
       \/ \E j \in Jobs :
             /\ \/ PrematureRecovery /\ grants[j] < MaxGrants
                \/ \A w \in Workers : ~Holds(w, j)
             /\ ClaimAges(j)
    /\ UNCHANGED <<worker, todo, grants>>

-----------------------------------------------------------------------------
WorkerStep(w) ==
    \/ \E q \in Queues : PopAtomic(w, q) \/ PopSelect(w, q)
    \/ PopClaim(w) \/ PopMiss(w)
    \/ Handle(w)
    \/ CompleteJob(w) \/ EndJob(w) \/ DriverError(w)
    \/ ReleaseJob(w) \/ FailJob(w)

SupervisorStep == PollDelayed \/ \E q \in Queues : RecoverStuck(q)

RetrierStep(r) == RetryFetch(r) \/ \E j \in Jobs : RetryRelease(r, j)

Next ==
    \/ Dispatch
    \/ \E w \in Workers : WorkerStep(w) \/ WorkerDies(w)
    \/ SupervisorStep
    \/ \E r \in Retriers : RetrierStep(r)
    \/ Administer
    \/ TimePasses

Spec == Init /\ [][Next]_vars

\* The loops of start(), _poll_delayed and _recover_stuck_loop go on for
\* ever, wait_for bounds every handler, and the clock does not stop.
Fairness ==
    /\ \A w \in Workers : WF_vars(WorkerStep(w))
    /\ WF_vars(SupervisorStep)
    /\ WF_vars(TimePasses)

FairSpec == Spec /\ Fairness

-----------------------------------------------------------------------------
(* Properties *)

\* The inductive invariant behind the properties below, when recovery never
\* is premature and there is at most one retrier.
Benign ==
    /\ ~PrematureRecovery
    /\ \A r, s \in Retriers : r = s

\* A worker past pop has a job in hand that was dispatched; one job is in
\* the hands of one worker; and its row is the claim, its result, or gone.
Lease ==
    \A w \in Workers, j \in Jobs \cup {NoJob} :
        Holds(w, j) =>
            /\ j \in pushed
            /\ rows[j].status \in {"processing", "completed", "absent"}
            /\ ~DriverMayFail /\ Executing(w) => rows[j].status # "completed"
            /\ rows[j].status = "processing" => rows[j].started = "fresh"
            /\ AtomicPop /\ Present(j) => worker[w].payload.attempts = rows[j].attempts
            /\ \A v \in Workers : Holds(v, j) => v = w

\* Rows come from a push, and a retrier's list has gone stale only by removal.
Listed ==
    /\ \A j \in Jobs : Present(j) => j \in pushed
    /\ \A r \in Retriers : \A j \in todo[r] :
          j \in pushed /\ rows[j].status \in {"failed", "absent"}

\* One statement has no point between its two halves.
OneStatement == AtomicPop => \A w \in Workers : worker[w].pc # "popping"

LeaseInv == Lease /\ Listed /\ OneStatement

\* The inductive invariant behind AttemptBudget.  What can still make a job
\* be claimed once more: it is pending, or a worker has it that will release
\* rather than fail it, or a later claim will be early enough for that.  A
\* claim spends the first to gain the second or third; a release turns the
\* second into the first; only a retry or a recovery adds to the sum.
Chances(j) == {w \in Workers : Holds(w, j) /\ ShouldRetry(worker[w].payload.attempts)}

EarlyClaims(n) == IF n < MaxAttempts THEN MaxAttempts - 1 - n ELSE 0

Budgeted(j) ==
    Present(j) =>
        rows[j].attempts + (IF rows[j].status = "pending" THEN 1 ELSE 0)
           + Cardinality(Chances(j)) + EarlyClaims(rows[j].attempts)
              <= MaxAttempts + grants[j]

KnownJobs ==
    /\ \A j \in Jobs : Present(j) => j \in pushed
    /\ \A w \in Workers : \A j \in Jobs : Holds(w, j) => j \in pushed

BudgetInv == KnownJobs /\ OneStatement /\ \A j \in Jobs : Budgeted(j)

\* However crashes, recoveries, late outcomes and manual retries fall, a job
\* is claimed at most max_attempts times plus once for every time a retry or
\* a recovery put it back.
AttemptBudget ==
    \A j \in Jobs : Present(j) => rows[j].attempts <= MaxAttempts + grants[j]

\* A worker that runs a job knows how often the job has been claimed: its
\* copy of the payload, which decides between release and fail, has the
\* attempts of the row.
CopyCurrent ==
    \A w \in Workers :
        LET j == worker[w].job IN
        Executing(w) /\ Present(j) => worker[w].payload.attempts = rows[j].attempts

\* A pop never takes a job whose delay has not elapsed: neither a job
\* scheduled for later nor one waiting out the backoff of a failed attempt.
BackoffRespected ==
    [][\A j \in Jobs :
          rows[j].status = "pending" /\ rows[j].delay = "future"
             => rows'[j].status # "processing"]_vars

\* Once complete() is recorded, nothing but removal happens to the job: no
\* late failure, recovery or retry runs it again.
CompletedIsFinal ==
    [][\A j \in Jobs :
          rows[j].status = "completed" => rows'[j].status \in {"completed", "absent"}]_vars

\* on_failure, called where fail() is, is for jobs whose attempts all failed:
\* a job recorded as completed is never recorded as failed afterwards.  Does
\* not hold with driver errors (README, Known races).
CompletedNeverFails ==
    [][\A j \in Jobs :
          rows[j].status = "completed" => rows'[j].status # "failed"]_vars

\* A removed job stays removed: no outcome, recovery or retry by a process
\* that still has its payload brings it back.
RemovedStaysRemoved ==
    [][\A j \in Jobs :
          j \in pushed /\ rows[j].status = "absent" => rows'[j].status = "absent"]_vars

\* Every job that was dispatched is in the end completed, failed or removed,
\* even if the worker that has it dies at any point.
EveryJobSettles ==
    \A j \in Jobs :
        rows[j].status \in {"pending", "processing"}
           ~> rows[j].status \in Terminal \cup {"absent"}

\* The refinement mapping: a job is held from its claim to the call that
\* records its outcome.
LifeState(j) ==
    IF Present(j) THEN rows[j].status
    ELSE IF j \in pushed THEN "removed" ELSE "new"

Holder(j) ==
    IF \E w \in Workers : Executing(w) /\ worker[w].job = j
    THEN CHOOSE w \in Workers : Executing(w) /\ worker[w].job = j
    ELSE NoJob

Life == INSTANCE JobLifecycle
            WITH Nobody <- NoJob,
                 state <- [j \in Jobs |-> LifeState(j)],
                 holder <- [j \in Jobs |-> Holder(j)]

\* Workers on a SQL driver implement the job life cycle.
ImplementsLifecycle == Life!LifeSpec

=============================================================================
