--------------------------- MODULE MemoryWorkers ----------------------------
(***************************************************************************)
(* One process: a supervisor, its worker tasks and the callers of the      *)
(* queue, on the memory driver.  A worker awaits nothing between the end   *)
(* of handle() and the driver call that records the outcome, and the       *)
(* payload it looks at is the driver's own object.                         *)
(*                                                                         *)
(* Bound: MaxGrants caps manual retries and premature recoveries of a job. *)
(***************************************************************************)
EXTENDS MemoryDriver, Supervisor

CONSTANTS
    PrematureRecovery,   \* the stuck timeout may be shorter than a job
    Some, Lots,          \* the backlogs per worker at which the balancer adds 1 and 2
    MaxGrants

ASSUME MemoryWorkersAssumption ==
    /\ IsFiniteSet(Queues)
    /\ PrematureRecovery \in BOOLEAN
    /\ Some \in Nat \ {0} /\ Lots \in Nat /\ Some < Lots
    /\ MaxGrants \in Nat

VARIABLES
    broken,   \* jobs whose class cannot be imported
    grants,   \* job -> runs given to it by retries and recoveries
    rivals    \* history: jobs recovered while a worker was running them

vars == <<memVars, supVars, broken, grants, rivals>>

TypeOK ==
    /\ MemTypeOK /\ SupTypeOK
    /\ grants \in [Jobs -> Nat]
    /\ rivals \subseteq Jobs /\ broken \subseteq Jobs

Init ==
    /\ MemInit /\ SupInit
    /\ grants = [j \in Jobs |-> 0]
    /\ rivals = {} /\ broken \in SUBSET Jobs

Runs(w, j) == task[w].pc = "running" /\ task[w].job = j

Grant(S) == grants' = [j \in Jobs |-> grants[j] + (IF j \in S THEN 1 ELSE 0)]

\* A worker's step; the supervisor's own state stays what it is.
Goto(w, next) ==
    /\ task' = [task EXCEPT ![w] = next]
    /\ UNCHANGED <<up, start, starts, stop, pool, spawned, aux, hasty, crowded,
                   broken, grants, rivals>>

-----------------------------------------------------------------------------
(* The worker loop *)

Take(w, q) ==
    /\ task[w].pc = "idle" /\ task[w].on
    /\ \E j \in PendingJobs :
          Pop(q, j) /\ Goto(w, [task[w] EXCEPT !.pc = "running", !.job = j])

PopEmpty(w, q) ==
    /\ task[w].pc = "idle" /\ task[w].on
    /\ PopNothing(q)
    /\ UNCHANGED <<supVars, broken, grants, rivals>>

CompleteJob(w) ==
    /\ task[w].pc = "running" /\ task[w].job \notin broken
    /\ Complete(task[w].job)
    /\ Goto(w, [task[w] EXCEPT !.pc = "recorded"])

ReleaseJob(w) ==
    /\ task[w].pc = "running" /\ ShouldRetry(obj[task[w].job].attempts)
    /\ \E d \in RetryDelays : Release(task[w].job, d)
    /\ Goto(w, [task[w] EXCEPT !.pc = "recorded"])

FailJob(w) ==
    /\ task[w].pc = "running" /\ ~ShouldRetry(obj[task[w].job].attempts)
    /\ Fail(task[w].job)
    /\ Goto(w, [task[w] EXCEPT !.pc = "failed"])

\* Events, hooks and the batch are done with.  on_failure needs the class
\* again: if there is none the exception ends the task, and nobody sees it.
FinishJob(w) ==
    /\ task[w].pc \in {"recorded", "failed"}
    /\ Goto(w, IF task[w].pc = "failed" /\ task[w].job \in broken THEN Ended
               ELSE [task[w] EXCEPT !.pc = "idle", !.job = NoJob])
    /\ UNCHANGED memVars

-----------------------------------------------------------------------------
(* The supervisor's loops *)

PollDelayed ==
    /\ "delayed" \in aux /\ up
    /\ PopDelayed
    /\ UNCHANGED <<supVars, broken, grants, rivals>>

RecoverStuck ==
    /\ "recovery" \in aux /\ up
    /\ \E q \in Queues :
          /\ RequeueStuck(q)
          /\ Grant(Stuck(q))
          /\ rivals' = rivals \cup {j \in Stuck(q) : \E w \in Tasks : Runs(w, j)}
    /\ UNCHANGED <<supVars, broken>>

PruneFinished ==
    /\ "pruner" \in aux
    /\ \E S \in SUBSET {j \in jobs : obj[j].status \in Terminal} : Prune(S)
    /\ UNCHANGED <<supVars, broken, grants, rivals>>

Backlog == MapThenSumSet(LAMBDA q : Len(ready[q]), Queues)

\* AutoBalancer.recommend.
AutoRecommends(current) ==
    IF Backlog = 0 THEN MinWorkers
    ELSE IF Backlog > current * Lots THEN Clamp(current + 2)
    ELSE IF Backlog > current * Some THEN Clamp(current + 1)
    ELSE IF Backlog < current THEN Clamp(current - 1)
    ELSE current

\* SimpleBalancer.recommend.
SimpleRecommends == IF Backlog > 0 THEN Clamp(Cardinality(Queues)) ELSE MinWorkers

\* Either balancer may be the one configured; none is configured by never
\* taking this action.
Balance ==
    /\ "balance" \in aux
    /\ \E n \in {AutoRecommends(Len(pool)), SimpleRecommends} : n # Len(pool) /\ Scale(n)
    /\ UNCHANGED <<memVars, broken, grants, rivals>>

-----------------------------------------------------------------------------
(* Callers *)

Dispatch ==
    /\ \E j \in Jobs, d \in Delay : Push(j, d)
    /\ UNCHANGED <<supVars, broken, grants, rivals>>

RetryFailed ==
    /\ \E S \in SUBSET {j \in Jobs : grants[j] < MaxGrants} : Retry(S) /\ Grant(S)
    /\ UNCHANGED <<supVars, broken, rivals>>

Administer ==
    /\ \/ \E j \in Jobs : Promote(j) \/ Delete(j)
       \/ \E S \in SUBSET jobs : Prune(S)
       \/ FlushAll \/ \E q \in Queues : Flush(q)
    /\ UNCHANGED <<supVars, broken, grants, rivals>>

ScaleCalled ==
    /\ \E n \in 0..(MaxWorkers + 1) : Clamp(n) # Len(pool) /\ Scale(n)
    /\ UNCHANGED <<memVars, broken, grants, rivals>>

StartOrStop ==
    /\ StartCalled \/ StopCalled
    /\ UNCHANGED <<memVars, broken, grants, rivals>>

TimePasses ==
    /\ \E j \in Jobs :
          \/ DelayElapses(j)
          \/ /\ \/ PrematureRecovery /\ grants[j] < MaxGrants
                \/ \A w \in Tasks : ~Runs(w, j)
             /\ ClaimAges(j)
    /\ UNCHANGED <<supVars, broken, grants, rivals>>

-----------------------------------------------------------------------------
WorkerStep(w) ==
    \/ (TaskBegins(w) \/ TaskEnds(w)) /\ UNCHANGED <<memVars, broken, grants, rivals>>
    \/ \E q \in Queues : Take(w, q) \/ PopEmpty(w, q)
    \/ CompleteJob(w) \/ ReleaseJob(w) \/ FailJob(w) \/ FinishJob(w)

SupervisorStep ==
    /\ StartStep \/ StopStep
    /\ UNCHANGED <<memVars, broken, grants, rivals>>

Next ==
    \/ \E w \in Tasks : WorkerStep(w)
    \/ SupervisorStep \/ PollDelayed \/ RecoverStuck \/ PruneFinished \/ Balance
    \/ Dispatch \/ RetryFailed \/ Administer \/ ScaleCalled \/ StartOrStop
    \/ TimePasses

Spec == Init /\ [][Next]_vars

\* asyncio gives every task that is ready its turn, wait_for bounds every
\* handler, the loops sleep and go on, and the clock does not stop.
Fairness ==
    /\ \A w \in Tasks : WF_vars(WorkerStep(w))
    /\ WF_vars(SupervisorStep) /\ WF_vars(PollDelayed) /\ WF_vars(RecoverStuck)
    /\ WF_vars(TimePasses)

FairSpec == Spec /\ Fairness

-----------------------------------------------------------------------------
(* Properties *)

\* No two workers run a job at the same time, unless recovery took it from a
\* worker that was still running it.
OneRunner ==
    \A v, w \in Tasks : \A j \in Jobs \ rivals : Runs(v, j) /\ Runs(w, j) => v = w

\* A pending job can be found: it is in its queue's list, or in the delayed
\* list with a delay that will bring it back.
NotStranded ==
    \A j \in PendingJobs :
        \/ Contains(ready[QueueOf[j]], j)
        \/ Contains(delayed, j) /\ obj[j].delay # "none"

\* A job is claimed at most max_attempts times, plus once for every retry and
\* recovery, although rival workers count on one shared object.
AttemptBudget == \A j \in Jobs : obj[j].attempts <= MaxAttempts + grants[j]

\* A job that was scheduled for later or waits out a backoff is not claimed,
\* unless rival workers have left a second entry for it.
BackoffRespected ==
    [][\A j \in jobs \ rivals :
          obj[j].status = "pending" /\ obj[j].delay = "future"
             => obj'[j].status # "processing"]_vars

\* The supervisor is running and its pool has a worker that has not died.
Served == up /\ start = "on" /\ \E w \in ToSet(pool) : Alive(w)

\* As long as that lasts, every job ends completed, failed or removed, while
\* the pool grows and shrinks, also when a former stop() cut it off.
EveryJobSettles ==
    \A j \in Jobs :
        j \in jobs /\ obj[j].status \in {"pending", "processing"}
           ~> j \notin jobs \/ obj[j].status \in Terminal \/ ~Served

=============================================================================
