---------------------------- MODULE BatchTracker ----------------------------
(***************************************************************************)
(* One batch: its dispatch, the counters in the batch record, the worker   *)
(* steps after a job's outcome is recorded, and the callback jobs pushed   *)
(* by the handlers dispatch() leaves on the event bus of its own process.  *)
(* The life of a job is taken from JobLifecycle as far as it matters here. *)
(*                                                                         *)
(* Bounds: MaxFaults caps driver errors and manual retries.                *)
(***************************************************************************)
EXTENDS Naturals, Sequences, FiniteSets

CONSTANTS
    Jobs, Workers, NoJob,
    AtomicIncrement,  \* the increment returns the record it wrote; FALSE: SQLite
                      \* reads it in a second statement
    UpdateMerges,     \* update_batch adds to the record; FALSE: it replaces it
    Local,            \* the workers in the process that dispatches
    DriverMayFail, Crashable, MaxFaults

ASSUME BatchAssumption ==
    /\ Jobs # {} /\ IsFiniteSet(Jobs) /\ NoJob \notin Jobs
    /\ {AtomicIncrement, UpdateMerges, DriverMayFail} \subseteq BOOLEAN
    /\ Local \subseteq Workers /\ Crashable \subseteq Workers
    /\ MaxFaults \in Nat

VARIABLES
    dispatch,   \* the next step of dispatch()
    job,        \* job -> its status
    batch,      \* the record the driver keeps
    worker,     \* where a worker is in _process
    emitted,    \* history: how often each event was emitted
    callback,   \* callback -> jobs pushed for it
    faults      \* bound

vars == <<dispatch, job, batch, worker, emitted, callback, faults>>

Counters == {"completed", "failed"}

Finished == {"completed", "failed"}

Idle == [pc |-> "idle", job |-> NoJob, counter |-> "completed", todo |-> <<>>]

TypeOK ==
    /\ dispatch \in {"store", "push", "register", "done"}
    /\ job \in [Jobs -> {"new", "pending", "processing"} \cup Finished]
    /\ batch \in [total : Nat, count : [Counters -> Nat], allow : BOOLEAN]
    /\ worker \in [Workers ->
          [pc : {"idle", "running", "raised", "counting", "reading", "calling", "dead"},
           job : Jobs \cup {NoJob}, counter : Counters,
           todo : Seq({"then", "finally", "update", "catch"})]]
    /\ emitted \in [Counters -> Nat]
    /\ callback \in [{"then", "finally", "catch"} -> Nat]
    /\ faults \in 0..MaxFaults

\* What a record without the fields reads as.
EmptyRecord == [total |-> 0, count |-> [c \in Counters |-> 0], allow |-> FALSE]

Init ==
    /\ dispatch = "store"
    /\ job = [j \in Jobs |-> "new"]
    /\ batch = EmptyRecord
    /\ worker = [w \in Workers |-> Idle]
    /\ emitted = [c \in Counters |-> 0]
    /\ callback = [c \in {"then", "finally", "catch"} |-> 0]
    /\ faults = 0

Fault == faults < MaxFaults /\ faults' = faults + 1

-----------------------------------------------------------------------------
(* dispatch(): three steps, and workers run between them. *)

\* Mutant: the batch expects one job more than it has.
StoreBatchOneMore ==
    /\ dispatch = "store"
    /\ dispatch' = "push"
    /\ batch' = [EmptyRecord EXCEPT !.total = Cardinality(Jobs) + 1]
    /\ UNCHANGED <<job, worker, emitted, callback, faults>>

StoreBatch ==
    /\ dispatch = "store"
    /\ dispatch' = "push"
    /\ \E allow \in BOOLEAN :
          batch' = [EmptyRecord EXCEPT !.total = Cardinality(Jobs), !.allow = allow]
    /\ UNCHANGED <<job, worker, emitted, callback, faults>>

PushJobs ==
    /\ dispatch = "push"
    /\ dispatch' = "register"
    /\ job' = [j \in Jobs |-> "pending"]
    /\ UNCHANGED <<batch, worker, emitted, callback, faults>>

RegisterCallbacks ==
    /\ dispatch = "register"
    /\ dispatch' = "done"
    /\ UNCHANGED <<job, batch, worker, emitted, callback, faults>>

-----------------------------------------------------------------------------
(* _process up to the recorded outcome *)

Take(w, j) ==
    /\ worker[w].pc = "idle" /\ job[j] = "pending"
    /\ job' = [job EXCEPT ![j] = "processing"]
    /\ worker' = [worker EXCEPT ![w] = [Idle EXCEPT !.pc = "running", !.job = j]]
    /\ UNCHANGED <<dispatch, batch, emitted, callback, faults>>

Record(w, status, next) ==
    /\ job' = [job EXCEPT ![worker[w].job] = status]
    /\ worker' = [worker EXCEPT ![w] = next]
    /\ UNCHANGED <<dispatch, batch, emitted, callback, faults>>

CompleteJob(w) ==
    /\ worker[w].pc = "running"
    /\ Record(w, "completed", [worker[w] EXCEPT !.pc = "counting"])

\* Mutant: every failed attempt is counted, not only the last.
ReleaseJobCounted(w) ==
    /\ worker[w].pc \in {"running", "raised"}
    /\ Record(w, "pending", [worker[w] EXCEPT !.pc = "counting", !.counter = "failed"])

ReleaseJob(w) ==
    /\ worker[w].pc \in {"running", "raised"}
    /\ Record(w, "pending", Idle)

FailJob(w) ==
    /\ worker[w].pc \in {"running", "raised"}
    /\ Record(w, "failed", [worker[w] EXCEPT !.pc = "counting", !.counter = "failed"])

-----------------------------------------------------------------------------
(* _check_batch_completion and _check_batch_failure *)

Done(b) == b.count["completed"] + b.count["failed"]

\* Mutant: >= instead of equality.
EventOfAtLeast(counter, b) ==
    IF counter = "completed" /\ Done(b) >= b.total THEN "completed"
    ELSE IF counter = "failed" /\ ~b.allow /\ b.count["failed"] >= 1 THEN "failed"
    ELSE "none"

EventOf(counter, b) ==
    IF counter = "completed" /\ Done(b) = b.total THEN "completed"
    ELSE IF counter = "failed" /\ ~b.allow /\ b.count["failed"] = 1 THEN "failed"
    ELSE "none"

\* The calls the handler of an event makes, in order.
Handler(event, b) ==
    IF event = "failed" THEN <<"catch">>
    ELSE (IF b.count["failed"] = 0 THEN <<"then">> ELSE <<>>) \o <<"finally", "update">>

Listening(w) == w \in Local /\ dispatch = "done"

\* The record b came back from the driver: the event it calls for, if any.
Emit(w, b) ==
    LET event == EventOf(worker[w].counter, b) IN
    /\ emitted' = [c \in Counters |-> emitted[c] + (IF c = event THEN 1 ELSE 0)]
    /\ worker' = [worker EXCEPT ![w] =
          IF event # "none" /\ Listening(w)
          THEN [Idle EXCEPT !.pc = "calling", !.todo = Handler(event, b)]
          ELSE Idle]

Incremented(w) == [batch EXCEPT !.count[worker[w].counter] = @ + 1]

\* Mutant: the driver has no lock.
NoLock(w) == TRUE

\* SQLite's lock: the workers of one process share a driver, whose calls wait
\* for an increment that has not read its record back.  Every worker that is
\* not local is a process of its own.
Unlocked(w) == w \in Local => \A v \in Local : worker[v].pc # "reading"

\* Mutant: the record before the increment comes back.
IncrementReturnsOld(w) ==
    /\ worker[w].pc = "counting"
    /\ batch' = Incremented(w)
    /\ Emit(w, batch)
    /\ UNCHANGED <<dispatch, job, callback, faults>>

Increment(w) ==
    /\ worker[w].pc = "counting" /\ Unlocked(w)
    /\ batch' = Incremented(w)
    /\ \/ AtomicIncrement /\ Emit(w, Incremented(w))
       \/ /\ ~AtomicIncrement
          /\ worker' = [worker EXCEPT ![w].pc = "reading"]
          /\ UNCHANGED emitted
    /\ UNCHANGED <<dispatch, job, callback, faults>>

ReadBack(w) ==
    /\ worker[w].pc = "reading"
    /\ Emit(w, batch)
    /\ UNCHANGED <<dispatch, job, batch, callback, faults>>

\* The increment raised, whether or not it took effect: after a completion
\* the except clause of _process takes over, after a failure nothing does.
IncrementRaises(w) ==
    /\ DriverMayFail /\ Fault
    /\ worker[w].pc = "counting" /\ Unlocked(w)
    /\ batch' \in {batch, Incremented(w)}
    /\ worker' = [worker EXCEPT ![w] =
          IF worker[w].counter = "completed" THEN [@ EXCEPT !.pc = "raised"]
          ELSE [Idle EXCEPT !.pc = "dead"]]
    /\ UNCHANGED <<dispatch, job, emitted, callback>>

\* One call of the handler, which may push a job or update the record.
CallBack(w) ==
    /\ worker[w].pc = "calling" /\ Unlocked(w)
    /\ LET call == Head(worker[w].todo)
           rest == Tail(worker[w].todo)
       IN /\ worker' = [worker EXCEPT ![w] =
                IF rest = <<>> THEN Idle ELSE [@ EXCEPT !.todo = rest]]
          /\ callback' = [c \in DOMAIN callback |->
                callback[c] + (IF c = call THEN 1 ELSE 0)]
          /\ batch' = IF call = "update" /\ ~UpdateMerges THEN EmptyRecord ELSE batch
    /\ UNCHANGED <<dispatch, job, emitted, faults>>

\* emit() swallows what a handler raises, and its remaining calls with it.
CallBackRaises(w) ==
    /\ DriverMayFail /\ Fault
    /\ worker[w].pc = "calling"
    /\ worker' = [worker EXCEPT ![w] = Idle]
    /\ UNCHANGED <<dispatch, job, batch, emitted, callback>>

-----------------------------------------------------------------------------
WorkerDies(w) ==
    /\ w \in Crashable /\ worker[w].pc # "dead"
    /\ worker' = [worker EXCEPT ![w] = [Idle EXCEPT !.pc = "dead"]]
    /\ UNCHANGED <<dispatch, job, batch, emitted, callback, faults>>

RecoverStuck(j) ==
    /\ job[j] = "processing" /\ \A w \in Workers : worker[w].job # j
    /\ job' = [job EXCEPT ![j] = "pending"]
    /\ UNCHANGED <<dispatch, batch, worker, emitted, callback, faults>>

ManualRetry(j) ==
    /\ job[j] = "failed" /\ Fault
    /\ job' = [job EXCEPT ![j] = "pending"]
    /\ UNCHANGED <<dispatch, batch, worker, emitted, callback>>

-----------------------------------------------------------------------------
Dispatcher == StoreBatch \/ PushJobs \/ RegisterCallbacks

WorkerStep(w) ==
    \/ \E j \in Jobs : Take(w, j)
    \/ CompleteJob(w) \/ ReleaseJob(w) \/ FailJob(w)
    \/ Increment(w) \/ ReadBack(w) \/ CallBack(w)

Next ==
    \/ Dispatcher
    \/ \E w \in Workers :
          WorkerStep(w) \/ IncrementRaises(w) \/ CallBackRaises(w) \/ WorkerDies(w)
    \/ \E j \in Jobs : RecoverStuck(j) \/ ManualRetry(j)

Spec == Init /\ [][Next]_vars

Fairness == WF_vars(Dispatcher) /\ \A w \in Workers : WF_vars(WorkerStep(w))

FairSpec == Spec /\ Fairness

-----------------------------------------------------------------------------
(* Properties *)

\* However the workers' increments interleave, and whatever is counted twice
\* or again after a manual retry, batch.completed is emitted at most once.
CompletedOnce == emitted["completed"] <= 1

\* update_batch has not replaced the record that dispatch() stored.
RecordKept == batch.total > 0

\* As long as the driver keeps the record, batch.failed is emitted at most
\* once, and never for a batch that allows failures.
FailedOnce == RecordKept => emitted["failed"] <= IF batch.allow THEN 0 ELSE 1

\* The then job is pushed only when every job of the batch has completed, if
\* no driver call failed and no job was retried by hand.
ThenMeansSuccess ==
    callback["then"] > 0 /\ faults = 0 => \A j \in Jobs : job[j] = "completed"

\* The finally job is pushed only when every job of the batch has finished,
\* on the same condition.
FinallyMeansFinished ==
    callback["finally"] > 0 /\ faults = 0 => \A j \in Jobs : job[j] \in Finished

AllCompleted == \A j \in Jobs : job[j] = "completed"

AllFinished == \A j \in Jobs : job[j] \in Finished

\* What may keep an outcome from being counted, or count it twice.
Disturbed == faults > 0 \/ \E w \in Workers : worker[w].pc = "dead"

\* Once every job has completed, somebody emits batch.completed.
SuccessIsAnnounced == AllCompleted ~> emitted["completed"] > 0 \/ Disturbed

\* Once a job has failed, somebody emits batch.failed.
FailureIsAnnounced ==
    (\E j \in Jobs : job[j] = "failed") /\ RecordKept /\ ~batch.allow
        ~> emitted["failed"] = 1 \/ Disturbed

\* Once every job has finished, the finally job is pushed.
FinallyRuns == AllFinished ~> callback["finally"] > 0

=============================================================================
