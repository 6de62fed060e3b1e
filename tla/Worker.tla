------------------------------- MODULE Worker -------------------------------
(***************************************************************************)
(* The worker loop: pop, run the handler, record the outcome.  A worker    *)
(* is sequential, so its state is the point it has reached and the job it  *)
(* holds with its own copy of the payload.  The driver calls themselves    *)
(* belong to the driver modules; a composing module conjoins the two.      *)
(*                                                                         *)
(*   idle       between two calls of pop                                   *)
(*   popping    inside pop: an id is in hand, the claim is not written     *)
(*   running    handle() is executing under wait_for                       *)
(*   succeeded  handle() returned, driver.complete not yet called          *)
(*   completed  driver.complete returned; metric, event, batch to follow   *)
(*   raised     in the except clause, the failure is not yet recorded      *)
(*   dead       the task has ended and nothing starts another              *)
(***************************************************************************)
EXTENDS JobPayload

CONSTANTS Workers, NoJob

ASSUME NoJobAssumption == NoJob \notin Jobs

VARIABLE worker

Points == {"idle", "popping", "running", "succeeded", "completed", "raised",
           "dead"}

WorkerTypeOK ==
    worker \in [Workers -> [pc : Points, job : Jobs \cup {NoJob},
                            payload : Payload]]

Idle == [pc |-> "idle", job |-> NoJob, payload |-> NoPayload]

Dead == [Idle EXCEPT !.pc = "dead"]

WorkerInit == worker = [w \in Workers |-> Idle]

\* The steps of _process during which the job's outcome is still open.
Executing(w) == worker[w].pc \in {"running", "succeeded", "raised"}

Holds(w, j) == worker[w].pc \notin {"idle", "popping", "dead"} /\ worker[w].job = j

-----------------------------------------------------------------------------
BeginPop(w, j, p) ==
    /\ worker[w].pc = "idle"
    /\ worker' = [worker EXCEPT ![w] = [pc |-> "popping", job |-> j, payload |-> p]]

\* pop returned nothing: the loop sleeps and tries again.
EmptyPop(w) ==
    /\ worker[w].pc = "popping"
    /\ worker' = [worker EXCEPT ![w] = Idle]

\* pop returned a payload: _process starts.
StartJob(w, j, p) ==
    /\ worker[w].pc \in {"idle", "popping"}
    /\ worker' = [worker EXCEPT ![w] = [pc |-> "running", job |-> j, payload |-> p]]

HandleReturns(w) ==
    /\ worker[w].pc = "running"
    /\ worker' = [worker EXCEPT ![w].pc = "succeeded"]

\* handle() raised or ran into its timeout, or the class did not resolve.
HandleRaises(w) ==
    /\ worker[w].pc = "running"
    /\ worker' = [worker EXCEPT ![w].pc = "raised"]

\* driver.complete returned, having marked the payload.
RecordCompletion(w) ==
    /\ worker[w].pc = "succeeded"
    /\ worker' = [worker EXCEPT ![w].pc = "completed",
                                 ![w].payload = [@ EXCEPT !.status = "completed"]]

\* Everything after driver.complete went through.
FinishJob(w) ==
    /\ worker[w].pc = "completed"
    /\ worker' = [worker EXCEPT ![w] = Idle]

\* complete itself, or a driver call after it, raised: the same except
\* clause that serves a failing handler takes over.  The status the payload
\* has by then depends on when the driver sets it.
DriverRaises(w, st) ==
    /\ worker[w].pc \in {"succeeded", "completed"}
    /\ worker' = [worker EXCEPT ![w].pc = "raised", ![w].payload = [@ EXCEPT !.status = st]]

\* driver.release or driver.fail returned.
RecordFailure(w, retry) ==
    /\ worker[w].pc = "raised"
    /\ ShouldRetry(worker[w].payload.attempts) = retry
    /\ worker' = [worker EXCEPT ![w] = Idle]

\* The process is killed, stop() cancels the task, or an exception leaves
\* start(): pop, release and fail run outside any handler of errors.
Crash(w) ==
    /\ worker[w].pc # "dead"
    /\ worker' = [worker EXCEPT ![w] = Dead]

-----------------------------------------------------------------------------
\* No job is being run by two workers at the same time: neither the claim,
\* nor recovery, retries or promotion hand out a job whose handler is still
\* going.
OneRunner ==
    \A v, w \in Workers :
        Executing(v) /\ Executing(w) /\ worker[v].job = worker[w].job => v = w

=============================================================================
