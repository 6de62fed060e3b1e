----------------------------- MODULE JobPayload -----------------------------
(***************************************************************************)
(* The vocabulary every driver and the worker share: what a job record     *)
(* carries once its data is abstracted to what the queue decides on.       *)
(*                                                                         *)
(* Timestamps are compared with the clock and never with each other, so    *)
(* each is kept as the outcome of that comparison:                         *)
(*   delay    delay_until is None / later than now / not later than now;   *)
(*   started  started_at is None / newer than the stuck-job cutoff / not.  *)
(***************************************************************************)
EXTENDS Naturals

CONSTANTS Jobs,         \* the job ids (uuid4: never reused)
          MaxAttempts   \* max_attempts of every job

ASSUME MaxAttemptsAssumption == MaxAttempts \in Nat \ {0}

\* The statuses the code ever writes ("cancelled" is only ever read).
Status == {"pending", "processing", "completed", "failed"}

Terminal == {"completed", "failed"}

Delay == {"none", "future", "due"}

Started == {"none", "fresh", "stale"}

Payload == [status : Status \cup {"absent"}, attempts : Nat,
            delay : Delay, started : Started]

\* A key with no record behind it.
NoPayload == [status |-> "absent", attempts |-> 0,
              delay |-> "none", started |-> "none"]

NewPayload(d) == [NoPayload EXCEPT !.status = "pending", !.delay = d]

\* What every driver writes on a claim.
Claimed(p) == [p EXCEPT !.status = "processing", !.attempts = @ + 1,
                        !.started = "fresh"]

\* What every driver writes when a stuck job goes back to its queue.
Requeued(p) == [p EXCEPT !.status = "pending", !.started = "none",
                         !.delay = "none"]

\* Mutant: one attempt too many.
ShouldRetryInclusive(attempts) == attempts <= MaxAttempts

ShouldRetry(attempts) == attempts < MaxAttempts

\* The delays compute_delay can return: 0 from an explicit list, else positive.
RetryDelays == {"none", "future"}

=============================================================================
