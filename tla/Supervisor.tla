----------------------------- MODULE Supervisor -----------------------------
(***************************************************************************)
(* The supervisor: start() and stop() cut at their awaits, the worker      *)
(* tasks, and scale(), which looks at none of this and may be called at    *)
(* any time.  asyncio runs one task at a time, so what happens between two *)
(* awaits is one action.  A cancelled task ends at once.  Left out: a      *)
(* start() while another or a stop() runs, a second stop() before the next *)
(* start(), and a start() after one that was overtaken by a stop().        *)
(*                                                                         *)
(* Bounds: Tasks, the worker tasks that exist at the same time, those that *)
(* were scaled away and still finish a job included; MaxStarts, how often  *)
(* start() is called; MaxHasty, how many calls of scale() and stop() find  *)
(* the supervisor anything but settled: not started, starting, stopping,   *)
(* stopped, or with workers that have not begun.                           *)
(***************************************************************************)
EXTENDS JobPayload, SequencesExt, Lists

CONSTANTS
    NoJob,
    Tasks,            \* numbers for worker tasks; that of an ended one is used again
    MinWorkers, MaxWorkers,
    MaxStarts, MaxHasty

ASSUME SupervisorAssumption ==
    /\ MinWorkers \in Nat \ {0} /\ MaxWorkers \in Nat /\ MinWorkers <= MaxWorkers
    /\ Cardinality(Tasks) \in Nat /\ Tasks = 1..Cardinality(Tasks)
    /\ MaxWorkers <= Cardinality(Tasks)
    /\ MaxStarts \in Nat \ {0} /\ MaxHasty \in Nat
    /\ NoJob \notin Jobs

VARIABLES
    up,        \* _running of the supervisor
    start,     \* where start() is
    starts,    \* how often it was called
    stop,      \* where stop() is
    pool,      \* _workers
    spawned,   \* _tasks
    aux,       \* the auxiliary loops that run
    hasty,     \* calls of scale() and stop() that did not find it settled
    task,      \* the worker tasks: where, _running, and the job in hand
    crowded    \* history: start() found workers in the pool, scale() has not cut it since

\* Of a task two histories are kept as well: late, it was spawned when stop()
\* had cancelled the tasks, and deaf, it was told to stop before it ran.
supVars == <<up, start, starts, stop, pool, spawned, aux, hasty, task, crowded>>

Loops == {"delayed", "recovery", "balance", "pruner"}

Ended == [pc |-> "ended", on |-> FALSE, job |-> NoJob, late |-> FALSE, deaf |-> FALSE]

SupTypeOK ==
    /\ up \in BOOLEAN
    /\ start \in {"off", "emitting", "reporting", "on", "overtaken"}
    /\ starts \in 0..MaxStarts
    /\ stop \in {"off", "reporting", "loops", "tasks", "done"}
    /\ pool \in Seq(Tasks)
    /\ spawned \subseteq Tasks
    /\ aux \subseteq Loops
    /\ task \in [Tasks -> [pc : {"created", "idle", "running", "recorded", "failed", "ended"},
                           on : BOOLEAN, job : Jobs \cup {NoJob},
                           late : BOOLEAN, deaf : BOOLEAN]]
    /\ crowded \in BOOLEAN
    /\ hasty \in 0..MaxHasty

SupInit ==
    /\ up = FALSE
    /\ start = "off" /\ stop = "off" /\ starts = 0
    /\ pool = <<>> /\ spawned = {} /\ aux = {}
    /\ task = [w \in Tasks |-> Ended]
    /\ crowded = FALSE
    /\ hasty = 0

Alive(w) == task[w].pc # "ended"

Settled == start = "on" /\ up /\ \A w \in Tasks : task[w].pc # "created"

CallsHastily ==
    \/ Settled /\ UNCHANGED hasty
    \/ ~Settled /\ hasty < MaxHasty /\ hasty' = hasty + 1

-----------------------------------------------------------------------------
(* The pool *)

Free == {w \in Tasks : ~Alive(w) /\ w \notin ToSet(pool)}

\* n workers are added; which of the free numbers they get is immaterial.
Spawn(n) ==
    LET new == [i \in 1..n |-> Nth(Free, i)] IN
    /\ n <= Cardinality(Free)
    /\ pool' = pool \o new
    /\ spawned' = spawned \cup ToSet(new)
    /\ task' = [w \in Tasks |->
          IF w \in ToSet(new)
          THEN [Ended EXCEPT !.pc = "created", !.late = stop \in {"tasks", "done"}]
          ELSE task[w]]

Clamp(n) == IF n < MinWorkers THEN MinWorkers ELSE IF n > MaxWorkers THEN MaxWorkers ELSE n

\* Mutant: workers are taken out of the pool and not told to stop.
DismissSilently(n) ==
    /\ pool' = SubSeq(pool, 1, n)
    /\ UNCHANGED <<spawned, task>>

\* The pool is cut to n workers, and the others are told to stop.  For one
\* that has not begun this is lost.
Dismiss(n) ==
    /\ pool' = SubSeq(pool, 1, n)
    /\ task' = [w \in Tasks |-> IF w \in ToSet(SubSeq(pool, n + 1, Len(pool)))
                                THEN [task[w] EXCEPT !.on = FALSE,
                                                     !.deaf = (task[w].pc = "created")]
                                ELSE task[w]]
    /\ UNCHANGED spawned

Scale(count) ==
    /\ LET n == Clamp(count) IN
          IF n > Len(pool) THEN Spawn(n - Len(pool)) ELSE Dismiss(n)
    /\ CallsHastily
    /\ crowded' = FALSE
    /\ UNCHANGED <<up, start, starts, stop, aux>>

\* Worker.start() begins by setting _running: a stop() before that is lost.
TaskBegins(w) ==
    /\ task[w].pc = "created"
    /\ task' = [task EXCEPT ![w].pc = "idle", ![w].on = TRUE]
    /\ UNCHANGED <<up, start, starts, stop, pool, spawned, aux, crowded, hasty>>

TaskEnds(w) ==
    /\ task[w].pc = "idle" /\ ~task[w].on
    /\ task' = [task EXCEPT ![w] = Ended]
    /\ UNCHANGED <<up, start, starts, stop, pool, spawned, aux, crowded, hasty>>

-----------------------------------------------------------------------------
(* start() *)

StartCalled ==
    /\ <<start, stop>> \in {<<"off", "off">>, <<"off", "done">>, <<"on", "done">>}
    /\ starts < MaxStarts /\ starts' = starts + 1
    /\ up' = TRUE /\ start' = "emitting" /\ stop' = "off"
    /\ UNCHANGED <<pool, spawned, aux, task, crowded, hasty>>

\* Whatever is in the pool, and also when stop() has been called meanwhile.
StartSpawns ==
    /\ start = "emitting"
    /\ start' = "reporting"
    /\ Spawn(MinWorkers)
    /\ crowded' = (pool # <<>>)
    /\ UNCHANGED <<up, starts, stop, aux, hasty>>

\* Three of the loops run while the supervisor's flag is up; the pruner sets
\* a flag of its own, and outlives a stop() that has already cancelled the loops.
StartLoops ==
    /\ start = "reporting"
    /\ start' = IF stop \in {"off", "reporting"} THEN "on" ELSE "overtaken"
    /\ aux' = IF up THEN Loops ELSE {"pruner"}
    /\ UNCHANGED <<up, starts, stop, pool, spawned, task, crowded, hasty>>

-----------------------------------------------------------------------------
(* stop() *)

StopCalled ==
    /\ stop = "off"
    /\ CallsHastily
    /\ up' = FALSE /\ stop' = "reporting"
    /\ UNCHANGED <<start, starts, pool, spawned, aux, task, crowded>>

StopWorkers ==
    /\ stop = "reporting"
    /\ stop' = "loops"
    /\ aux' = {}
    /\ task' = [w \in Tasks |-> IF w \in ToSet(pool) THEN [task[w] EXCEPT !.on = FALSE]
                                ELSE task[w]]
    /\ UNCHANGED <<up, start, starts, pool, spawned, crowded, hasty>>

\* Mutant: only the tasks of the pool are cancelled.
StopCancelsPool ==
    /\ stop = "loops"
    /\ stop' = "tasks"
    /\ task' = [w \in Tasks |-> IF w \in ToSet(pool) THEN Ended ELSE task[w]]
    /\ UNCHANGED <<up, start, starts, pool, spawned, aux, crowded, hasty>>

\* Every task is cancelled, in the middle of a job or not.
StopCancels ==
    /\ stop = "loops"
    /\ stop' = "tasks"
    /\ task' = [w \in Tasks |-> IF w \in spawned THEN Ended ELSE task[w]]
    /\ UNCHANGED <<up, start, starts, pool, spawned, aux, crowded, hasty>>

\* The lists are emptied, those who came during the last await included.
StopClears ==
    /\ stop = "tasks"
    /\ stop' = "done"
    /\ pool' = <<>> /\ spawned' = {}
    /\ UNCHANGED <<up, start, starts, aux, task, crowded, hasty>>

-----------------------------------------------------------------------------
StartStep == StartSpawns \/ StartLoops

StopStep == StopWorkers \/ StopCancels \/ StopClears

\* When stop() has returned no worker is left that existed when it cancelled
\* the tasks, scaled away and still busy or not, and no loop, unless start()
\* had yet to create its own.  Who is spawned by a scale() or a start() after
\* that is not cancelled: these workers are late.
StopIsFinal ==
    stop = "done" =>
        /\ aux = {} \/ (start = "overtaken" /\ aux = {"pruner"})
        /\ \A w \in Tasks : Alive(w) => task[w].late

\* While the supervisor runs its pool is within the configured bounds, or above
\* them by no more than the workers of start() if it was scaled before these
\* were spawned, until the next scale().  A worker that goes on taking jobs is
\* one the pool knows of, unless it came late or was told to stop before it ran.
PoolIsWhatRuns ==
    start = "on" /\ up =>
        /\ Len(pool) \in MinWorkers..(IF crowded THEN MaxWorkers + MinWorkers ELSE MaxWorkers)
        /\ \A w \in Tasks :
              task[w].on => w \in ToSet(pool) \/ task[w].deaf \/ task[w].late

=============================================================================
