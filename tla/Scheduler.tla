----------------------------- MODULE Scheduler -----------------------------
(***************************************************************************)
(* Scheduler: a loop that looks once a second at every entry and pushes    *)
(* the jobs whose interval has passed since their key was last stamped.    *)
(*                                                                         *)
(* Time is not counted.  A key is ripe when its interval (or cron period)  *)
(* has passed since its _last_run; a tick compares with the time at which  *)
(* it began, and stamps that time, however long its pushes take.  Entries  *)
(* with neither cron nor every are never run and left out.                 *)
(*                                                                         *)
(* Nothing is persisted: a scheduler that starts again is in Init.         *)
(***************************************************************************)
EXTENDS Integers, Sequences, FiniteSets

CONSTANTS
    Entries,      \* records with class, period, queue; those of the
                  \* configuration first, then those that add() brings
    Configured,   \* how many the configuration has
    Importable,   \* the classes that resolve_job_class finds
    Malformed     \* entries whose cron expression croniter raises on

ASSUME SchedulerAssumption ==
    /\ \A e \in DOMAIN Entries : {"class", "period", "queue"} = DOMAIN Entries[e]
    /\ Configured \in 0..Len(Entries)
    /\ Malformed \subseteq DOMAIN Entries

VARIABLES
    running,   \* _running
    loop,      \* start() is in its sleep, in a tick, or over
    added,     \* how many entries there are
    next,      \* the entry the tick is at
    ripe,      \* keys whose interval has passed since _last_run
    due,       \* those that had when the tick began, not stamped since
    fresh,     \* those whose interval has passed again since the tick began
    owed       \* history: key -> intervals passed less dispatches tried

schedulerVars == <<running, loop, added, next, ripe, due, fresh, owed>>

\* Mutant: the key is the class alone.
KeyByClass(e) == Entries[e].class

Key(e) == <<Entries[e].class, Entries[e].period>>

\* That of a malformed entry is never stamped.
Keys == {Key(e) : e \in DOMAIN Entries \ Malformed}

SchedulerTypeOK ==
    /\ running \in BOOLEAN
    /\ loop \in {"asleep", "ticking", "over"}
    /\ added \in 0..Len(Entries) /\ next \in 1..(Len(Entries) + 1)
    /\ ripe \subseteq Keys /\ due \subseteq ripe /\ fresh \subseteq due
    /\ owed \in [Keys -> Int]

\* Every last run is the year 1970.
SchedulerInit ==
    /\ running = TRUE /\ loop = "asleep"
    /\ added = Configured /\ next = 1
    /\ ripe = Keys /\ due = {} /\ fresh = {}
    /\ owed = [k \in Keys |-> 1]

-----------------------------------------------------------------------------
(* start() *)

Ticks ==
    /\ loop = "asleep" /\ running
    /\ loop' = "ticking" /\ next' = 1
    /\ due' = ripe /\ fresh' = {}
    /\ UNCHANGED <<running, added, ripe, owed>>

Turn(e) == loop = "ticking" /\ next = e /\ e <= added /\ e \notin Malformed

\* _should_run is called outside of any try: what croniter raises ends
\* start(), and with it the schedule of every entry.
Raises(e) ==
    /\ e \in Malformed /\ loop = "ticking" /\ next = e /\ e <= added
    /\ loop' = "over" /\ due' = {} /\ fresh' = {}
    /\ UNCHANGED <<running, added, next, ripe, owed>>

NotYet(e) ==
    /\ Turn(e) /\ Key(e) \notin due
    /\ next' = e + 1
    /\ UNCHANGED <<running, loop, added, ripe, due, fresh, owed>>

\* _last_run[key] = now, the time at which the tick began.
Stamps(e) ==
    /\ next' = e + 1
    /\ ripe' = (ripe \ {Key(e)}) \cup (fresh \cap {Key(e)})
    /\ due' = due \ {Key(e)}
    /\ fresh' = fresh \ {Key(e)}
    /\ owed' = [owed EXCEPT ![Key(e)] = @ - 1]
    /\ UNCHANGED <<running, loop, added>>

Dispatches(e) ==
    /\ Turn(e) /\ Key(e) \in due /\ Entries[e].class \in Importable
    /\ Stamps(e)

\* Mutant: only a dispatch that succeeded is stamped.
DispatchFailsUnstamped(e) ==
    /\ Turn(e) /\ Key(e) \in due
    /\ next' = e + 1
    /\ owed' = [owed EXCEPT ![Key(e)] = @ - 1]
    /\ UNCHANGED <<running, loop, added, ripe, due, fresh>>

\* _dispatch logs what is raised in it, be it the import or the push.
DispatchFails(e) ==
    /\ Turn(e) /\ Key(e) \in due
    /\ Stamps(e)

EndsTick ==
    /\ loop = "ticking" /\ next > added
    /\ loop' = "asleep" /\ next' = 1 /\ due' = {} /\ fresh' = {}
    /\ UNCHANGED <<running, added, ripe, owed>>

\* The loop sees after its sleep that it has been stopped.
Exits ==
    /\ loop = "asleep" /\ ~running
    /\ loop' = "over"
    /\ UNCHANGED <<running, added, next, ripe, due, fresh, owed>>

-----------------------------------------------------------------------------

Stop ==
    /\ running /\ running' = FALSE
    /\ UNCHANGED <<loop, added, next, ripe, due, fresh, owed>>

\* The list is appended to, also in the middle of a tick.
Add ==
    /\ added < Len(Entries) /\ added' = added + 1
    /\ UNCHANGED <<running, loop, next, ripe, due, fresh, owed>>

\* Time: the interval of k passes, since _last_run or since the tick began.
Ripens(k) ==
    /\ loop # "over"
    /\ \/ k \notin ripe /\ ripe' = ripe \cup {k} /\ UNCHANGED fresh
       \/ k \in due \ fresh /\ fresh' = fresh \cup {k} /\ UNCHANGED ripe
    /\ owed' = [owed EXCEPT ![k] = @ + 1]
    /\ UNCHANGED <<running, loop, added, next, due>>

-----------------------------------------------------------------------------
(* Properties *)

\* The dispatches of a key never outnumber its intervals, whether they fail
\* or not, however long a tick takes and whichever entries share the key.
OncePerInterval == \A k \in Keys : owed[k] >= 0

\* What keeps OncePerInterval: what is ripe is owed, and what has ripened
\* again in the tick is owed twice.
OwedInv ==
    /\ due \subseteq ripe /\ fresh \subseteq due
    /\ \A k \in Keys :
          owed[k] >= (IF k \in ripe THEN 1 ELSE 0) + (IF k \in fresh THEN 1 ELSE 0)

=============================================================================
