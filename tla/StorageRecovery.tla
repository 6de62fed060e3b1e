-------------------------- MODULE StorageRecovery --------------------------
(***************************************************************************)
(* What the drivers do when the storage is full: a write that is refused   *)
(* purges the finished jobs and the metrics and runs once more.  The       *)
(* coroutines of one process share a driver object, and with it the flag   *)
(* that is to keep a purge from starting another.                          *)
(*                                                                         *)
(*   pooled   PostgreSQL and Redis, _with_disk_full_recovery: writes of    *)
(*            several coroutines are under way at once, and each prune of  *)
(*            the cleanup is such a write itself                           *)
(*   sqlite   _execute_with_retry: every call holds the lock of the driver *)
(*            and runs in a thread, and so does the whole cleanup          *)
(*                                                                         *)
(* Of the stored data only the number of rows of each kind is kept.  A     *)
(* write of some rows may be refused when they come to more than Capacity  *)
(* with those that are there, and always is when it adds them.  A DELETE   *)
(* of PostgreSQL leaves dead rows, which take their room until a vacuum.   *)
(*                                                                         *)
(* Bounds: Capacity; MaxDepth, beyond which a nested cleanup counts as a   *)
(* prune that failed; one thread left behind per coroutine.                *)
(***************************************************************************)
EXTENDS Naturals, FiniteSets, SequencesExt

CONSTANTS
    Coroutines,
    NoOne,        \* nobody holds the lock
    Drivers,      \* the kinds of driver looked at
    AutoCleanup,  \* auto_cleanup_on_disk_full
    MaxRetries,   \* MAX_RETRIES, for a database that is locked
    Cancellable,  \* coroutines whose task may be cancelled
    Calls,        \* the writes that coroutines and other processes make
    Capacity, MaxDepth

Nothing == "nothing"

\* push and push_many; pop, release and other updates; complete; fail;
\* record_metric.
Writes == [from : {Nothing}, to : {"open"}, size : Nat \ {0}]
            \cup [from : {"open"}, to : {"open", "completed", "failed"}, size : {1}]
            \cup [from : {Nothing}, to : {"metrics"}, size : {1}]

ASSUME StorageAssumption ==
    /\ NoOne \notin Coroutines
    /\ Drivers \subseteq {"pooled", "sqlite"}
    /\ AutoCleanup \in BOOLEAN
    /\ MaxRetries \in Nat \ {0} /\ Capacity \in Nat \ {0} /\ MaxDepth \in Nat \ {0}
    /\ Cancellable \subseteq Coroutines
    /\ Calls \subseteq Writes

VARIABLES
    driver,
    rows,      \* kind of row -> how many there are
    guard,     \* _in_emergency_cleanup
    holder,    \* who holds the lock of the sqlite driver
    call,      \* coroutine -> the write it is in
    stray,     \* coroutine -> the work of a thread its cancelled call left behind
    \* histories
    crowded,   \* coroutines whose cleanup was not alone
    excused    \* coroutines whose write nothing that is purged makes room for,
               \* whose cleanup failed in part, or whose room others took

storeVars == <<driver, rows, stray>>

historyVars == <<crowded, excused>>

vars == <<storeVars, guard, holder, call, historyVars>>

\* What emergency_cleanup purges, in this order.
Stages == <<"completed", "failed", "cancelled", "metrics">>

Kinds == {"open", "completed", "failed", "cancelled", "metrics", "dead"}

NoWork == [from |-> Nothing, to |-> Nothing, size |-> 0]

\* The closure of the sqlite cleanup.
Purge == [from |-> "finished", to |-> Nothing, size |-> 0]

NoCall == [at |-> "none", write |-> NoWork, tries |-> 0, frames |-> <<>>]

\* A cleanup in progress: the prune it is at, and whether this prune would
\* start a cleanup of its own.
Frame == [stage : 1..Len(Stages), armed : BOOLEAN]

Points == {"none", "lock", "plain", "first", "clean", "again"}

CallRecord ==
    [at : Points, write : Writes \cup {NoWork}, tries : 0..MaxRetries, frames : Seq(Frame)]

TypeOK ==
    /\ driver \in Drivers
    /\ rows \in [Kinds -> 0..Capacity]
    /\ guard \in BOOLEAN
    /\ holder \in Coroutines \cup {NoOne}
    /\ call \in [Coroutines -> CallRecord]
    /\ stray \in [Coroutines -> Writes \cup {NoWork, Purge}]
    /\ crowded \subseteq Coroutines
    /\ excused \subseteq Coroutines

\* The rows that are stored, and the room that is taken.
Held == rows["open"] + rows["completed"] + rows["failed"] + rows["cancelled"] + rows["metrics"]

Used == Held + rows["dead"]

Full == Used >= Capacity

Init ==
    /\ driver \in Drivers
    /\ rows \in [Kinds -> 0..Capacity] /\ Used <= Capacity
    /\ rows["cancelled"] = 0 /\ rows["dead"] = 0
    /\ guard = FALSE
    /\ holder = NoOne
    /\ call = [c \in Coroutines |-> NoCall]
    /\ stray = [c \in Coroutines |-> NoWork]
    /\ crowded = {}
    /\ excused = {}

-----------------------------------------------------------------------------
(* The store *)

Doable(w) == w.from # Nothing => rows[w.from] > 0

TooLarge(w) == Used + w.size > Capacity

Takes(w) ==
    /\ Doable(w)
    /\ w.from = Nothing => ~TooLarge(w)
    /\ rows' = [k \in Kinds |-> (rows[k] + (IF k = w.to THEN w.size ELSE 0))
                                  - (IF k = w.from THEN w.size ELSE 0)]

\* Mutant: the completed jobs are left out of the purge.
PurgedKeepsCompleted(first, last) ==
    [k \in Kinds |-> IF k # "completed" /\ \E i \in first..last : Stages[i] = k
                     THEN 0 ELSE rows[k]]

Purged(first, last) ==
    [k \in Kinds |-> IF \E i \in first..last : Stages[i] = k THEN 0 ELSE rows[k]]

\* One prune, whose space is given back at once or by a later vacuum.
PrunesStage(i) ==
    \/ rows' = Purged(i, i)
    \/ rows' = [Purged(i, i) EXCEPT !["dead"] = @ + rows[Stages[i]]]

\* Rows too many for whoever is in a cleanup or about to try again.
Crowds(w, self) ==
    IF w.from = Nothing
    THEN excused \cup {c \in Coroutines \ {self} : call[c].at \in {"clean", "again"}}
    ELSE excused

-----------------------------------------------------------------------------
(* A call *)

Returns(c) == call' = [call EXCEPT ![c] = NoCall]

Unlocks(c) == holder' = IF holder = c THEN NoOne ELSE holder

\* Where the check of the flag sends a write.
Checked == IF ~AutoCleanup \/ guard THEN "plain" ELSE "first"

Begins(c, w) ==
    /\ call[c].at = "none"
    /\ call' = [call EXCEPT ![c] =
          [NoCall EXCEPT !.at = IF driver = "sqlite" THEN "lock" ELSE Checked, !.write = w]]
    /\ UNCHANGED <<storeVars, guard, holder, historyVars>>

Locks(c) ==
    /\ call[c].at = "lock" /\ holder = NoOne
    /\ holder' = c
    /\ call' = [call EXCEPT ![c].at = Checked]
    /\ UNCHANGED <<storeVars, guard, historyVars>>

\* fn() has its effect, or finds nothing to do.
Succeeds(c) ==
    /\ call[c].at \in {"plain", "first", "again"}
    /\ \/ Takes(call[c].write)
       \/ ~Doable(call[c].write) /\ UNCHANGED rows
    /\ excused' = Crowds(call[c].write, c)
    /\ Returns(c) /\ Unlocks(c)
    /\ UNCHANGED <<driver, stray, guard, crowded>>

\* "database is locked": try again, in the end give up.
FindsLocked(c) ==
    /\ driver = "sqlite" /\ call[c].at \in {"plain", "first", "again"}
    /\ \/ /\ call[c].tries < MaxRetries - 1
          /\ call' = [call EXCEPT ![c].tries = @ + 1]
          /\ UNCHANGED holder
       \/ /\ call[c].tries = MaxRetries - 1
          /\ Returns(c) /\ Unlocks(c)
    /\ UNCHANGED <<storeVars, guard, historyVars>>

\* The storage is full and there is no recovery, or no further one.
IsRefused(c) ==
    /\ call[c].at \in {"plain", "again"} /\ TooLarge(call[c].write)
    /\ Returns(c) /\ Unlocks(c)
    /\ UNCHANGED <<storeVars, guard, historyVars>>

\* No purge makes room for the write of c.
Hopeless(c) == rows["open"] + call[c].write.size > Capacity

Cleaning == {c \in Coroutines : call[c].at = "clean"}

\* Mutant: the flag is not set.
OverflowsUnguarded(c) ==
    /\ call[c].at = "first" /\ TooLarge(call[c].write)
    /\ call' = [call EXCEPT ![c].at = "clean", ![c].tries = 0,
          ![c].frames = IF driver = "sqlite" THEN <<>> ELSE <<[stage |-> 1, armed |-> TRUE]>>]
    /\ crowded' = IF Cleaning = {} THEN crowded \ {c} ELSE crowded \cup Cleaning \cup {c}
    /\ excused' = IF Hopeless(c) THEN excused \cup {c} ELSE excused \ {c}
    /\ UNCHANGED <<storeVars, guard, holder>>

\* The error is caught, the flag set and emergency_cleanup called: no await.
Overflows(c) ==
    /\ call[c].at = "first" /\ TooLarge(call[c].write)
    /\ guard' = TRUE
    /\ call' = [call EXCEPT ![c].at = "clean", ![c].tries = 0,
          ![c].frames = IF driver = "sqlite" THEN <<>> ELSE <<[stage |-> 1, armed |-> FALSE]>>]
    /\ crowded' = IF Cleaning = {} THEN crowded \ {c} ELSE crowded \cup Cleaning \cup {c}
    /\ excused' = IF Hopeless(c) THEN excused \cup {c} ELSE excused \ {c}
    /\ UNCHANGED <<storeVars, holder>>

-----------------------------------------------------------------------------
(* emergency_cleanup of BaseDriver: four prunes, each of them a guarded     *)
(* write, and each error of theirs logged                                  *)

Depth(c) == Len(call[c].frames)

Top(c) == call[c].frames[Depth(c)]

SetTop(c, f) == [call[c].frames EXCEPT ![Depth(c)] = f]

InPrune(c) == call[c].at = "clean" /\ driver = "pooled"

\* On to the next prune, which looks at the flag as it starts.
NextPrune(c) ==
    /\ Top(c).stage < Len(Stages)
    /\ call' = [call EXCEPT ![c].frames =
          SetTop(c, [stage |-> Top(c).stage + 1, armed |-> AutoCleanup /\ ~guard])]
    /\ UNCHANGED guard

\* The cleanup is over: the flag is reset and what started it runs again, the
\* write of the call or a prune of the cleanup around this one.
EndsCleanup(c) ==
    /\ Top(c).stage = Len(Stages)
    /\ guard' = FALSE
    /\ \/ /\ Depth(c) = 1
          /\ call' = [call EXCEPT ![c].at = "again", ![c].frames = <<>>]
       \/ /\ Depth(c) > 1
          /\ call' = [call EXCEPT ![c].frames =
                [Front(@) EXCEPT ![Depth(c) - 1].armed = FALSE]]

Prunes(c) ==
    /\ InPrune(c)
    /\ PrunesStage(Top(c).stage)
    /\ NextPrune(c) \/ EndsCleanup(c)
    /\ UNCHANGED <<driver, stray, holder, historyVars>>

\* What a prune raises is logged.
PruneFails(c) ==
    /\ InPrune(c)
    /\ excused' = excused \cup {c}
    /\ NextPrune(c) \/ EndsCleanup(c)
    /\ UNCHANGED <<storeVars, holder, crowded>>

\* A DELETE can be refused for want of space, too.
PruneOverflows(c) ==
    /\ InPrune(c) /\ Full
    /\ Top(c).armed /\ Depth(c) < MaxDepth
    /\ guard' = TRUE
    /\ call' = [call EXCEPT ![c].frames = Append(@, [stage |-> 1, armed |-> FALSE])]
    /\ excused' = excused \cup {c}
    /\ UNCHANGED <<storeVars, holder, crowded>>

-----------------------------------------------------------------------------
(* _emergency_cleanup_locked: one closure, the lock is held throughout      *)

\* Mutant: emergency_cleanup(), which takes the lock itself.
InPurgeRelocking(c) == call[c].at = "clean" /\ driver = "sqlite" /\ holder = NoOne

InPurge(c) == call[c].at = "clean" /\ driver = "sqlite"

Purges(c) ==
    /\ InPurge(c)
    /\ rows' = Purged(1, Len(Stages))
    /\ guard' = FALSE
    /\ call' = [call EXCEPT ![c].at = "again"]
    /\ UNCHANGED <<driver, stray, holder, historyVars>>

\* An error, "database is locked" included, is not logged but raised to the
\* caller; what was deleted before it goes with the next commit on the
\* connection.
PurgeFails(c) ==
    /\ InPurge(c)
    /\ \E last \in 0..(Len(Stages) - 1) : rows' = Purged(1, last)
    /\ guard' = FALSE
    /\ Returns(c) /\ Unlocks(c)
    /\ UNCHANGED <<driver, stray, historyVars>>

-----------------------------------------------------------------------------
(* Cancellation, by stop() or by the timeout of a handler that writes       *)

\* Mutant: the flag is not reset in a finally clause.
CancelsKeepingGuard(c) ==
    /\ c \in Cancellable /\ call[c].at # "none" /\ stray[c] = NoWork
    /\ Returns(c) /\ Unlocks(c)
    /\ UNCHANGED <<storeVars, guard, historyVars>>

\* A request to a server may have been carried out; a thread that has started
\* cannot be stopped and goes on, while the lock of its call is released.
Cancels(c) ==
    /\ c \in Cancellable /\ call[c].at # "none" /\ stray[c] = NoWork
    /\ Returns(c) /\ Unlocks(c)
    /\ guard' = IF call[c].at = "clean" THEN FALSE ELSE guard
    /\ \/ UNCHANGED <<storeVars, excused>>
       \/ /\ driver = "pooled"
          /\ \/ /\ call[c].at \in {"plain", "first", "again"}
                /\ Takes(call[c].write)
                /\ excused' = Crowds(call[c].write, c)
             \/ /\ call[c].at = "clean"
                /\ PrunesStage(Top(c).stage)
                /\ UNCHANGED excused
          /\ UNCHANGED <<driver, stray>>
       \/ /\ driver = "sqlite" /\ call[c].at # "lock"
          /\ stray' = [stray EXCEPT ![c] =
                IF call[c].at = "clean" THEN Purge ELSE call[c].write]
          /\ UNCHANGED <<driver, rows, excused>>
    /\ UNCHANGED crowded

StrayEnds(c) ==
    /\ stray[c] # NoWork
    /\ stray' = [stray EXCEPT ![c] = NoWork]
    /\ \/ UNCHANGED <<rows, excused>>
       \/ /\ stray[c] = Purge
          /\ rows' = Purged(1, Len(Stages))
          /\ UNCHANGED excused
       \/ /\ stray[c] # Purge
          /\ Takes(stray[c])
          /\ excused' = Crowds(stray[c], NoOne)
    /\ UNCHANGED <<driver, guard, holder, call, crowded>>

\* Other processes use the same storage.
Elsewhere(w) ==
    /\ Takes(w)
    /\ excused' = Crowds(w, NoOne)
    /\ UNCHANGED <<driver, stray, guard, holder, call, crowded>>

\* PostgreSQL gives the space of dead rows back.
Vacuum ==
    /\ \E n \in 0..(rows["dead"] - 1) : rows' = [rows EXCEPT !["dead"] = n]
    /\ UNCHANGED <<driver, stray, guard, holder, call, historyVars>>

-----------------------------------------------------------------------------

\* What a coroutine that is in a call does, once it has the lock.
Proceeds(c) ==
    \/ Succeeds(c) \/ FindsLocked(c) \/ IsRefused(c) \/ Overflows(c)
    \/ Prunes(c) \/ PruneFails(c) \/ PruneOverflows(c)
    \/ Purges(c) \/ PurgeFails(c)

Next ==
    \/ \E c \in Coroutines :
          \/ \E w \in Calls : Begins(c, w)
          \/ Locks(c)
          \/ Proceeds(c)
          \/ Cancels(c)
          \/ StrayEnds(c)
    \/ \E w \in Calls : Elsewhere(w)
    \/ Vacuum

Spec == Init /\ [][Next]_vars

\* asyncio runs every coroutine that can go on, and its locks are granted in
\* the order of the requests.
LiveSpec ==
    /\ Spec
    /\ \A c \in Coroutines : WF_vars(Proceeds(c)) /\ SF_vars(Locks(c))

-----------------------------------------------------------------------------
(* Properties *)

\* The flag never stays behind, with nobody left to reset it, whatever raises
\* or is cancelled: it would switch the recovery off for good.
GuardReleased == guard => Cleaning # {}

\* A cleanup starts another only if two coroutines were cleaning at once, and
\* the first to end has reset the flag under the other; with the lock of
\* sqlite never.
GuardStopsRecursion ==
    \A c \in Coroutines : Depth(c) > 1 => c \in crowded /\ driver = "pooled"

\* What keeps the two: whoever cleans alone has the flag set, and only who does
\* not may have found it reset at a prune.
GuardInv ==
    /\ GuardReleased
    /\ GuardStopsRecursion
    /\ \A c \in Cleaning \ crowded : guard /\ Cleaning = {c}
    /\ \A c \in Coroutines :
          /\ call[c].at # "clean" => call[c].frames = <<>>
          /\ InPrune(c) => call[c].frames # <<>>
          /\ \A i \in DOMAIN call[c].frames :
                driver = "pooled" /\ (call[c].frames[i].armed => c \in crowded)

\* When a write is tried again after its cleanup, the rows that are left leave
\* room for it, unless the unfinished ones alone did not, a prune failed or
\* others have taken the room since: all that was finished is gone.  It is
\* refused otherwise only while the space of dead rows is not given back.
SpaceIsReclaimed ==
    \A c \in Coroutines \ excused :
        call[c].at = "again" => Held + call[c].write.size <= Capacity

\* A write ends, whatever it has to clean up: the recovery does not wait for a
\* lock its own call holds.
CallsReturn == \A c \in Coroutines : call[c].at # "none" ~> call[c].at = "none"

\* One thread at a time uses the connection of the sqlite driver.  Does not
\* hold once a call can be cancelled (README, Known races).
ConnectionIsExclusive ==
    driver = "sqlite" =>
        Cardinality({c \in Coroutines : call[c].at \in {"plain", "first", "clean", "again"}})
          + Cardinality({c \in Coroutines : stray[c] # NoWork}) <= 1

=============================================================================
