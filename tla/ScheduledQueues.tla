-------------------------- MODULE ScheduledQueues --------------------------
(***************************************************************************)
(* A scheduler and the workers of a supervisor on one driver: the entries  *)
(* of the scheduler feed the queues that the workers ask in turn.          *)
(***************************************************************************)
EXTENDS QueueRotation, Scheduler

ASSUME ScheduleAssumption == \A e \in DOMAIN Entries : Entries[e].queue \in Queues

vars == <<rotationVars, schedulerVars>>

TypeOK == RotationTypeOK /\ SchedulerTypeOK

Init == RotationInit /\ SchedulerInit

\* The push of an entry returned.
EntryPushed(e) ==
    /\ Dispatches(e)
    /\ Becomes(busy \cup {Entries[e].queue})
    /\ UNCHANGED <<cursor, offset, at>>

EntryFails(e) ==
    /\ DispatchFails(e)
    /\ Entries[e].class \in Importable => DriverMayFail
    /\ UNCHANGED rotationVars

EntrySkipped(e) == NotYet(e) /\ UNCHANGED rotationVars

EntryRaises(e) == Raises(e) /\ UNCHANGED rotationVars

SchedulerStep ==
    \/ (Ticks \/ EndsTick \/ Exits) /\ UNCHANGED rotationVars
    \/ \E e \in DOMAIN Entries :
          EntryPushed(e) \/ EntryFails(e) \/ EntrySkipped(e) \/ EntryRaises(e)

WorkerStep(w) == Fetching(w) /\ UNCHANGED schedulerVars

Next ==
    \/ SchedulerStep
    \/ (Stop \/ Add) /\ UNCHANGED rotationVars
    \/ \E k \in Keys : Ripens(k) /\ UNCHANGED rotationVars
    \/ \E w \in Workers : WorkerStep(w)
    \/ \E w \in Workers : PopRaises(w) /\ UNCHANGED schedulerVars
    \/ \E q \in Queues : Elsewhere(q) /\ UNCHANGED schedulerVars

Spec == Init /\ [][Next]_vars

\* Time passes; the loops run, as their pushes and pops return and sleeps end.
LiveSpec ==
    /\ Spec
    /\ WF_vars(SchedulerStep)
    /\ \A k \in Keys : WF_vars(Ripens(k) /\ UNCHANGED rotationVars)
    /\ \A w \in Workers : WF_vars(WorkerStep(w))

-----------------------------------------------------------------------------
(* Properties *)

\* No earlier entry has the same class and period.
First(e) ==
    \A f \in 1..(e - 1) : Entries[f].class # Entries[e].class
                            \/ Entries[f].period # Entries[e].period

\* An entry is dispatched again and again, whether the dispatches of the
\* entries before it fail or not, until the scheduler is stopped or an entry
\* with a malformed cron expression is added: that one ends the loop for all.
\* (A second entry with the same class and period is never dispatched.)
EntryRuns(e) ==
    First(e) =>
        \/ []<><<EntryPushed(e) \/ EntryFails(e)>>_vars
        \/ <>[](~running \/ e > added \/ \E f \in Malformed : f <= added)

EveryEntryRuns == \A e \in DOMAIN Entries : EntryRuns(e)

\* A worker with a queue that is never empty takes a job of it again and
\* again, however the schedule and others fill the queues before it.
QueueServed(w, q) ==
    \/ []<><<Finds(w) /\ Target(w) = q>>_vars
    \/ []<>(q \notin busy)
    \/ <>[](at[w] = "gone")

EveryQueueServed ==
    \A w \in Workers : \A i \in DOMAIN QueuesOf[w] : QueueServed(w, QueuesOf[w][i])

=============================================================================
