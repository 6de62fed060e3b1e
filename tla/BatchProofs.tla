---------------------------- MODULE BatchProofs -----------------------------
(***************************************************************************)
(* Proofs about BatchTracker, for any number of jobs and workers.          *)
(***************************************************************************)
EXTENDS BatchTracker, FiniteSetTheorems, SequenceTheorems, TLAPS

\* A handler that is running has a call left to make.
TypeInv ==
    /\ TypeOK
    /\ \A w \in Workers : worker[w].pc = "calling" => worker[w].todo # <<>>

\* Nothing of the batch has been touched before its jobs are pushed.
Untouched ==
    dispatch \in {"store", "push"} =>
        /\ \A j \in Jobs : job[j] = "new"
        /\ \A w \in Workers : worker[w].pc \in {"idle", "dead"}
        /\ \A c \in Counters : emitted[c] = 0

\* An event has been emitted once at most, and then its counter has left the
\* value that calls for it behind: counters only grow, and a record that
\* update_batch replaced asks for batch.completed at no count at all.
CompletedInv ==
    /\ emitted["completed"] <= 1
    /\ emitted["completed"] = 1 => Done(batch) >= batch.total

FailedInv ==
    /\ emitted["failed"] <= 1
    /\ emitted["failed"] = 1 => batch.count["failed"] >= 1

Allowed == batch.allow => emitted["failed"] = 0

-----------------------------------------------------------------------------
(* Type correctness *)

Record3 == [total : Nat, count : [Counters -> Nat], allow : BOOLEAN]

WorkerRecord ==
    [pc : {"idle", "running", "raised", "counting", "reading", "calling", "dead"},
     job : Jobs \cup {NoJob}, counter : Counters,
     todo : Seq({"then", "finally", "update", "catch"})]

\* The type invariant in two halves: a step disturbs few parts of either.
WorkersOK ==
    /\ worker \in [Workers -> WorkerRecord]
    /\ \A w \in Workers : worker[w].pc = "calling" => worker[w].todo # <<>>

RestOK ==
    /\ dispatch \in {"store", "push", "register", "done"}
    /\ job \in [Jobs -> {"new", "pending", "processing"} \cup Finished]
    /\ batch \in Record3
    /\ emitted \in [Counters -> Nat]
    /\ callback \in [{"then", "finally", "catch"} -> Nat]
    /\ faults \in 0..MaxFaults

LEMMA Halves == TypeInv <=> WorkersOK /\ RestOK
  BY DEF TypeInv, TypeOK, WorkersOK, RestOK, WorkerRecord, Record3

\* A step of one worker, to a record that is well formed.
LEMMA SetWorker ==
  ASSUME WorkersOK, NEW w \in Workers, NEW next \in WorkerRecord,
         next.pc = "calling" => next.todo # <<>>,
         worker' = [worker EXCEPT ![w] = next]
  PROVE  WorkersOK'
  BY DEF WorkersOK

\* The records a worker's step writes.
LEMMA NextRecords ==
  ASSUME NEW r \in WorkerRecord
  PROVE  /\ \A pc \in {"running", "raised", "counting", "reading"} :
               /\ [r EXCEPT !.pc = pc] \in WorkerRecord
               /\ [r EXCEPT !.pc = pc].pc = pc
         /\ [r EXCEPT !.pc = "counting", !.counter = "failed"] \in WorkerRecord
         /\ \A s \in Seq({"then", "finally", "update", "catch"}) :
               /\ [r EXCEPT !.todo = s] \in WorkerRecord
               /\ [r EXCEPT !.todo = s].todo = s
  BY DEF WorkerRecord, Counters

LEMMA InitTypeInv == Init => TypeInv
  BY BatchAssumption DEF Init, TypeInv, TypeOK, Idle, EmptyRecord, Counters

\* The record after an increment: one counter is one larger.
LEMMA IncrementedRecord ==
  ASSUME TypeOK, NEW w \in Workers
  PROVE  /\ Incremented(w) \in Record3
         /\ Incremented(w).total = batch.total
         /\ Incremented(w).allow = batch.allow
         /\ Done(Incremented(w)) = Done(batch) + 1
         /\ worker[w].counter = "completed" =>
               Incremented(w).count["failed"] = batch.count["failed"]
         /\ worker[w].counter = "failed" =>
               Incremented(w).count["failed"] = batch.count["failed"] + 1
<1>1. worker[w].counter \in {"completed", "failed"}
  BY DEF TypeOK, Counters
<1>2. batch \in Record3
  BY DEF TypeOK, Record3
<1>3. CASE worker[w].counter = "completed"
  BY <1>2, <1>3 DEF Incremented, Counters, Record3, Done
<1>4. CASE worker[w].counter = "failed"
  BY <1>2, <1>4 DEF Incremented, Counters, Record3, Done
<1> QED BY <1>1, <1>3, <1>4

\* What the proofs need to know of Idle.
LEMMA IdleType ==
  /\ Idle \in WorkerRecord /\ Idle.pc = "idle" /\ Idle.job = NoJob
  /\ [Idle EXCEPT !.pc = "dead"] \in WorkerRecord
  /\ \A j \in Jobs : [Idle EXCEPT !.pc = "running", !.job = j] \in WorkerRecord
<1>1. Idle \in WorkerRecord /\ Idle.pc = "idle" /\ Idle.job = NoJob
  <2>1. <<>> \in Seq({"then", "finally", "update", "catch"})
    OBVIOUS
  <2> QED BY <2>1 DEF Idle, Counters, WorkerRecord
<1> QED BY <1>1 DEF WorkerRecord

LEMMA EventRange ==
  ASSUME TypeOK, NEW w \in Workers, NEW b \in Record3
  PROVE  EventOf(worker[w].counter, b) \in {"completed", "failed", "none"}
  BY DEF EventOf

LEMMA HandlerType ==
  ASSUME NEW event \in {"completed", "failed"}, NEW b \in Record3
  PROVE  /\ Handler(event, b) \in Seq({"then", "finally", "update", "catch"})
         /\ Handler(event, b) # <<>>
<1> DEFINE C == {"then", "finally", "update", "catch"}
<1>1. /\ <<"catch">> \in Seq(C) /\ <<"catch">> # <<>>
      /\ <<>> \in Seq(C) /\ <<"then">> \in Seq(C)
      /\ <<"finally", "update">> \in Seq(C)
      /\ Len(<<"finally", "update">>) = 2
  OBVIOUS
<1>2. ASSUME NEW s \in Seq(C)
      PROVE  /\ s \o <<"finally", "update">> \in Seq(C)
             /\ s \o <<"finally", "update">> # <<>>
  BY <1>1
<1> QED BY <1>1, <1>2 DEF Handler

\* Emitting keeps the types, for whatever record came back.
LEMMA EmitType ==
  ASSUME TypeInv, NEW w \in Workers, NEW b \in Record3, Emit(w, b)
  PROVE  emitted' \in [Counters -> Nat] /\ WorkersOK'
<1> DEFINE event == EventOf(worker[w].counter, b)
           C == {"then", "finally", "update", "catch"}
<1>0. TypeOK /\ WorkersOK
  BY Halves DEF TypeInv
<1>1. event \in {"completed", "failed", "none"}
  BY <1>0, EventRange
<1>2. event # "none" => Handler(event, b) \in Seq(C) /\ Handler(event, b) # <<>>
  BY <1>1, HandlerType
<1>3. emitted' = [c \in Counters |-> emitted[c] + (IF c = event THEN 1 ELSE 0)]
  BY DEF Emit
<1>4. worker' = [worker EXCEPT ![w] = IF event # "none" /\ Listening(w)
                    THEN [Idle EXCEPT !.pc = "calling", !.todo = Handler(event, b)]
                    ELSE Idle]
  BY DEF Emit
<1> HIDE DEF event
<1>5. ASSUME event # "none" /\ Listening(w) PROVE WorkersOK'
  <2> DEFINE next == [Idle EXCEPT !.pc = "calling", !.todo = Handler(event, b)]
  <2>1. worker' = [worker EXCEPT ![w] = next]
    BY <1>5, <1>4
  <2>2. next \in WorkerRecord /\ next.todo # <<>>
    BY <1>2, <1>5, IdleType DEF WorkerRecord
  <2> HIDE DEF next
  <2> QED BY <1>0, <2>1, <2>2, SetWorker
<1>6. ASSUME ~(event # "none" /\ Listening(w)) PROVE WorkersOK'
  <2>1. worker' = [worker EXCEPT ![w] = Idle]
    BY <1>6, <1>4
  <2> QED BY <1>0, <2>1, IdleType, SetWorker
<1>7. emitted' \in [Counters -> Nat]
  BY <1>0, <1>3 DEF TypeOK
<1> QED BY <1>5, <1>6, <1>7

LEMMA NextTypeInv == TypeInv /\ [Next]_vars => TypeInv'
<1> SUFFICES ASSUME TypeInv, [Next]_vars PROVE WorkersOK' /\ RestOK'
  BY DEF TypeInv, TypeOK, WorkersOK, RestOK, WorkerRecord, Record3
<1>0. /\ TypeOK /\ WorkersOK /\ RestOK
      /\ \A w \in Workers : worker[w] \in WorkerRecord
  BY Halves DEF TypeInv, WorkersOK
<1>1. CASE StoreBatch
  <2>1. PICK allow \in BOOLEAN :
            batch' = [EmptyRecord EXCEPT !.total = Cardinality(Jobs), !.allow = allow]
    BY <1>1 DEF StoreBatch
  <2>2. Cardinality(Jobs) \in Nat
    BY BatchAssumption, FS_CardinalityType
  <2>3. batch' \in Record3
    BY <2>1, <2>2 DEF EmptyRecord, Record3
  <2> QED BY <1>0, <1>1, <2>3 DEF StoreBatch, WorkersOK, RestOK
<1>2. CASE PushJobs
  BY <1>0, <1>2 DEF PushJobs, WorkersOK, RestOK
<1>3. CASE RegisterCallbacks
  BY <1>0, <1>3 DEF RegisterCallbacks, WorkersOK, RestOK
<1>4. ASSUME NEW w \in Workers, NEW j \in Jobs, Take(w, j) PROVE WorkersOK' /\ RestOK'
  <2>1. RestOK'
    BY <1>0, <1>4 DEF Take, RestOK
  <2>2. [Idle EXCEPT !.pc = "running", !.job = j].pc = "running"
    BY DEF Idle
  <2> QED BY <1>0, <1>4, <2>1, <2>2, IdleType, SetWorker DEF Take
\* The three outcomes differ in the status and the worker's next record.
<1>A. ASSUME NEW w \in Workers, NEW st \in {"pending", "completed", "failed"},
             NEW next \in WorkerRecord, next.pc # "calling", Record(w, st, next)
      PROVE  WorkersOK' /\ RestOK'
  <2>1. RestOK'
    BY <1>0, <1>A DEF Record, RestOK, Finished
  <2> QED BY <1>0, <1>A, <2>1, SetWorker DEF Record
<1>5. ASSUME NEW w \in Workers, CompleteJob(w) PROVE WorkersOK' /\ RestOK'
  BY <1>0, <1>5, <1>A, NextRecords DEF CompleteJob
<1>6. ASSUME NEW w \in Workers, ReleaseJob(w) PROVE WorkersOK' /\ RestOK'
  BY <1>6, <1>A, IdleType DEF ReleaseJob
<1>7. ASSUME NEW w \in Workers, FailJob(w) PROVE WorkersOK' /\ RestOK'
  <2> DEFINE next == [worker[w] EXCEPT !.pc = "counting", !.counter = "failed"]
  <2>1. next \in WorkerRecord /\ next.pc = "counting"
    BY <1>0 DEF WorkerRecord, Counters
  <2>2. Record(w, "failed", next)
    BY <1>7 DEF FailJob
  <2> HIDE DEF next
  <2> QED BY <1>A, <2>1, <2>2
<1>8. ASSUME NEW w \in Workers, Increment(w) PROVE WorkersOK' /\ RestOK'
  <2>1. Incremented(w) \in Record3
    BY <1>0, IncrementedRecord
  <2>2. CASE AtomicIncrement /\ Emit(w, Incremented(w))
    <3>1. emitted' \in [Counters -> Nat] /\ WorkersOK'
      BY <2>1, <2>2, EmitType
    <3> QED BY <1>0, <1>8, <2>1, <3>1 DEF Increment, RestOK
  <2>3. CASE worker' = [worker EXCEPT ![w].pc = "reading"] /\ UNCHANGED emitted
    <3> DEFINE next == [worker[w] EXCEPT !.pc = "reading"]
    <3>1. RestOK'
      BY <1>0, <1>8, <2>1, <2>3 DEF Increment, RestOK
    <3>2. worker' = [worker EXCEPT ![w] = next]
      BY <2>3
    <3>3. next \in WorkerRecord /\ next.pc = "reading"
      BY <1>0, NextRecords
    <3> HIDE DEF next
    <3> QED BY <1>0, <3>1, <3>2, <3>3, SetWorker
  <2> QED BY <1>8, <2>2, <2>3 DEF Increment
<1>9. ASSUME NEW w \in Workers, ReadBack(w) PROVE WorkersOK' /\ RestOK'
  <2>1. emitted' \in [Counters -> Nat] /\ WorkersOK'
    BY <1>0, <1>9, EmitType DEF ReadBack, RestOK
  <2> QED BY <1>0, <1>9, <2>1 DEF ReadBack, RestOK
<1>10. ASSUME NEW w \in Workers, IncrementRaises(w) PROVE WorkersOK' /\ RestOK'
  <2> DEFINE next == IF worker[w].counter = "completed"
                     THEN [worker[w] EXCEPT !.pc = "raised"]
                     ELSE [Idle EXCEPT !.pc = "dead"]
  <2>1. batch' \in Record3
    BY <1>0, <1>10, IncrementedRecord DEF IncrementRaises, RestOK
  <2>2. faults' \in 0..MaxFaults
    BY <1>0, <1>10, BatchAssumption DEF IncrementRaises, Fault, RestOK
  <2>3. RestOK'
    BY <1>0, <1>10, <2>1, <2>2 DEF IncrementRaises, RestOK
  <2>4. next \in WorkerRecord /\ next.pc # "calling"
    BY <1>0, NextRecords, IdleType DEF Idle
  <2>5. worker' = [worker EXCEPT ![w] = next]
    BY <1>10 DEF IncrementRaises
  <2> HIDE DEF next
  <2> QED BY <1>0, <2>3, <2>4, <2>5, SetWorker
<1>11. ASSUME NEW w \in Workers, CallBack(w) PROVE WorkersOK' /\ RestOK'
  <2> DEFINE rest == Tail(worker[w].todo)
             next == IF rest = <<>> THEN Idle ELSE [worker[w] EXCEPT !.todo = rest]
  <2>1. rest \in Seq({"then", "finally", "update", "catch"})
    <3>1. worker[w].todo \in Seq({"then", "finally", "update", "catch"})
      BY <1>0 DEF WorkerRecord
    <3>2. worker[w].todo # <<>>
      BY <1>0, <1>11 DEF CallBack, WorkersOK
    <3> QED BY <3>1, <3>2
  <2>2. batch' \in Record3
    BY <1>0, <1>11 DEF CallBack, EmptyRecord, Counters, RestOK, Record3
  <2>3. callback' \in [{"then", "finally", "catch"} -> Nat]
    BY <1>0, <1>11 DEF CallBack, RestOK
  <2>4. worker' = [worker EXCEPT ![w] = next]
    BY <1>11 DEF CallBack
  <2>5. RestOK'
    BY <1>0, <1>11, <2>2, <2>3 DEF CallBack, RestOK
  <2> HIDE DEF rest
  <2>6. next \in WorkerRecord /\ (next.pc = "calling" => next.todo # <<>>)
    <3>1. CASE rest = <<>>
      BY <3>1, IdleType
    <3>2. CASE rest # <<>>
      BY <1>0, <2>1, <3>2, NextRecords
    <3> QED BY <3>1, <3>2
  <2> HIDE DEF next
  <2> QED BY <1>0, <2>4, <2>5, <2>6, SetWorker
<1>12. ASSUME NEW w \in Workers, CallBackRaises(w) PROVE WorkersOK' /\ RestOK'
  <2>1. RestOK'
    BY <1>0, <1>12, BatchAssumption DEF CallBackRaises, Fault, RestOK
  <2> QED BY <1>0, <1>12, <2>1, IdleType, SetWorker DEF CallBackRaises
<1>13. ASSUME NEW w \in Workers, WorkerDies(w) PROVE WorkersOK' /\ RestOK'
  <2>1. RestOK'
    BY <1>0, <1>13 DEF WorkerDies, RestOK
  <2>2. [Idle EXCEPT !.pc = "dead"].pc = "dead"
    BY DEF Idle
  <2> QED BY <1>0, <1>13, <2>1, <2>2, IdleType, SetWorker DEF WorkerDies
<1>14. ASSUME NEW j \in Jobs, RecoverStuck(j) PROVE WorkersOK' /\ RestOK'
  BY <1>0, <1>14 DEF RecoverStuck, WorkersOK, RestOK
<1>15. ASSUME NEW j \in Jobs, ManualRetry(j) PROVE WorkersOK' /\ RestOK'
  BY <1>0, <1>15, BatchAssumption DEF ManualRetry, Fault, WorkersOK, RestOK
<1>16. CASE UNCHANGED vars
  BY <1>0, <1>16 DEF vars, WorkersOK, RestOK
<1> QED
  BY <1>1, <1>2, <1>3, <1>4, <1>5, <1>6, <1>7, <1>8, <1>9, <1>10, <1>11, <1>12,
     <1>13, <1>14, <1>15, <1>16 DEF Next, Dispatcher, WorkerStep

\* Every variable of the batch module keeps its type, whatever the workers,
\* the handlers and the failing driver do.
THEOREM TypeCorrect == Spec => []TypeOK
<1>1. TypeInv => TypeOK
  BY DEF TypeInv
<1> QED BY <1>1, InitTypeInv, NextTypeInv, PTL DEF Spec

-----------------------------------------------------------------------------
(* Events are emitted once *)

\* The inductive invariant: nothing happens before the jobs are pushed, one
\* statement has no point between its halves, and each event's counter is
\* past the value that emitted it.
OnceInv ==
    /\ TypeInv
    /\ Untouched
    /\ \A w \in Workers : worker[w].pc # "reading"
    /\ CompletedInv
    /\ RecordKept => FailedInv /\ Allowed

LEMMA InitOnceInv == Init => OnceInv
  BY InitTypeInv DEF Init, OnceInv, Untouched, CompletedInv, FailedInv, Allowed, Idle,
     EmptyRecord, Counters, Done, RecordKept

\* What an emission adds to the history.
LEMMA EmitCounts ==
  ASSUME TypeOK, NEW w \in Workers, NEW b \in Record3, Emit(w, b)
  PROVE  /\ emitted'["completed"] = emitted["completed"] +
               (IF worker[w].counter = "completed" /\ Done(b) = b.total THEN 1 ELSE 0)
         /\ emitted'["failed"] = emitted["failed"] +
               (IF worker[w].counter = "failed" /\ ~b.allow /\ b.count["failed"] = 1
                THEN 1 ELSE 0)
<1>1. worker[w].counter \in {"completed", "failed"}
  BY DEF TypeOK, Counters
<1>2. /\ emitted'["completed"] = emitted["completed"]
           + (IF EventOf(worker[w].counter, b) = "completed" THEN 1 ELSE 0)
      /\ emitted'["failed"] = emitted["failed"]
           + (IF EventOf(worker[w].counter, b) = "failed" THEN 1 ELSE 0)
  BY DEF Emit, Counters
<1>3. CASE worker[w].counter = "completed"
  BY <1>2, <1>3 DEF EventOf
<1>4. CASE worker[w].counter = "failed"
  BY <1>2, <1>4 DEF EventOf
<1> QED BY <1>1, <1>3, <1>4

\* Steps that neither emit nor touch the record keep what is said of both.
LEMMA StillCounted ==
  ASSUME OnceInv, UNCHANGED <<batch, emitted>>
  PROVE  CompletedInv' /\ (RecordKept' => FailedInv' /\ Allowed')
  BY DEF OnceInv, CompletedInv, FailedInv, Allowed, Done, RecordKept

\* An increment moves a counter past every value it had before.
LEMMA IncrementCounts ==
  ASSUME OnceInv, NEW w \in Workers, worker[w].pc = "counting",
         batch' = Incremented(w), UNCHANGED dispatch,
         Emit(w, Incremented(w)) \/ UNCHANGED emitted
  PROVE  CompletedInv' /\ (RecordKept' => FailedInv' /\ Allowed')
<1>1. /\ Incremented(w) \in Record3
      /\ Incremented(w).total = batch.total
      /\ Incremented(w).allow = batch.allow
      /\ Done(Incremented(w)) = Done(batch) + 1
      /\ worker[w].counter = "completed" =>
            Incremented(w).count["failed"] = batch.count["failed"]
      /\ worker[w].counter = "failed" =>
            Incremented(w).count["failed"] = batch.count["failed"] + 1
      /\ worker[w].counter \in {"completed", "failed"}
  BY IncrementedRecord DEF OnceInv, TypeInv, TypeOK, Counters
<1>2. /\ emitted["completed"] \in Nat /\ emitted["failed"] \in Nat
      /\ batch.total \in Nat /\ batch.count["completed"] \in Nat
      /\ batch.count["failed"] \in Nat
  BY DEF OnceInv, TypeInv, TypeOK, Counters
<1>3. Done(batch) \in Nat /\ Done(batch)' = Done(batch) + 1 /\ batch'.total = batch.total
  BY <1>1, <1>2 DEF Done
<1>4. dispatch # "store"
  BY DEF OnceInv, Untouched
<1>7. RecordKept' => RecordKept
  BY <1>3 DEF RecordKept
<1>5. CASE Emit(w, Incremented(w))
  <2>1. /\ emitted'["completed"] = emitted["completed"] +
              (IF worker[w].counter = "completed" /\ Done(batch) + 1 = batch.total
               THEN 1 ELSE 0)
        /\ emitted'["failed"] = emitted["failed"] +
              (IF worker[w].counter = "failed" /\ ~batch.allow
                    /\ Incremented(w).count["failed"] = 1
               THEN 1 ELSE 0)
    BY <1>1, <1>5, EmitCounts DEF OnceInv, TypeInv
  <2>2. CompletedInv'
    BY <1>2, <1>3, <2>1 DEF OnceInv, CompletedInv
  <2>3. RecordKept => FailedInv'
    BY <1>1, <1>2, <2>1 DEF OnceInv, FailedInv
  <2>4. RecordKept => Allowed'
    BY <1>1, <1>2, <1>4, <2>1 DEF OnceInv, Allowed
  <2> QED BY <1>7, <2>2, <2>3, <2>4
<1>6. CASE UNCHANGED emitted
  <2>1. CompletedInv'
    BY <1>2, <1>3, <1>6 DEF OnceInv, CompletedInv
  <2>2. RecordKept => FailedInv'
    BY <1>1, <1>2, <1>6 DEF OnceInv, FailedInv
  <2>3. RecordKept => Allowed'
    BY <1>1, <1>4, <1>6 DEF OnceInv, Allowed
  <2> QED BY <1>7, <2>1, <2>2, <2>3
<1> QED BY <1>5, <1>6

LEMMA NextOnceInv ==
  ASSUME AtomicIncrement, OnceInv, [Next]_vars
  PROVE  OnceInv'
<1>1. TypeInv'
  BY NextTypeInv DEF OnceInv
<1> DEFINE Before == Untouched' /\ \A w \in Workers : worker'[w].pc # "reading"
           Counted == CompletedInv' /\ (RecordKept' => FailedInv' /\ Allowed')
<1> SUFFICES Before /\ Counted
  BY <1>1 DEF OnceInv
<1>2. CASE StoreBatch
  <2>1. Before
    BY <1>2 DEF StoreBatch, OnceInv, Untouched
  <2>2. emitted'["completed"] = 0 /\ emitted'["failed"] = 0
    BY <1>2 DEF StoreBatch, OnceInv, Untouched, Counters
  <2> QED BY <2>1, <2>2 DEF CompletedInv, FailedInv, Allowed
<1>3. CASE PushJobs
  BY <1>3, StillCounted DEF PushJobs, OnceInv, Untouched
<1>4. CASE RegisterCallbacks
  BY <1>4, StillCounted DEF RegisterCallbacks, OnceInv, Untouched
<1>5. ASSUME NEW w \in Workers, NEW j \in Jobs, Take(w, j) PROVE Before /\ Counted
  <2>1. Before
    BY <1>5 DEF Take, OnceInv, Untouched, TypeInv, TypeOK
  <2> QED BY <1>5, <2>1, StillCounted DEF Take
<1>6. ASSUME NEW w \in Workers, CompleteJob(w) PROVE Before /\ Counted
  <2>1. Before
    BY <1>6 DEF CompleteJob, Record, OnceInv, Untouched, TypeInv, TypeOK
  <2> QED BY <1>6, <2>1, StillCounted DEF CompleteJob, Record
<1>7. ASSUME NEW w \in Workers, ReleaseJob(w) PROVE Before /\ Counted
  <2>1. Before
    BY <1>7, IdleType DEF ReleaseJob, Record, OnceInv, Untouched, TypeInv, TypeOK
  <2> QED BY <1>7, <2>1, StillCounted DEF ReleaseJob, Record
<1>8. ASSUME NEW w \in Workers, FailJob(w) PROVE Before /\ Counted
  <2>1. Before
    BY <1>8 DEF FailJob, Record, OnceInv, Untouched, TypeInv, TypeOK
  <2> QED BY <1>8, <2>1, StillCounted DEF FailJob, Record
<1>9. ASSUME NEW w \in Workers, Increment(w) PROVE Before /\ Counted
  <2>1. /\ worker[w].pc = "counting" /\ batch' = Incremented(w) /\ UNCHANGED dispatch
        /\ Emit(w, Incremented(w))
    BY <1>9 DEF Increment
  <2>2. Counted
    BY <2>1, IncrementCounts
  <2>3. worker'[w].pc \in {"idle", "calling"}
        /\ \A v \in Workers : v # w => worker'[v] = worker[v]
    BY <2>1, IdleType DEF Emit, OnceInv, TypeInv, TypeOK, WorkerRecord
  <2>4. dispatch \notin {"store", "push"}
    BY <2>1 DEF OnceInv, Untouched
  <2> QED BY <2>1, <2>2, <2>3, <2>4 DEF OnceInv, Untouched
<1>10. ASSUME NEW w \in Workers, ReadBack(w) PROVE Before /\ Counted
  BY <1>10 DEF ReadBack, OnceInv
<1>11. ASSUME NEW w \in Workers, IncrementRaises(w) PROVE Before /\ Counted
  <2>1. /\ worker[w].pc = "counting" /\ UNCHANGED <<dispatch, emitted>>
        /\ batch' \in {batch, Incremented(w)}
    BY <1>11 DEF IncrementRaises
  <2>2. Counted
    BY <2>1, IncrementCounts, StillCounted
  <2>3. worker'[w].pc \in {"raised", "dead"}
        /\ \A v \in Workers : v # w => worker'[v] = worker[v]
    BY <1>11, IdleType DEF IncrementRaises, OnceInv, TypeInv, TypeOK, WorkerRecord
  <2>4. dispatch \notin {"store", "push"}
    BY <2>1 DEF OnceInv, Untouched
  <2> QED BY <2>1, <2>2, <2>3, <2>4 DEF OnceInv, Untouched
<1>12. ASSUME NEW w \in Workers, CallBack(w) PROVE Before /\ Counted
  <2>1. /\ worker[w].pc = "calling" /\ UNCHANGED <<dispatch, emitted>>
        /\ batch' = IF Head(worker[w].todo) = "update" /\ ~UpdateMerges
                    THEN EmptyRecord ELSE batch
    BY <1>12 DEF CallBack
  <2>2. ASSUME batch' = batch PROVE Counted
    BY <2>1, <2>2, StillCounted
  <2>3. ASSUME batch' = EmptyRecord PROVE Counted
    <3>1. batch'.total = 0 /\ Done(batch)' = 0
      BY <2>3 DEF EmptyRecord, Counters, Done
    <3> QED BY <2>1, <3>1 DEF OnceInv, CompletedInv, RecordKept
  <2>4. worker'[w].pc \in {"idle", "calling"}
        /\ \A v \in Workers : v # w => worker'[v] = worker[v]
    BY <1>12, IdleType DEF CallBack, OnceInv, TypeInv, TypeOK
  <2>5. dispatch \notin {"store", "push"}
    BY <2>1 DEF OnceInv, Untouched
  <2>6. Before
    BY <2>1, <2>4, <2>5 DEF OnceInv, Untouched
  <2> QED BY <2>1, <2>2, <2>3, <2>6
<1>13. ASSUME NEW w \in Workers, CallBackRaises(w) PROVE Before /\ Counted
  <2>1. Before
    BY <1>13, IdleType DEF CallBackRaises, OnceInv, Untouched, TypeInv, TypeOK
  <2> QED BY <1>13, <2>1, StillCounted DEF CallBackRaises
<1>14. ASSUME NEW w \in Workers, WorkerDies(w) PROVE Before /\ Counted
  <2> DEFINE dead == [Idle EXCEPT !.pc = "dead"]
  <2>1. worker' = [worker EXCEPT ![w] = dead] /\ worker \in [Workers -> WorkerRecord]
    BY <1>14, Halves DEF WorkerDies, OnceInv, WorkersOK
  <2>2. dead.pc = "dead"
    BY IdleType DEF WorkerRecord
  <2> HIDE DEF dead
  <2>3. \A v \in Workers : worker'[v] = worker[v] \/ worker'[v].pc = "dead"
    BY <2>1, <2>2
  <2>4. Before
    BY <1>14, <2>3 DEF WorkerDies, OnceInv, Untouched
  <2> QED BY <1>14, <2>4, StillCounted DEF WorkerDies
<1>15. ASSUME NEW j \in Jobs, RecoverStuck(j) PROVE Before /\ Counted
  <2>1. Before
    BY <1>15 DEF RecoverStuck, OnceInv, Untouched
  <2> QED BY <1>15, <2>1, StillCounted DEF RecoverStuck
<1>16. ASSUME NEW j \in Jobs, ManualRetry(j) PROVE Before /\ Counted
  <2>1. Before
    BY <1>16 DEF ManualRetry, OnceInv, Untouched
  <2> QED BY <1>16, <2>1, StillCounted DEF ManualRetry
<1>17. CASE UNCHANGED vars
  BY <1>17, StillCounted DEF vars, OnceInv, Untouched
<1> QED
  BY <1>2, <1>3, <1>4, <1>5, <1>6, <1>7, <1>8, <1>9, <1>10, <1>11, <1>12, <1>13,
     <1>14, <1>15, <1>16, <1>17 DEF Next, Dispatcher, WorkerStep

\* On a driver whose increment returns the record it wrote, batch.completed
\* is emitted at most once: however increments interleave and whatever is
\* counted twice after a driver error or again after a manual retry.
THEOREM CompletedIsEmittedOnce ==
  ASSUME AtomicIncrement
  PROVE  Spec => []CompletedOnce
<1>1. OnceInv => CompletedOnce
  BY DEF OnceInv, CompletedInv, CompletedOnce
<1>2. OnceInv /\ [Next]_vars => OnceInv'
  BY NextOnceInv
<1> QED BY <1>1, <1>2, InitOnceInv, PTL DEF Spec

\* On such a driver batch.failed is emitted at most once, and not at all for a
\* batch that allows failures, as long as update_batch has not replaced the
\* record, which it never does where it adds to it (the memory driver).
THEOREM FailedIsEmittedOnce ==
  ASSUME AtomicIncrement
  PROVE  Spec => []FailedOnce
<1>1. OnceInv => FailedOnce
  BY DEF OnceInv, FailedInv, Allowed, FailedOnce
<1>2. OnceInv /\ [Next]_vars => OnceInv'
  BY NextOnceInv
<1> QED BY <1>1, <1>2, InitOnceInv, PTL DEF Spec

-----------------------------------------------------------------------------
(* What the then and the finally job tell *)

AtWork(w) == worker[w].pc \in {"running", "counting"}

\* Nothing of the batch is left to do: the jobs have finished, and so has the
\* counting by whoever may hear of the batch's end.
Over ==
    /\ AllFinished
    /\ \A w \in Workers : ~AtWork(w)
    /\ \A w \in Local : worker[w].pc # "reading"

Early == dispatch \in {"store", "push"} => \A j \in Jobs : job[j] = "new"

\* A job that runs has one worker, an outcome is counted by the worker that
\* recorded it, and one increment at a time holds the dispatcher's driver.
OneEach ==
    /\ \A w \in Workers : worker[w].pc # "raised"
    /\ \A w \in Workers : worker[w].pc = "running" =>
          /\ worker[w].job \in Jobs /\ job[worker[w].job] = "processing"
          /\ worker[w].counter = "completed"
    /\ \A w \in Workers : worker[w].pc = "counting" =>
          worker[w].job \in Jobs /\ job[worker[w].job] = worker[w].counter
    /\ \A v, w \in Workers :
          AtWork(v) /\ AtWork(w) /\ worker[v].job = worker[w].job => v = w
    /\ \A v, w \in Local : worker[v].pc = "reading" /\ worker[w].pc = "reading" => v = w

\* C and F are the jobs the record counts, none of them still to be counted.
Tallied(C, F) ==
    /\ Cardinality(C) = batch.count["completed"]
    /\ Cardinality(F) = batch.count["failed"]
    /\ \A j \in C : job[j] = "completed"
    /\ \A j \in F : job[j] = "failed"
    /\ \A w \in Workers : worker[w].pc = "counting" => worker[w].job \notin C \cup F

HasTally == \E C, F \in SUBSET Jobs : Tallied(C, F)

\* The record counts jobs, until a callback replaces it when all is over.
Tally ==
    dispatch # "store" =>
        IF batch.total = 0 THEN Over
        ELSE batch.total = Cardinality(Jobs) /\ HasTally

\* What a handler still has to call is right for the batch.
Due(todo) ==
    \/ todo = <<"catch">>
    \/ Over /\ todo \in {<<"finally", "update">>, <<"update">>}
    \/ Over /\ AllCompleted /\ todo = <<"then", "finally", "update">>

Calls == \A w \in Workers : worker[w].pc = "calling" => Due(worker[w].todo)

Pushed ==
    /\ callback["then"] > 0 => Over /\ AllCompleted
    /\ callback["finally"] > 0 => Over

Sound == Early /\ OneEach /\ Tally /\ Calls /\ Pushed

\* The inductive invariant, as long as no call failed and no job was retried.
TallyInv == TypeInv /\ (faults = 0 => Sound)

LEMMA InitTallyInv == Init => TallyInv
<1> SUFFICES ASSUME Init PROVE TypeInv /\ Sound
  BY DEF TallyInv
<1>1. TypeInv
  BY InitTypeInv
<1>2. \A w \in Workers : worker[w].pc = "idle"
  BY IdleType DEF Init
<1>3. Early /\ OneEach /\ Tally /\ Calls
  BY <1>2, BatchAssumption DEF Init, Early, OneEach, AtWork, Tally, Calls
<1>4. Pushed
  BY DEF Init, Pushed
<1> QED BY <1>1, <1>3, <1>4 DEF Sound

\* As many outcomes as jobs, and no job counted twice: every job is counted.
LEMMA Filled ==
  /\ TypeInv /\ OneEach /\ batch.total = Cardinality(Jobs) /\ HasTally
  /\ Done(batch) = batch.total
  /\ \A v \in Local : worker[v].pc # "reading"
  => Over /\ (batch.count["failed"] = 0 => AllCompleted)
<1> SUFFICES ASSUME TypeInv, OneEach, batch.total = Cardinality(Jobs), HasTally,
                    Done(batch) = batch.total,
                    \A v \in Local : worker[v].pc # "reading"
             PROVE  Over /\ (batch.count["failed"] = 0 => AllCompleted)
  OBVIOUS
<1>1. PICK C, F \in SUBSET Jobs : Tallied(C, F)
  BY DEF HasTally
<1>2. IsFiniteSet(Jobs) /\ IsFiniteSet(C) /\ IsFiniteSet(F) /\ IsFiniteSet(C \cup F)
  BY BatchAssumption, FS_Subset
<1>3. C \cap F = {}
  BY <1>1 DEF Tallied
<1>4. Cardinality(C \cup F) = Cardinality(C) + Cardinality(F)
  <2>1. Cardinality(C \cup F)
           = Cardinality(C) + Cardinality(F) - Cardinality(C \cap F)
    BY <1>2, FS_Union
  <2>2. Cardinality(C \cap F) = 0
    BY <1>3, FS_EmptySet
  <2>3. Cardinality(C) \in Nat /\ Cardinality(F) \in Nat
    BY <1>2, FS_CardinalityType
  <2> QED BY <2>1, <2>2, <2>3
<1>5. Cardinality(C \cup F) = Cardinality(Jobs)
  BY <1>1, <1>4 DEF Tallied, Done
<1>6. C \cup F = Jobs
  BY <1>2, <1>5, FS_Subset
<1>7. AllFinished
  BY <1>1, <1>6 DEF Tallied, AllFinished, Finished
<1>8. \A w \in Workers : ~AtWork(w)
  BY <1>1, <1>6, <1>7 DEF AtWork, OneEach, Tallied, AllFinished, Finished
<1>9. ASSUME batch.count["failed"] = 0 PROVE AllCompleted
  <2>1. F = {}
    BY <1>1, <1>2, <1>9, FS_EmptySet DEF Tallied
  <2> QED BY <1>1, <1>6, <2>1 DEF Tallied, AllCompleted
<1> QED BY <1>7, <1>8, <1>9 DEF Over

LEMMA FilledNext ==
  /\ TypeInv' /\ OneEach' /\ batch'.total = Cardinality(Jobs) /\ HasTally'
  /\ Done(batch)' = batch'.total
  /\ \A v \in Local : worker'[v].pc # "reading"
  => Over' /\ (batch'.count["failed"] = 0 => AllCompleted')
<1> DEFINE A == /\ TypeInv /\ OneEach /\ batch.total = Cardinality(Jobs) /\ HasTally
                /\ Done(batch) = batch.total
                /\ \A v \in Local : worker[v].pc # "reading"
           B == Over /\ (batch.count["failed"] = 0 => AllCompleted)
<1>1. A => B
  BY Filled
<1> HIDE DEF A, B
<1>2. A' => B'
  BY <1>1, PTL
<1> QED BY <1>2 DEF A, B

\* An undisturbed step: no driver call fails and nobody retries a job.
Quiet ==
    \/ Dispatcher
    \/ \E w \in Workers : WorkerStep(w) \/ WorkerDies(w)
    \/ \E j \in Jobs : RecoverStuck(j)
    \/ UNCHANGED vars

LEMMA QuietStep ==
  ASSUME TypeInv, [Next]_vars, faults' = 0
  PROVE  Quiet /\ faults = 0
<1>1. faults \in Nat
  BY BatchAssumption DEF TypeInv, TypeOK
<1>2. ~Fault
  BY <1>1 DEF Fault
<1>3. Quiet
  BY <1>2 DEF Next, IncrementRaises, CallBackRaises, ManualRetry, Quiet
<1>4. UNCHANGED faults
  BY <1>3 DEF Quiet, Dispatcher, StoreBatch, PushJobs, RegisterCallbacks, WorkerStep, Take,
     CompleteJob, ReleaseJob, FailJob, Record, Increment, ReadBack, CallBack, WorkerDies,
     RecoverStuck, vars
<1> QED BY <1>3, <1>4

\* A worker that stops working, and does not wait with another of its process.
LEMMA Leaves ==
  ASSUME TypeInv, OneEach, NEW w \in Workers, NEW r \in WorkerRecord,
         r.pc \in {"idle", "dead", "calling", "reading"},
         r.pc = "reading" /\ w \in Local =>
            \A v \in Local : worker[v].pc # "reading",
         worker' = [worker EXCEPT ![w] = r], job' = job
  PROVE  OneEach'
<1>1. worker \in [Workers -> WorkerRecord] /\ Local \subseteq Workers
  BY BatchAssumption, Halves DEF WorkersOK
<1>2. worker'[w] = r /\ \A v \in Workers : v # w => worker'[v] = worker[v]
  BY <1>1
<1>3. \A v \in Workers : worker'[v].pc \in {"running", "raised", "counting"} =>
         worker'[v] = worker[v]
  BY <1>2
<1>4. \A v, u \in Local : worker'[v].pc = "reading" /\ worker'[u].pc = "reading" => v = u
  BY <1>1, <1>2 DEF OneEach
<1>5. \A v, u \in Workers :
         AtWork(v)' /\ AtWork(u)' /\ worker'[v].job = worker'[u].job => v = u
  BY <1>3 DEF OneEach, AtWork
<1> QED BY <1>3, <1>4, <1>5 DEF OneEach

\* When all is over it stays over, and what has succeeded stays so.
LEMMA OverKept ==
  ASSUME TypeInv, Early, OneEach, Quiet, Over
  PROVE  job' = job /\ Over' /\ dispatch \notin {"store", "push"}
<1>0. /\ worker \in [Workers -> WorkerRecord] /\ Local \subseteq Workers
      /\ \A j \in Jobs : job[j] \in {"completed", "failed"}
      /\ \A w \in Workers : worker[w].pc \notin {"running", "raised", "counting"}
      /\ \A w \in Local : worker[w].pc # "reading"
  BY BatchAssumption, Halves
     DEF WorkersOK, Over, AllFinished, Finished, AtWork, OneEach
<1>1. dispatch \notin {"store", "push"}
  BY <1>0, BatchAssumption DEF Early
\* Only a worker that reads back, calls back or dies can move, and nobody
\* begins to work.
<1>2. ASSUME NEW w \in Workers, NEW r, worker' = [worker EXCEPT ![w] = r],
             r.pc \in {"idle", "dead", "calling"}, job' = job
      PROVE  Over'
  <2>1. \A v \in Workers : worker'[v] = worker[v] \/ worker'[v].pc = r.pc
    BY <1>0, <1>2
  <2> QED BY <1>0, <1>2, <2>1 DEF Over, AllFinished, Finished, AtWork
<1>3. CASE UNCHANGED <<job, worker>>
  BY <1>1, <1>3 DEF Over, AllFinished, AtWork
<1>4. ASSUME NEW w \in Workers, WorkerStep(w) PROVE job' = job /\ Over'
  <2>1. CASE ReadBack(w)
    <3> DEFINE event == EventOf(worker[w].counter, batch)
    <3>1. worker' = [worker EXCEPT ![w] =
             IF event # "none" /\ Listening(w)
             THEN [Idle EXCEPT !.pc = "calling", !.todo = Handler(event, batch)]
             ELSE Idle]
      BY <2>1 DEF ReadBack, Emit
    <3>2. [Idle EXCEPT !.pc = "calling", !.todo = Handler(event, batch)].pc = "calling"
          /\ Idle.pc = "idle"
      BY DEF Idle
    <3>3. job' = job
      BY <2>1 DEF ReadBack
    <3> HIDE DEF event
    <3> QED BY <1>2, <3>1, <3>2, <3>3
  <2>2. CASE CallBack(w)
    <3> DEFINE next == IF Tail(worker[w].todo) = <<>> THEN Idle
                       ELSE [worker[w] EXCEPT !.todo = Tail(worker[w].todo)]
    <3>1. worker' = [worker EXCEPT ![w] = next] /\ job' = job
      BY <2>2 DEF CallBack
    <3>2. next.pc \in {"idle", "calling"}
      BY <1>0, <2>2, IdleType DEF CallBack, WorkerRecord
    <3> HIDE DEF next
    <3> QED BY <1>2, <3>1, <3>2
  <2> QED BY <1>0, <1>4, <2>1, <2>2
          DEF WorkerStep, Take, CompleteJob, ReleaseJob, FailJob, Increment
<1>5. ASSUME NEW w \in Workers, WorkerDies(w) PROVE job' = job /\ Over'
  <2>1. [Idle EXCEPT !.pc = "dead"].pc = "dead"
    BY DEF Idle
  <2> QED BY <1>2, <1>5, <2>1 DEF WorkerDies
<1>6. CASE Dispatcher
  BY <1>1, <1>3, <1>6 DEF Dispatcher, StoreBatch, PushJobs, RegisterCallbacks
<1>7. ASSUME NEW j \in Jobs PROVE ~RecoverStuck(j)
  BY <1>0 DEF RecoverStuck
<1>8. CASE UNCHANGED vars
  BY <1>3, <1>8 DEF vars
<1> QED BY <1>1, <1>4, <1>5, <1>6, <1>7, <1>8 DEF Quiet

\* So what a handler had still to call stays right, and what was pushed too.
LEMMA DueKept ==
  ASSUME TypeInv, Sound, Quiet
  PROVE  /\ \A todo : Due(todo) => Due(todo)'
         /\ callback' = callback => Pushed'
<1>1. Over => Over' /\ (AllCompleted => AllCompleted')
  BY OverKept DEF Sound, AllCompleted
<1>2. ASSUME NEW todo, Due(todo) PROVE Due(todo)'
  BY <1>1, <1>2 DEF Due
<1>3. ASSUME callback' = callback PROVE Pushed'
  BY <1>1, <1>3 DEF Sound, Pushed
<1> QED BY <1>2, <1>3

\* A worker that rests, while the jobs and the record stay as they are.
LEMMA Rests ==
  ASSUME TypeInv, Sound, Quiet, NEW w \in Workers, NEW r \in WorkerRecord,
         r.pc \in {"idle", "dead"}, worker' = [worker EXCEPT ![w] = r],
         UNCHANGED <<dispatch, job, batch, callback>>
  PROVE  Sound'
<1>0. worker \in [Workers -> WorkerRecord]
  BY Halves DEF WorkersOK
<1>1. \A v \in Workers : worker'[v] = worker[v] \/ worker'[v].pc \in {"idle", "dead"}
  BY <1>0
<1>2. OneEach'
  BY Leaves DEF Sound
<1>3. Over => Over'
  BY OverKept DEF Sound
<1>4. ASSUME HasTally PROVE HasTally'
  <2>1. PICK C, F \in SUBSET Jobs : Tallied(C, F)
    BY <1>4 DEF HasTally
  <2>2. Tallied(C, F)'
    BY <1>1, <2>1 DEF Tallied
  <2> QED BY <2>2 DEF HasTally
<1>5. Early' /\ Tally'
  BY <1>3, <1>4 DEF Sound, Early, Tally
<1>6. Calls'
  BY <1>1, DueKept DEF Sound, Calls
<1> QED BY <1>2, <1>5, <1>6, DueKept DEF Sound

LEMMA DispatcherSound ==
  ASSUME TypeInv, Sound, Dispatcher
  PROVE  Sound'
<1>0. Quiet
  BY DEF Quiet
<1>1. Calls' /\ Pushed' /\ worker' = worker
  BY <1>0, DueKept
     DEF Dispatcher, StoreBatch, PushJobs, RegisterCallbacks, Sound, Calls
<1>2. Over => Over'
  BY <1>0, OverKept DEF Sound
<1>3. CASE StoreBatch
  <2>1. PICK allow \in BOOLEAN :
            batch' = [EmptyRecord EXCEPT !.total = Cardinality(Jobs), !.allow = allow]
    BY <1>3 DEF StoreBatch
  <2>2. /\ batch'.total = Cardinality(Jobs)
        /\ batch'.count["completed"] = 0 /\ batch'.count["failed"] = 0
    BY <2>1 DEF EmptyRecord, Counters
  <2>3. Cardinality(Jobs) # 0
    BY BatchAssumption, FS_EmptySet
  <2>4. Tallied({}, {})'
    BY <2>2, FS_EmptySet DEF Tallied
  <2>5. Tally'
    BY <2>2, <2>3, <2>4 DEF Tally, HasTally
  <2>6. Early' /\ OneEach'
    BY <1>1, <1>3 DEF StoreBatch, Sound, Early, OneEach, AtWork
  <2> QED BY <1>1, <2>5, <2>6 DEF Sound
<1>4. CASE PushJobs
  <2>0. \A j \in Jobs : job[j] = "new"
    BY <1>4 DEF PushJobs, Sound, Early
  <2>1. \A w \in Workers : worker[w].pc \notin {"running", "counting"}
    BY <2>0 DEF Sound, OneEach, TypeInv, TypeOK, Counters
  <2>2. Early' /\ OneEach'
    BY <1>1, <1>4, <2>1 DEF PushJobs, Sound, Early, OneEach, AtWork
  <2>3. ~Over
    BY <2>0, BatchAssumption DEF Over, AllFinished, Finished
  <2>4. batch.total # 0 /\ batch.total = Cardinality(Jobs) /\ HasTally
    BY <1>4, <2>3 DEF PushJobs, Sound, Tally
  <2>5. PICK C, F \in SUBSET Jobs : Tallied(C, F)
    BY <2>4 DEF HasTally
  <2>6. Tallied(C, F)'
    BY <1>1, <1>4, <2>0, <2>5 DEF PushJobs, Tallied
  <2>7. Tally'
    BY <1>4, <2>4, <2>6 DEF PushJobs, Tally, HasTally
  <2> QED BY <1>1, <2>2, <2>7 DEF Sound
<1>5. CASE RegisterCallbacks
  <2>1. HasTally => HasTally'
    BY <1>1, <1>5 DEF RegisterCallbacks, HasTally, Tallied
  <2>2. Early' /\ OneEach' /\ Tally'
    BY <1>1, <1>2, <1>5, <2>1
       DEF RegisterCallbacks, Sound, Early, OneEach, AtWork, Tally
  <2> QED BY <1>1, <2>2 DEF Sound
<1> QED BY <1>3, <1>4, <1>5 DEF Dispatcher

\* Where a job of the batch is not finished, the record is still the one that
\* counts its jobs.
LEMMA StillTallied ==
  ASSUME TypeInv, Sound, NEW j \in Jobs, job[j] \in {"pending", "processing"}
  PROVE  /\ dispatch \notin {"store", "push"} /\ ~Over
         /\ batch.total # 0 /\ batch.total = Cardinality(Jobs) /\ HasTally
<1>1. dispatch \notin {"store", "push"} /\ ~Over
  BY DEF Sound, Early, Over, AllFinished, Finished
<1>2. dispatch # "store"
  BY <1>1
<1> QED BY <1>1, <1>2 DEF Sound, Tally

LEMMA TakeSound ==
  ASSUME TypeInv, Sound, NEW w \in Workers, NEW j \in Jobs, Take(w, j)
  PROVE  Sound'
<1> DEFINE r == [Idle EXCEPT !.pc = "running", !.job = j]
<1>0. Quiet
  BY DEF Quiet, WorkerStep
<1>1. r.pc = "running" /\ r.job = j /\ r.counter = "completed"
  BY DEF Idle
<1>2. worker' = [worker EXCEPT ![w] = r] /\ worker \in [Workers -> WorkerRecord]
  BY Halves DEF Take, WorkersOK
<1> HIDE DEF r
<1>3. worker'[w] = r /\ \A v \in Workers : v # w => worker'[v] = worker[v]
  BY <1>2
<1>4. job' = [job EXCEPT ![j] = "processing"] /\ job[j] = "pending"
      /\ job \in [Jobs -> {"new", "pending", "processing"} \cup Finished]
  BY DEF Take, TypeInv, TypeOK
<1>5. /\ batch.total # 0 /\ batch.total = Cardinality(Jobs) /\ HasTally
      /\ dispatch \notin {"store", "push"}
  BY <1>4, StillTallied
<1>6. \A v \in Workers : AtWork(v) => worker[v].job # j
  BY <1>4 DEF Sound, OneEach, AtWork, TypeInv, TypeOK, Counters
<1>7. OneEach'
  <2>1. \A v \in Workers : worker'[v].pc # "raised"
    BY <1>1, <1>3 DEF Sound, OneEach
  <2>2. \A v \in Workers : worker'[v].pc = "running" =>
          /\ worker'[v].job \in Jobs /\ job'[worker'[v].job] = "processing"
          /\ worker'[v].counter = "completed"
    BY <1>1, <1>3, <1>4 DEF Sound, OneEach
  <2>3. \A v \in Workers : worker'[v].pc = "counting" =>
          worker'[v].job \in Jobs /\ job'[worker'[v].job] = worker'[v].counter
    BY <1>1, <1>3, <1>4, <1>6 DEF Sound, OneEach, AtWork
  <2>4. \A v, u \in Workers :
          AtWork(v)' /\ AtWork(u)' /\ worker'[v].job = worker'[u].job => v = u
    BY <1>1, <1>3, <1>6 DEF Sound, OneEach, AtWork
  <2>5. \A v, u \in Local : worker'[v].pc = "reading" /\ worker'[u].pc = "reading" => v = u
    BY <1>1, <1>3, BatchAssumption DEF Sound, OneEach
  <2> QED BY <2>1, <2>2, <2>3, <2>4, <2>5 DEF OneEach
<1>8. PICK C, F \in SUBSET Jobs : Tallied(C, F)
  BY <1>5 DEF HasTally
<1>9. Tallied(C, F)'
  <2>1. j \notin C \cup F
    BY <1>4, <1>8 DEF Tallied
  <2> QED BY <1>1, <1>3, <1>4, <1>8, <2>1 DEF Take, Tallied
<1>10. Early' /\ Tally'
  BY <1>5, <1>9 DEF Take, Early, Tally, HasTally
<1>11. Calls' /\ Pushed'
  BY <1>0, <1>1, <1>3, DueKept DEF Take, Sound, Calls
<1> QED BY <1>7, <1>10, <1>11 DEF Sound

\* The outcome of a job that runs: released, or recorded and to be counted.
LEMMA RecordSound ==
  ASSUME TypeInv, Sound, Quiet, NEW w \in Workers, worker[w].pc = "running",
         NEW st \in {"pending", "completed", "failed"},
         NEW r \in WorkerRecord, Record(w, st, r),
         \/ r.pc = "idle"
         \/ r.pc = "counting" /\ r.job = worker[w].job /\ r.counter = st
  PROVE  Sound'
<1> DEFINE j == worker[w].job
<1>1. j \in Jobs /\ job[j] = "processing"
  BY DEF Sound, OneEach
<1>2. worker' = [worker EXCEPT ![w] = r] /\ worker \in [Workers -> WorkerRecord]
      /\ job' = [job EXCEPT ![j] = st]
      /\ job \in [Jobs -> {"new", "pending", "processing"} \cup Finished]
  BY Halves DEF Record, WorkersOK, TypeInv, TypeOK
<1>3. worker'[w] = r /\ \A v \in Workers : v # w => worker'[v] = worker[v]
  BY <1>2
<1>5. /\ batch.total # 0 /\ batch.total = Cardinality(Jobs) /\ HasTally
      /\ dispatch \notin {"store", "push"}
  BY <1>1, StillTallied
<1>6. \A v \in Workers : v # w /\ AtWork(v) => worker[v].job # j
  BY DEF Sound, OneEach, AtWork
<1>a. r.pc = "counting" => r.job = j /\ r.counter = st
  OBVIOUS
<1> HIDE DEF j
<1>7. OneEach'
  <2>1. \A v \in Workers : worker'[v].pc # "raised"
    BY <1>3 DEF Sound, OneEach
  <2>2. \A v \in Workers : worker'[v].pc = "running" =>
          /\ worker'[v].job \in Jobs /\ job'[worker'[v].job] = "processing"
          /\ worker'[v].counter = "completed"
    BY <1>2, <1>3, <1>6 DEF Sound, OneEach, AtWork
  <2>3. ASSUME NEW v \in Workers, worker'[v].pc = "counting"
        PROVE  worker'[v].job \in Jobs /\ job'[worker'[v].job] = worker'[v].counter
    <3>1. CASE v = w
      BY <1>1, <1>2, <1>3, <1>a, <2>3, <3>1
    <3>2. CASE v # w
      BY <1>2, <1>3, <1>6, <2>3, <3>2 DEF Sound, OneEach, AtWork
    <3> QED BY <3>1, <3>2
  <2>4. \A v, u \in Workers :
          AtWork(v)' /\ AtWork(u)' /\ worker'[v].job = worker'[u].job => v = u
    BY <1>3, <1>6, <1>a DEF Sound, OneEach, AtWork
  <2>5. \A v, u \in Local : worker'[v].pc = "reading" /\ worker'[u].pc = "reading" => v = u
    BY <1>3, BatchAssumption DEF Sound, OneEach
  <2> QED BY <2>1, <2>2, <2>3, <2>4, <2>5 DEF OneEach
<1>8. PICK C, F \in SUBSET Jobs : Tallied(C, F)
  BY <1>5 DEF HasTally
<1>9. Tallied(C, F)'
  <2>1. j \notin C \cup F
    BY <1>1, <1>8 DEF Tallied
  <2>2. \A i \in C \cup F : job'[i] = job[i]
    BY <1>2, <2>1
  <2>3. \A v \in Workers : worker'[v].pc = "counting" => worker'[v].job \notin C \cup F
    BY <1>3, <1>8, <1>a, <2>1 DEF Tallied
  <2> QED BY <1>8, <2>2, <2>3 DEF Record, Tallied
<1>10. Early' /\ Tally'
  BY <1>5, <1>9 DEF Record, Early, Tally, HasTally
<1>11. Calls' /\ Pushed'
  BY <1>3, DueKept DEF Record, Sound, Calls
<1> QED BY <1>7, <1>10, <1>11 DEF Sound

LEMMA RecoverStuckSound ==
  ASSUME TypeInv, Sound, NEW j \in Jobs, RecoverStuck(j)
  PROVE  Sound'
<1>0. Quiet
  BY DEF Quiet
<1>1. /\ job' = [job EXCEPT ![j] = "pending"] /\ job[j] = "processing"
      /\ job \in [Jobs -> {"new", "pending", "processing"} \cup Finished]
      /\ \A w \in Workers : worker[w].job # j
      /\ UNCHANGED <<dispatch, batch, worker, callback>>
  BY DEF RecoverStuck, TypeInv, TypeOK
<1>2. /\ batch.total # 0 /\ batch.total = Cardinality(Jobs) /\ HasTally
      /\ dispatch \notin {"store", "push"}
  BY <1>1, StillTallied
<1>3. OneEach'
  BY <1>1 DEF Sound, OneEach, AtWork
<1>4. PICK C, F \in SUBSET Jobs : Tallied(C, F)
  BY <1>2 DEF HasTally
<1>5. Tallied(C, F)'
  <2>1. j \notin C \cup F
    BY <1>1, <1>4 DEF Tallied
  <2> QED BY <1>1, <1>4, <2>1 DEF Tallied
<1>6. Early' /\ Tally'
  BY <1>1, <1>2, <1>5 DEF Early, Tally, HasTally
<1>7. Calls' /\ Pushed'
  BY <1>0, <1>1, DueKept DEF Sound, Calls
<1> QED BY <1>3, <1>6, <1>7 DEF Sound

LEMMA ThenFirst == <<"then">> \o <<"finally", "update">> = <<"then", "finally", "update">>
<1> DEFINE s == <<"then">> \o <<"finally", "update">>
           t == <<"then", "finally", "update">>
           C == {"then", "finally", "update"}
<1>1. /\ <<"then">> \in Seq(C) /\ Len(<<"then">>) = 1 /\ <<"then">>[1] = "then"
      /\ <<"finally", "update">> \in Seq(C) /\ Len(<<"finally", "update">>) = 2
      /\ <<"finally", "update">>[1] = "finally" /\ <<"finally", "update">>[2] = "update"
  OBVIOUS
<1>2. s \in Seq(C) /\ Len(s) = 3
  BY <1>1
<1>3. s[1] = "then" /\ s[2] = "finally" /\ s[3] = "update"
  BY <1>1
<1>4. /\ t \in Seq(C) /\ Len(t) = 3
      /\ t[1] = "then" /\ t[2] = "finally" /\ t[3] = "update"
  OBVIOUS
<1> HIDE DEF s, t, C
<1>5. Len(s) = Len(t) /\ \A i \in 1..Len(s) : s[i] = t[i]
  BY <1>2, <1>3, <1>4
<1>6. s = t
  BY <1>2, <1>4, <1>5, SeqEqual
<1> QED BY <1>6 DEF s, t

\* The record came back with its tally whole: a handler it calls for is due,
\* unless another worker of the process is still to read its own record back.
LEMMA EmitSound ==
  ASSUME TypeInv, TypeInv', Sound, Quiet, NEW w \in Workers,
         worker[w].pc \in {"counting", "reading"},
         w \in Local => \A v \in Local : v # w => worker[v].pc # "reading",
         NEW b \in Record3, batch' = b, Emit(w, b), UNCHANGED <<dispatch, job, callback>>,
         b.total = Cardinality(Jobs), HasTally'
  PROVE  OneEach' /\ Calls'
<1> DEFINE event == EventOf(worker[w].counter, b)
           r == IF event # "none" /\ Listening(w)
                THEN [Idle EXCEPT !.pc = "calling", !.todo = Handler(event, b)]
                ELSE Idle
<1>0. worker \in [Workers -> WorkerRecord] /\ Local \subseteq Workers
  BY BatchAssumption, Halves DEF WorkersOK
<1>1. worker' = [worker EXCEPT ![w] = r]
  BY DEF Emit
<1>2. r.pc \in {"idle", "calling"}
      /\ (r.pc = "calling" => event # "none" /\ Listening(w) /\ r.todo = Handler(event, b))
  BY DEF Idle
<1>e. event \in {"completed", "failed", "none"}
      /\ (event = "completed" => Done(b) = b.total)
  BY DEF EventOf
<1> HIDE DEF r, event
<1>3. worker'[w] = r /\ \A v \in Workers : v # w => worker'[v] = worker[v]
  BY <1>0, <1>1
<1>4. r \in WorkerRecord
  <2>1. WorkersOK'
    BY EmitType
  <2>2. worker'[w] \in WorkerRecord
    BY <2>1 DEF WorkersOK
  <2> QED BY <1>3, <2>2
<1>5. OneEach'
  BY <1>1, <1>2, <1>4, Leaves DEF Sound
<1>6. \A v \in Workers : v # w /\ worker'[v].pc = "calling" => Due(worker[v].todo)'
  BY <1>3, DueKept DEF Sound, Calls
<1>7. ASSUME r.pc = "calling" PROVE Due(worker[w].todo)'
  <2>1. r.todo = Handler(event, b) /\ w \in Local
    BY <1>2, <1>7 DEF Listening
  <2>2. CASE event = "failed"
    <3>1. worker'[w].todo = <<"catch">>
      BY <1>3, <2>1, <2>2 DEF Handler
    <3> QED BY <3>1 DEF Due
  <2>3. CASE event = "completed"
    <3>1. \A v \in Local : worker'[v].pc # "reading"
      BY <1>0, <1>2, <1>3, <2>1
    <3>2. Done(batch)' = batch'.total /\ batch'.total = Cardinality(Jobs)
      BY <1>e, <2>3 DEF Done
    <3>3. Over' /\ (b.count["failed"] = 0 => AllCompleted')
      BY <1>5, <3>1, <3>2, FilledNext
    <3>4. CASE b.count["failed"] = 0
      <4>1. worker'[w].todo = <<"then", "finally", "update">>
        BY <1>3, <2>1, <2>3, <3>4, ThenFirst DEF Handler
      <4> QED BY <3>3, <3>4, <4>1 DEF Due
    <3>5. CASE b.count["failed"] # 0
      <4>1. worker'[w].todo = <<"finally", "update">>
        BY <1>3, <2>1, <2>3, <3>5 DEF Handler
      <4> QED BY <3>3, <4>1 DEF Due
    <3> QED BY <3>4, <3>5
  <2> QED BY <1>2, <1>7, <1>e, <2>2, <2>3
<1>8. Calls'
  BY <1>3, <1>6, <1>7 DEF Calls
<1> QED BY <1>5, <1>8

LEMMA IncrementSound ==
  ASSUME TypeInv, TypeInv', Sound, NEW w \in Workers, Increment(w)
  PROVE  Sound'
<1>j. PICK j : j = worker[w].job
  OBVIOUS
<1>0. Quiet
  BY DEF Quiet, WorkerStep
<1>1. /\ worker[w].pc = "counting" /\ Unlocked(w) /\ batch' = Incremented(w)
      /\ UNCHANGED <<dispatch, job, callback>>
  BY DEF Increment
<1>2. j \in Jobs /\ job[j] = worker[w].counter /\ worker[w].counter \in {"completed", "failed"}
  BY <1>j, <1>1 DEF Sound, OneEach, TypeInv, TypeOK, Counters
<1>3. worker \in [Workers -> WorkerRecord] /\ Local \subseteq Workers
      /\ \A v \in Workers : v # w => worker'[v] = worker[v]
  BY BatchAssumption, Halves DEF WorkersOK, Increment, Emit
<1>4. dispatch \notin {"store", "push"} /\ ~Over
  BY <1>1, <1>2 DEF Sound, Early, Over, AtWork
<1>5. batch.total # 0 /\ batch.total = Cardinality(Jobs) /\ HasTally
  <2>1. dispatch # "store"
    BY <1>4
  <2> QED BY <1>4, <2>1 DEF Sound, Tally
<1>6. Incremented(w) \in Record3 /\ Incremented(w).total = batch.total
  BY IncrementedRecord DEF TypeInv
<1>7. \A v \in Workers : v # w /\ worker[v].pc = "counting" => worker[v].job # j
  BY <1>j, <1>1 DEF Sound, OneEach, AtWork
<1>8. worker'[w].pc # "counting"
  <2>1. CASE Emit(w, Incremented(w))
    BY <1>3, <2>1 DEF Emit, Idle
  <2>2. CASE worker' = [worker EXCEPT ![w].pc = "reading"]
    BY <1>3, <2>2 DEF WorkerRecord
  <2> QED BY <2>1, <2>2 DEF Increment
<1>9. PICK C, F \in SUBSET Jobs : Tallied(C, F)
  BY <1>5 DEF HasTally
<1>10. /\ IsFiniteSet(C) /\ IsFiniteSet(F) /\ j \notin C \cup F
       /\ Cardinality(C \cup {j}) = Cardinality(C) + 1
       /\ Cardinality(F \cup {j}) = Cardinality(F) + 1
  <2>1. IsFiniteSet(C) /\ IsFiniteSet(F)
    BY BatchAssumption, FS_Subset
  <2>2. j \notin C \cup F
    BY <1>j, <1>1, <1>9 DEF Tallied
  <2> QED BY <2>1, <2>2, FS_AddElement
<1>c. batch.count \in [Counters -> Nat]
  BY DEF TypeInv, TypeOK
<1>11. ASSUME worker[w].counter = "completed" PROVE HasTally'
  <2>1. /\ batch'.count["completed"] = batch.count["completed"] + 1
        /\ batch'.count["failed"] = batch.count["failed"]
    BY <1>1, <1>11, <1>c DEF Incremented, Counters, TypeInv, TypeOK
  <2>2. Tallied(C \cup {j}, F)'
    <3>1. \A v \in Workers : worker'[v].pc = "counting" => worker'[v].job \notin C \cup {j} \cup F
      BY <1>3, <1>7, <1>8, <1>9 DEF Tallied
    <3> QED BY <1>1, <1>2, <1>9, <1>10, <1>11, <2>1, <3>1 DEF Tallied
  <2> QED BY <1>2, <2>2 DEF HasTally
<1>12. ASSUME worker[w].counter = "failed" PROVE HasTally'
  <2>1. /\ batch'.count["completed"] = batch.count["completed"]
        /\ batch'.count["failed"] = batch.count["failed"] + 1
    BY <1>1, <1>12, <1>c DEF Incremented, Counters, TypeInv, TypeOK
  <2>2. Tallied(C, F \cup {j})'
    <3>1. \A v \in Workers : worker'[v].pc = "counting" => worker'[v].job \notin C \cup {j} \cup F
      BY <1>3, <1>7, <1>8, <1>9 DEF Tallied
    <3> QED BY <1>1, <1>2, <1>9, <1>10, <1>12, <2>1, <3>1 DEF Tallied
  <2> QED BY <1>2, <2>2 DEF HasTally
<1>13. Early' /\ Tally' /\ Pushed'
  <2>1. HasTally'
    BY <1>2, <1>11, <1>12
  <2> QED BY <1>0, <1>1, <1>4, <1>5, <1>6, <2>1, DueKept DEF Early, Tally
<1>14. CASE Emit(w, Incremented(w))
  <2>1. HasTally'
    BY <1>2, <1>11, <1>12
  <2>2. OneEach' /\ Calls'
    BY <1>0, <1>1, <1>5, <1>6, <1>14, <2>1, EmitSound DEF Unlocked
  <2> QED BY <1>13, <2>2 DEF Sound
<1>15. CASE worker' = [worker EXCEPT ![w].pc = "reading"]
  <2> DEFINE r == [worker[w] EXCEPT !.pc = "reading"]
  <2>1. r \in WorkerRecord /\ r.pc = "reading" /\ worker' = [worker EXCEPT ![w] = r]
    BY <1>3, <1>15, NextRecords
  <2> HIDE DEF r
  <2>2. OneEach'
    BY <1>1, <2>1, Leaves DEF Sound, Unlocked
  <2>3. worker'[w].pc # "calling"
    BY <1>3, <2>1
  <2>4. Calls'
    BY <1>0, <1>3, <2>3, DueKept DEF Sound, Calls
  <2> QED BY <1>13, <2>2, <2>4 DEF Sound
<1> QED BY <1>14, <1>15 DEF Increment

LEMMA ReadBackSound ==
  ASSUME TypeInv, TypeInv', Sound, NEW w \in Workers, ReadBack(w)
  PROVE  Sound'
<1>0. Quiet
  BY DEF Quiet, WorkerStep
<1>1. /\ worker[w].pc = "reading" /\ Emit(w, batch)
      /\ UNCHANGED <<dispatch, job, batch, callback>>
      /\ batch \in Record3
  BY DEF ReadBack, TypeInv, TypeOK, Record3
<1>2. CASE ~Listening(w)
  <2>1. worker' = [worker EXCEPT ![w] = Idle]
    BY <1>1, <1>2 DEF Emit
  <2> QED BY <1>0, <1>1, <2>1, IdleType, Rests
<1>3. CASE Listening(w)
  <2>1. ~Over /\ dispatch = "done" /\ Local \subseteq Workers
    BY <1>1, <1>3, BatchAssumption DEF Listening, Over
  <2>2. batch.total # 0 /\ batch.total = Cardinality(Jobs) /\ HasTally
    BY <2>1 DEF Sound, Tally
  <2>3. PICK C, F \in SUBSET Jobs : Tallied(C, F)
    BY <2>2 DEF HasTally
  <2>4. \A v \in Workers : worker'[v].pc = "counting" => worker'[v] = worker[v]
    BY <1>1, IdleType, Halves DEF Emit, WorkersOK, Idle
  <2>5. Tallied(C, F)'
    BY <1>1, <2>3, <2>4 DEF Tallied
  <2>6. HasTally'
    BY <2>5 DEF HasTally
  <2>7. \A v \in Local : v # w => worker[v].pc # "reading"
    BY <1>1, <1>3 DEF Listening, Sound, OneEach
  <2>8. OneEach' /\ Calls'
    BY <1>0, <1>1, <2>2, <2>6, <2>7, EmitSound
  <2>9. Early' /\ Tally' /\ Pushed'
    BY <1>0, <1>1, <2>2, <2>6, DueKept DEF Sound, Early, Tally
  <2> QED BY <2>8, <2>9 DEF Sound
<1> QED BY <1>2, <1>3

LEMMA CallBackSound ==
  ASSUME TypeInv, Sound, NEW w \in Workers, CallBack(w)
  PROVE  Sound'
<1> DEFINE todo == worker[w].todo
           call == Head(todo)
           rest == Tail(todo)
           r == IF rest = <<>> THEN Idle ELSE [worker[w] EXCEPT !.todo = rest]
<1>0. Quiet
  BY DEF Quiet, WorkerStep
<1>1. /\ worker[w].pc = "calling"
      /\ worker' = [worker EXCEPT ![w] = r]
      /\ callback' = [c \in DOMAIN callback |-> callback[c] + (IF c = call THEN 1 ELSE 0)]
      /\ batch' = IF call = "update" /\ ~UpdateMerges THEN EmptyRecord ELSE batch
      /\ UNCHANGED <<dispatch, job>>
  BY DEF CallBack
<1>2. worker \in [Workers -> WorkerRecord]
  BY Halves DEF WorkersOK
<1>3. /\ rest \in Seq({"then", "finally", "update", "catch"})
  <2>1. todo \in Seq({"then", "finally", "update", "catch"}) /\ todo # <<>>
    BY <1>1, <1>2 DEF WorkerRecord, TypeInv
  <2> QED BY <2>1
\* The call that is made, and the calls that are left.
<1>4. \/ call = "catch" /\ rest = <<>>
      \/ Over /\ call = "update" /\ rest = <<>>
      \/ Over /\ call = "finally" /\ rest = <<"update">>
      \/ Over /\ AllCompleted /\ call = "then" /\ rest = <<"finally", "update">>
  <2>1. Due(todo)
    BY <1>1 DEF Sound, Calls
  <2>2. CASE todo = <<"catch">>
    BY <2>2
  <2>3. CASE Over /\ todo = <<"update">>
    BY <2>3
  <2>4. CASE Over /\ todo = <<"finally", "update">>
    BY <2>4
  <2>5. CASE Over /\ AllCompleted /\ todo = <<"then", "finally", "update">>
    BY <2>5
  <2> HIDE DEF todo, call, rest
  <2> QED BY <2>1, <2>2, <2>3, <2>4, <2>5 DEF Due
<1> HIDE DEF todo, call, rest
<1>5. r \in WorkerRecord /\ r.pc \in {"idle", "calling"}
      /\ (r.pc = "calling" => rest # <<>> /\ r.todo = rest)
  <2>1. CASE rest = <<>>
    BY <2>1, IdleType
  <2>2. CASE rest # <<>>
    <3>1. worker[w] \in WorkerRecord
      BY <1>2
    <3>2. [worker[w] EXCEPT !.todo = rest].pc = worker[w].pc
      BY <3>1 DEF WorkerRecord
    <3> QED BY <1>1, <1>3, <2>2, <3>1, <3>2, NextRecords
  <2> QED BY <2>1, <2>2
<1> HIDE DEF r
<1>6. worker'[w] = r /\ \A v \in Workers : v # w => worker'[v] = worker[v]
  BY <1>1, <1>2
<1>7. OneEach'
  BY <1>1, <1>5, Leaves DEF Sound
<1>8. Over => Over' /\ (AllCompleted => AllCompleted')
  BY <1>0, OverKept DEF Sound, AllCompleted
<1>9. ASSUME HasTally, batch' = batch PROVE HasTally'
  <2>1. PICK C, F \in SUBSET Jobs : Tallied(C, F)
    BY <1>9 DEF HasTally
  <2>2. Tallied(C, F)'
    BY <1>1, <1>5, <1>6, <1>9, <2>1 DEF Tallied
  <2> QED BY <2>2 DEF HasTally
<1>10. Tally'
  <2>1. CASE batch' = batch
    BY <1>1, <1>8, <1>9, <2>1 DEF Sound, Tally
  <2>2. CASE call = "update" /\ batch' = EmptyRecord
    <3>1. batch'.total = 0 /\ Over
      BY <1>4, <2>2 DEF EmptyRecord
    <3> QED BY <1>8, <3>1 DEF Tally
  <2> QED BY <1>1, <2>1, <2>2
<1>11. Calls'
  <2>1. \A left : r.pc = "calling" /\ left = rest => Due(left)'
    BY <1>4, <1>5, <1>8 DEF Due
  <2>2. worker'[w].pc = "calling" => Due(worker[w].todo)'
    BY <1>5, <1>6, <2>1
  <2> QED BY <1>0, <1>6, <2>2, DueKept DEF Sound, Calls
<1>12. Pushed'
  <2>1. callback \in [{"then", "finally", "catch"} -> Nat]
    BY DEF TypeInv, TypeOK
  <2>2. /\ call # "then" => callback'["then"] = callback["then"]
        /\ call # "finally" => callback'["finally"] = callback["finally"]
    BY <1>1, <2>1
  <2> QED BY <1>4, <1>8, <2>2 DEF Sound, Pushed
<1> QED BY <1>1, <1>7, <1>10, <1>11, <1>12 DEF Sound, Early

LEMMA NextTallyInv == TallyInv /\ [Next]_vars => TallyInv'
<1> SUFFICES ASSUME TallyInv, [Next]_vars, faults' = 0 PROVE Sound'
  BY NextTypeInv DEF TallyInv
<1>0. TypeInv /\ TypeInv' /\ Quiet /\ Sound
  BY NextTypeInv, QuietStep DEF TallyInv
<1>1. CASE Dispatcher
  BY <1>0, <1>1, DispatcherSound
<1>2. ASSUME NEW w \in Workers, WorkerStep(w) PROVE Sound'
  <2>1. ASSUME NEW j \in Jobs, Take(w, j) PROVE Sound'
    BY <1>0, <2>1, TakeSound
  <2>2. worker[w] \in WorkerRecord /\ worker[w].pc # "raised"
    BY <1>0, Halves DEF WorkersOK, Sound, OneEach
  <2>3. CASE CompleteJob(w)
    <3> DEFINE r == [worker[w] EXCEPT !.pc = "counting"]
    <3>1. r \in WorkerRecord /\ r.pc = "counting" /\ r.job = worker[w].job
          /\ r.counter = worker[w].counter
      BY <2>2, NextRecords DEF WorkerRecord
    <3>2. worker[w].pc = "running" /\ worker[w].counter = "completed"
          /\ Record(w, "completed", r)
      BY <1>0, <2>3 DEF CompleteJob, Sound, OneEach
    <3> HIDE DEF r
    <3> QED BY <1>0, <3>1, <3>2, RecordSound
  <2>4. CASE ReleaseJob(w)
    BY <1>0, <2>2, <2>4, IdleType, RecordSound DEF ReleaseJob
  <2>5. CASE FailJob(w)
    <3> DEFINE r == [worker[w] EXCEPT !.pc = "counting", !.counter = "failed"]
    <3>1. r \in WorkerRecord
      BY <2>2, NextRecords
    <3>2. r.pc = "counting" /\ r.job = worker[w].job /\ r.counter = "failed"
      BY <2>2 DEF WorkerRecord
    <3>3. worker[w].pc = "running" /\ Record(w, "failed", r)
      BY <2>2, <2>5 DEF FailJob
    <3> HIDE DEF r
    <3> QED BY <1>0, <3>1, <3>2, <3>3, RecordSound
  <2> QED BY <1>0, <1>2, <2>1, <2>3, <2>4, <2>5, IncrementSound, ReadBackSound, CallBackSound
          DEF WorkerStep
<1>3. ASSUME NEW w \in Workers, WorkerDies(w) PROVE Sound'
  <2> DEFINE r == [Idle EXCEPT !.pc = "dead"]
  <2>1. r.pc = "dead" /\ r \in WorkerRecord
    BY IdleType DEF Idle
  <2>2. worker' = [worker EXCEPT ![w] = r] /\ UNCHANGED <<dispatch, job, batch, callback>>
    BY <1>3 DEF WorkerDies
  <2> HIDE DEF r
  <2> QED BY <1>0, <2>1, <2>2, Rests
<1>4. ASSUME NEW j \in Jobs, RecoverStuck(j) PROVE Sound'
  BY <1>0, <1>4, RecoverStuckSound
<1>5. CASE UNCHANGED vars
  <2>1. HasTally => HasTally'
    BY <1>5 DEF vars, HasTally, Tallied
  <2>2. Over => Over'
    BY <1>0, OverKept DEF Sound
  <2>3. Early' /\ OneEach' /\ Tally'
    BY <1>0, <1>5, <2>1, <2>2 DEF vars, Sound, Early, OneEach, AtWork, Tally
  <2>4. Calls' /\ Pushed'
    BY <1>0, <1>5, DueKept DEF vars, Sound, Calls
  <2> QED BY <2>3, <2>4 DEF Sound
<1> QED BY <1>0, <1>1, <1>2, <1>3, <1>4, <1>5 DEF Quiet

LEMMA SpecTallyInv == Spec => []TallyInv
  BY InitTallyInv, NextTallyInv, PTL DEF Spec

\* On every driver, whether its increment is one statement or two and whether
\* or not its update replaces the record, the then job is pushed only when
\* every job of the batch has completed, unless a driver call failed or a job
\* was retried by hand.  Workers may die and jobs may run again.
THEOREM ThenTellsSuccess == Spec => []ThenMeansSuccess
<1>1. TallyInv => ThenMeansSuccess
  BY DEF TallyInv, Sound, Pushed, AllCompleted, ThenMeansSuccess
<1> QED BY <1>1, SpecTallyInv, PTL

\* The finally job is pushed only when every job has finished.
THEOREM FinallyTellsTheEnd == Spec => []FinallyMeansFinished
<1>1. TallyInv => FinallyMeansFinished
  BY DEF TallyInv, Sound, Pushed, Over, AllFinished, FinallyMeansFinished
<1> QED BY <1>1, SpecTallyInv, PTL

=============================================================================
