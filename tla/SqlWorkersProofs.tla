-------------------------- MODULE SqlWorkersProofs --------------------------
(***************************************************************************)
(* Theorems about SqlWorkers, for any number of jobs, queues, workers and  *)
(* retriers.                                                               *)
(***************************************************************************)
EXTENDS SqlWorkers, FiniteSetTheorems, TLAPS

(***************************************************************************)
(* Type correctness.                                                       *)
(***************************************************************************)

LEMMA PayloadTypes ==
    /\ NoPayload \in Payload
    /\ \A d \in Delay : NewPayload(d) \in Payload
    /\ \A p \in Payload :
          /\ Claimed(p) \in Payload
          /\ Requeued(p) \in Payload
          /\ \A s \in Status : [p EXCEPT !.status = s] \in Payload
          /\ \A d \in Delay : [p EXCEPT !.delay = d] \in Payload
          /\ \A d \in Delay : [p EXCEPT !.status = "pending", !.delay = d] \in Payload
          /\ [p EXCEPT !.started = "stale"] \in Payload
<1>1. NoPayload \in Payload
  BY DEF NoPayload, Payload, Delay, Started
<1>2. \A d \in Delay : NewPayload(d) \in Payload
  BY DEF NoPayload, NewPayload, Payload, Status, Delay, Started
<1> SUFFICES ASSUME NEW p \in Payload
             PROVE  /\ Claimed(p) \in Payload
                    /\ Requeued(p) \in Payload
                    /\ \A s \in Status : [p EXCEPT !.status = s] \in Payload
                    /\ \A d \in Delay : [p EXCEPT !.delay = d] \in Payload
                    /\ \A d \in Delay : [p EXCEPT !.status = "pending", !.delay = d] \in Payload
                    /\ [p EXCEPT !.started = "stale"] \in Payload
  BY <1>1, <1>2
<1>3. Claimed(p) \in Payload
  <2>1. p.attempts + 1 \in Nat
    BY DEF Payload
  <2> QED  BY <2>1 DEF Claimed, Payload, Status, Delay, Started
<1>4. Requeued(p) \in Payload
  BY DEF Requeued, Payload, Status, Delay, Started
<1>5. \A s \in Status : [p EXCEPT !.status = s] \in Payload
  BY DEF Payload, Status
<1>6. \A d \in Delay : [p EXCEPT !.delay = d] \in Payload
  BY DEF Payload
<1>7. \A d \in Delay : [p EXCEPT !.status = "pending", !.delay = d] \in Payload
  BY DEF Payload, Status
<1>8. [p EXCEPT !.started = "stale"] \in Payload
  BY DEF Payload, Started
<1> QED  BY <1>3, <1>4, <1>5, <1>6, <1>7, <1>8

LEMMA UpdateTypes ==
    ASSUME SqlTypeOK,
           NEW S, NEW new, \A j \in S \cap Jobs : new[j] \in Payload,
           UpdateWhere(S, new)
    PROVE  SqlTypeOK'
BY DEF SqlTypeOK, UpdateWhere

\* What the calls of the lifecycle and the clock write is well formed.
LEMMA CallTypes ==
    ASSUME SqlTypeOK, NEW j,
           \/ \E st \in Status : SetStatus(j, st)
           \/ \E d \in Delay : Release(j, d)
           \/ Promote(j) \/ DelayElapses(j) \/ ClaimAges(j)
           \/ \E S : RemoveWhere(S)
    PROVE  SqlTypeOK'
<1>1. \A k \in Jobs : rows[k] \in Payload
  BY DEF SqlTypeOK
<1>2. ASSUME NEW st \in Status, SetStatus(j, st) PROVE SqlTypeOK'
  BY <1>1, <1>2, PayloadTypes, UpdateTypes DEF SetStatus
<1>3. ASSUME NEW d \in Delay, Release(j, d) PROVE SqlTypeOK'
  BY <1>1, <1>3, PayloadTypes, UpdateTypes DEF Release
<1>4. CASE Promote(j)
  BY <1>1, <1>4, PayloadTypes, UpdateTypes DEF Promote, Delay
<1>5. CASE DelayElapses(j)
  BY <1>1, <1>5, PayloadTypes, UpdateTypes DEF DelayElapses, Delay
<1>6. CASE ClaimAges(j)
  BY <1>1, <1>6, PayloadTypes, UpdateTypes DEF ClaimAges
<1>7. ASSUME NEW S, RemoveWhere(S) PROVE SqlTypeOK'
  BY <1>7, PayloadTypes, UpdateTypes DEF RemoveWhere
<1> QED  BY <1>2, <1>3, <1>4, <1>5, <1>6, <1>7

LEMMA IdleType ==
    {Idle, Dead} \subseteq [pc : Points, job : Jobs \cup {NoJob}, payload : Payload]
<1>1. Idle \in [pc : Points, job : Jobs \cup {NoJob}, payload : Payload]
  BY PayloadTypes DEF Idle, Points
<1>2. [Idle EXCEPT !.pc = "dead"] \in [pc : Points, job : Jobs \cup {NoJob}, payload : Payload]
  BY <1>1 DEF Points
<1> QED  BY <1>1, <1>2 DEF Dead

LEMMA TypeStep == TypeOK /\ [Next]_vars => TypeOK'
<1> SUFFICES ASSUME TypeOK, [Next]_vars PROVE TypeOK'
    OBVIOUS
<1> USE DEF TypeOK
<1>1. CASE Dispatch
  <2>1. SqlTypeOK'
    <3>1. ASSUME NEW S \in SUBSET Jobs, NEW d \in {"none", "future"}, Insert(S, d)
          PROVE  SqlTypeOK'
      <4>1. NewPayload(d) \in Payload
        BY PayloadTypes DEF Delay
      <4> QED  BY <3>1, <4>1 DEF Insert, SqlTypeOK
    <3> QED  BY <1>1, <3>1 DEF Dispatch, Push, PushMany
  <2> QED  BY <1>1, <2>1 DEF Dispatch, WorkerTypeOK
<1>2. ASSUME NEW w \in Workers, NEW q \in Queues, PopAtomic(w, q) PROVE TypeOK'
  <2>1. PICK j \in Eligible(q) : Claim(j) /\ StartJob(w, j, Claimed(rows[j]))
    BY <1>2 DEF PopAtomic
  <2>2. j \in Jobs /\ Claimed(rows[j]) \in Payload
    BY PayloadTypes DEF Eligible, StatusIs, SqlTypeOK
  <2>3. SqlTypeOK'
    BY <2>1, <2>2, UpdateTypes DEF Claim
  <2>4. WorkerTypeOK'
    BY <2>1, <2>2 DEF StartJob, WorkerTypeOK, Points
  <2> QED  BY <1>2, <2>3, <2>4 DEF PopAtomic, Aside
<1>3. ASSUME NEW w \in Workers, NEW q \in Queues, PopSelect(w, q) PROVE TypeOK'
  <2>1. PICK j \in Oldest(Eligible(q)) : BeginPop(w, j, rows[j])
    BY <1>3 DEF PopSelect
  <2>2. j \in Jobs /\ rows[j] \in Payload
    BY DEF Oldest, Eligible, StatusIs, SqlTypeOK
  <2>3. WorkerTypeOK'
    BY <2>1, <2>2 DEF BeginPop, WorkerTypeOK, Points
  <2> QED  BY <1>3, <2>3 DEF PopSelect, Aside, SqlTypeOK
<1>4. ASSUME NEW w \in Workers, PopClaim(w) PROVE TypeOK'
  <2> DEFINE j == worker[w].job
  <2>1. j \in Jobs /\ rows[j] \in Payload /\ worker[w].payload \in Payload
    BY <1>4 DEF PopClaim, Claim, StatusIs, SqlTypeOK, WorkerTypeOK
  <2>2. Claimed(rows[j]) \in Payload /\ Claimed(worker[w].payload) \in Payload
    BY <2>1, PayloadTypes
  <2>3. SqlTypeOK'
    BY <1>4, <2>1, <2>2, UpdateTypes DEF PopClaim, Claim
  <2>4. WorkerTypeOK'
    BY <1>4, <2>1, <2>2 DEF PopClaim, StartJob, WorkerTypeOK, Points
  <2> QED  BY <1>4, <2>3, <2>4 DEF PopClaim, Aside
<1>5. ASSUME NEW w \in Workers,
             PopMiss(w) \/ Handle(w) \/ EndJob(w) \/ DriverError(w) \/ WorkerDies(w)
      PROVE  TypeOK'
  <2>1. CASE PopMiss(w) \/ EndJob(w) \/ WorkerDies(w)
    BY <2>1, IdleType DEF PopMiss, EndJob, WorkerDies, EmptyPop, FinishJob, Crash,
                          Aside, SqlTypeOK, WorkerTypeOK
  <2>2. CASE Handle(w) \/ DriverError(w)
    <3>1. PICK pc \in Points : worker' = [worker EXCEPT ![w].pc = pc]
      BY <2>2 DEF Handle, DriverError, HandleReturns, HandleRaises, DriverRaises, Points
    <3> QED
      BY <2>2, <3>1 DEF Handle, DriverError, Aside, SqlTypeOK, WorkerTypeOK
  <2> QED  BY <1>5, <2>1, <2>2
<1>6. ASSUME NEW w \in Workers, CompleteJob(w) \/ ReleaseJob(w) \/ FailJob(w)
      PROVE  TypeOK'
  <2>1. SqlTypeOK'
    BY <1>6, CallTypes
    DEF CompleteJob, ReleaseJob, FailJob, Complete, Fail, RetryDelays, Delay, Status
  <2>2. WorkerTypeOK'
    <3>1. CASE CompleteJob(w)
      <4> DEFINE p == [worker[w].payload EXCEPT !.status = "completed"]
      <4>1. p \in Payload
        BY PayloadTypes DEF WorkerTypeOK, Status
      <4>2. worker' = [worker EXCEPT ![w].pc = "completed", ![w].payload = p]
        BY <3>1 DEF CompleteJob, RecordCompletion
      <4> HIDE DEF p
      <4> QED  BY <4>1, <4>2 DEF WorkerTypeOK, Points
    <3>2. CASE ReleaseJob(w) \/ FailJob(w)
      BY <3>2, IdleType DEF ReleaseJob, FailJob, RecordFailure, WorkerTypeOK
    <3> QED  BY <1>6, <3>1, <3>2
  <2> QED  BY <1>6, <2>1, <2>2 DEF CompleteJob, ReleaseJob, FailJob, Aside
<1>7. CASE SupervisorStep
  <2>1. CASE PollDelayed
    BY <2>1, PayloadTypes, UpdateTypes
    DEF PollDelayed, PopDelayed, Delay, SqlTypeOK, WorkerTypeOK
  <2>2. ASSUME NEW q \in Queues, RecoverStuck(q) PROVE TypeOK'
    <3>1. SqlTypeOK'
      <4>1. \A j \in Jobs : Requeued(rows[j]) \in Payload
        BY PayloadTypes DEF SqlTypeOK
      <4> QED  BY <2>2, <4>1, UpdateTypes DEF RecoverStuck, RequeueStuck
    <3>2. WorkerTypeOK' /\ todo' = todo /\ grants' \in [Jobs -> Nat]
      BY <2>2 DEF RecoverStuck, Grant, WorkerTypeOK
    <3> QED  BY <3>1, <3>2
  <2> QED  BY <1>7, <2>1, <2>2 DEF SupervisorStep
<1>8. ASSUME NEW r \in Retriers, RetryFetch(r) PROVE TypeOK'
  BY <1>8 DEF RetryFetch, StatusIs, SqlTypeOK, WorkerTypeOK
<1>9. ASSUME NEW r \in Retriers, NEW j \in Jobs, RetryRelease(r, j) PROVE TypeOK'
  <2>1. SqlTypeOK'
    BY <1>9, CallTypes DEF RetryRelease, Delay
  <2> QED  BY <1>9, <2>1 DEF RetryRelease, Grant, WorkerTypeOK
<1>10. CASE Administer
  <2>1. SqlTypeOK'
    BY <1>10, CallTypes DEF Administer, Delete, Prune, Flush, EmergencyCleanup
  <2> QED  BY <1>10, <2>1 DEF Administer, WorkerTypeOK
<1>11. CASE TimePasses
  <2>1. SqlTypeOK'
    BY <1>11, CallTypes DEF TimePasses
  <2> QED  BY <1>11, <2>1 DEF TimePasses, WorkerTypeOK
<1>12. CASE UNCHANGED vars
  BY <1>12 DEF vars, SqlTypeOK, WorkerTypeOK
<1> QED
  BY <1>1, <1>2, <1>3, <1>4, <1>5, <1>6, <1>7, <1>8, <1>9, <1>10, <1>11, <1>12
  DEF Next, WorkerStep, RetrierStep

\* Rows, workers, retriers and grants are always well formed.
THEOREM TypeCorrect == Spec => []TypeOK
<1>1. Init => TypeOK
  <2>1. Init => SqlTypeOK
    BY PayloadTypes DEF Init, SqlInit, SqlTypeOK
  <2>2. Init => WorkerTypeOK
    BY IdleType DEF Init, WorkerInit, WorkerTypeOK
  <2> QED  BY <2>1, <2>2 DEF Init, TypeOK
<1> QED  BY <1>1, TypeStep, PTL DEF Spec


(***************************************************************************)
(* The lease: who may touch a row, and what its holder may rely on.        *)
(***************************************************************************)

\* A release touches one row, and never one that is gone.
LEMMA ReleaseEffect ==
    ASSUME rows \in [Jobs -> Payload], NEW j, NEW d, Release(j, d)
    PROVE  /\ pushed' = pushed
           /\ \A k \in Jobs : k # j => rows'[k] = rows[k]
           /\ j \in Jobs => rows'[j].status \in {"pending", "absent"}
           /\ j \in Jobs => (Present(j)' <=> Present(j))
BY DEF Release, ById, UpdateWhere, Present, Payload

\* So does a completion or a failure.
LEMMA SetStatusEffect ==
    ASSUME rows \in [Jobs -> Payload], NEW j, NEW st \in Status, st # "absent",
           SetStatus(j, st)
    PROVE  /\ pushed' = pushed
           /\ \A k \in Jobs : k # j => rows'[k] = rows[k]
           /\ j \in Jobs => rows'[j].status \in {st, "absent"}
           /\ j \in Jobs => (Present(j)' <=> Present(j))
BY DEF SetStatus, ById, UpdateWhere, Present, Payload

\* A claim makes the claimer the only holder of a row marked as just started.
LEMMA ClaimEffect ==
    ASSUME TypeOK, LeaseInv, NEW w \in Workers, NEW j \in Jobs, NEW p \in Payload,
           Claim(j), StartJob(w, j, Claimed(p)), AtomicPop => p = rows[j],
           UNCHANGED todo
    PROVE  LeaseInv'
<1>0. /\ rows \in [Jobs -> Payload]
      /\ worker \in [Workers -> [pc : Points, job : Jobs \cup {NoJob}, payload : Payload]]
  BY DEF TypeOK, SqlTypeOK, WorkerTypeOK
<1>1. /\ rows[j].status = "pending" /\ j \in pushed /\ pushed' = pushed
      /\ \A v \in Workers : ~Holds(v, j)
  BY DEF Claim, StatusIs, UpdateWhere, LeaseInv, Listed, Lease, Present
<1>2. /\ rows'[j].status = "processing" /\ rows'[j].started = "fresh"
      /\ rows'[j].attempts = rows[j].attempts + 1
      /\ \A k \in Jobs \ {j} : rows'[k] = rows[k]
  BY <1>0 DEF Claim, UpdateWhere, Claimed, Payload
<1>3. /\ worker'[w].pc = "running" /\ worker'[w].job = j
      /\ worker'[w].payload.attempts = p.attempts + 1
      /\ \A v \in Workers \ {w} : worker'[v] = worker[v]
  BY <1>0 DEF StartJob, Claimed, Payload
<1>4. \A v \in Workers, k \in Jobs \cup {NoJob} :
         Holds(v, k)' <=> IF v = w THEN k = j ELSE Holds(v, k)
  BY <1>3 DEF Holds
<1>5. Lease'
  <2> SUFFICES ASSUME NEW v \in Workers, NEW k \in Jobs \cup {NoJob}, Holds(v, k)'
               PROVE  (/\ k \in pushed
                       /\ rows[k].status \in {"processing", "completed", "absent"}
                       /\ ~DriverMayFail /\ Executing(v) => rows[k].status # "completed"
                       /\ rows[k].status = "processing" => rows[k].started = "fresh"
                       /\ AtomicPop /\ Present(k) => worker[v].payload.attempts = rows[k].attempts
                       /\ \A u \in Workers : Holds(u, k) => u = v)'
    BY DEF Lease
  <2>1. CASE v = w
    BY <1>1, <1>2, <1>3, <1>4, <2>1 DEF Present, Executing
  <2>2. CASE v # w
    <3>1. Holds(v, k) /\ k # j /\ k \in Jobs
      BY <1>1, <1>4, <2>2 DEF LeaseInv, Lease, TypeOK, SqlTypeOK
    <3> QED
      BY <1>1, <1>2, <1>3, <1>4, <2>2, <3>1 DEF LeaseInv, Lease, Present, Executing
  <2> QED  BY <2>1, <2>2
<1>6. Listed'
  BY <1>1, <1>2 DEF LeaseInv, Listed, Present, TypeOK
<1>7. OneStatement'
  BY <1>3 DEF LeaseInv, OneStatement
<1> QED  BY <1>5, <1>6, <1>7 DEF LeaseInv

LEMMA LeaseStep ==
    Benign /\ TypeOK /\ LeaseInv /\ [Next]_vars => LeaseInv'
<1> SUFFICES ASSUME Benign, TypeOK, LeaseInv, [Next]_vars PROVE LeaseInv'
    OBVIOUS
<1>0. /\ rows \in [Jobs -> Payload]
      /\ worker \in [Workers -> [pc : Points, job : Jobs \cup {NoJob}, payload : Payload]]
      /\ todo \in [Retriers -> SUBSET Jobs]
      /\ pushed \subseteq Jobs
  BY DEF TypeOK, SqlTypeOK, WorkerTypeOK
<1>1. CASE Dispatch
  <2>1. PICK S \in SUBSET Jobs, d \in {"none", "future"} : Insert(S, d)
    BY <1>1 DEF Dispatch, Push, PushMany
  <2>2. Lease'
    BY <1>0, <1>1, <2>1 DEF Dispatch, Insert, LeaseInv, Lease, Holds, Executing, Present
  <2>3. Listed'
    BY <1>0, <1>1, <2>1 DEF Dispatch, Insert, LeaseInv, Listed, Present
  <2>4. OneStatement'
    BY <1>1 DEF Dispatch, LeaseInv, OneStatement
  <2> QED  BY <2>2, <2>3, <2>4 DEF LeaseInv
<1>2. ASSUME NEW w \in Workers, NEW q \in Queues, PopAtomic(w, q) PROVE LeaseInv'
  <2>1. PICK j \in Jobs : Claim(j) /\ StartJob(w, j, Claimed(rows[j])) /\ Aside
    BY <1>2 DEF PopAtomic, Eligible, StatusIs
  <2> QED  BY <1>0, <2>1, ClaimEffect DEF Aside
<1>3. ASSUME NEW w \in Workers, NEW q \in Queues, PopSelect(w, q) PROVE LeaseInv'
  BY <1>0, <1>3
  DEF PopSelect, BeginPop, Aside, LeaseInv, Lease, Listed, OneStatement, Holds,
      Executing, Present
<1>4. ASSUME NEW w \in Workers, PopClaim(w) PROVE LeaseInv'
  <2>1. ~AtomicPop
    BY <1>4 DEF PopClaim, LeaseInv, OneStatement
  <2> QED  BY <1>0, <1>4, <2>1, ClaimEffect DEF PopClaim, Claim, StatusIs, Aside
<1>5. ASSUME NEW w \in Workers,
             PopMiss(w) \/ Handle(w) \/ EndJob(w) \/ DriverError(w) \/ WorkerDies(w)
      PROVE  LeaseInv'
  <2>1. /\ rows' = rows /\ pushed' = pushed /\ todo' = todo
        /\ \A v \in Workers \ {w} : worker'[v] = worker[v]
    BY <1>0, <1>5
    DEF PopMiss, Handle, EndJob, DriverError, WorkerDies, EmptyPop, HandleReturns,
        HandleRaises, FinishJob, DriverRaises, Crash, Aside
  <2>2. \/ worker'[w].pc \in {"idle", "dead"}
        \/ /\ worker'[w].pc \in {"succeeded", "raised"}
           /\ worker[w].pc \in {"running", "succeeded", "completed"}
           /\ worker'[w].job = worker[w].job
           /\ worker'[w].payload.attempts = worker[w].payload.attempts
           /\ Executing(w) \/ DriverMayFail
    <3>1. CASE PopMiss(w) \/ EndJob(w) \/ WorkerDies(w)
      BY <1>0, <3>1 DEF PopMiss, EndJob, WorkerDies, EmptyPop, FinishJob, Crash, Idle, Dead
    <3>2. CASE Handle(w)
      BY <1>0, <3>2 DEF Handle, HandleReturns, HandleRaises, Executing
    <3>3. CASE DriverError(w)
      BY <1>0, <3>3 DEF DriverError, DriverRaises, Executing, Payload
    <3> QED  BY <1>5, <3>1, <3>2, <3>3
  <2>3. \A v \in Workers, k \in Jobs \cup {NoJob} : Holds(v, k)' => Holds(v, k)
    BY <2>1, <2>2 DEF Holds
  <2>4. \A v \in Workers, k \in Jobs \cup {NoJob} : Holds(v, k)' =>
           /\ worker'[v].payload.attempts = worker[v].payload.attempts
           /\ Executing(v)' => Executing(v) \/ DriverMayFail
    BY <2>1, <2>2 DEF Holds, Executing
  <2>5. Lease'
    BY <2>1, <2>3, <2>4 DEF LeaseInv, Lease, Present
  <2>6. Listed'
    BY <2>1 DEF LeaseInv, Listed, Present
  <2>7. OneStatement'
    BY <2>1, <2>2 DEF LeaseInv, OneStatement
  <2> QED  BY <2>5, <2>6, <2>7 DEF LeaseInv
<1>6. ASSUME NEW w \in Workers, CompleteJob(w) PROVE LeaseInv'
  <2>1. /\ worker[w].pc = "succeeded" /\ worker'[w].pc = "completed"
        /\ worker'[w].job = worker[w].job
        /\ worker'[w].payload.attempts = worker[w].payload.attempts
        /\ \A v \in Workers \ {w} : worker'[v] = worker[v]
    BY <1>0, <1>6 DEF CompleteJob, RecordCompletion, Payload
  <2>2. PICK j : j = worker[w].job
    OBVIOUS
  <2>3. /\ pushed' = pushed /\ todo' = todo
        /\ \A k \in Jobs : k # j => rows'[k] = rows[k]
        /\ \A k \in Jobs : rows'[k].attempts = rows[k].attempts
        /\ \A k \in Jobs : Present(k)' <=> Present(k)
        /\ j \in Jobs => rows'[j].status \in {"completed", "absent"}
    BY <1>0, <1>6, <2>2
    DEF CompleteJob, Complete, SetStatus, ById, UpdateWhere, Aside, Present, Payload
  <2>4. \A v \in Workers, k \in Jobs \cup {NoJob} : Holds(v, k)' <=> Holds(v, k)
    BY <2>1 DEF Holds
  <2>5. Holds(w, j) /\ \A v \in Workers : Holds(v, j) => v = w
    BY <1>0, <2>1, <2>2 DEF LeaseInv, Lease, Holds
  <2>6. Lease'
    BY <1>0, <2>1, <2>2, <2>3, <2>4, <2>5 DEF LeaseInv, Lease, Executing, Present, Holds
  <2>7. Listed'
    BY <1>0, <2>2, <2>3, <2>5 DEF LeaseInv, Lease, Listed, Present
  <2> QED  BY <2>1, <2>6, <2>7 DEF LeaseInv, OneStatement
<1>7. ASSUME NEW w \in Workers, ReleaseJob(w) PROVE LeaseInv'
  <2> PICK j : j = worker[w].job
    OBVIOUS
  <2>1. PICK d : Release(j, d)
    BY <1>7 DEF ReleaseJob
  <2>2. /\ pushed' = pushed /\ todo' = todo
        /\ \A k \in Jobs : k # j => rows'[k] = rows[k]
        /\ j \in Jobs => rows'[j].status \in {"pending", "absent"}
        /\ j \in Jobs => (Present(j)' <=> Present(j))
    BY <1>0, <1>7, <2>1, ReleaseEffect DEF ReleaseJob, Aside
  <2>3. /\ Holds(w, j) /\ worker' = [worker EXCEPT ![w] = Idle]
    BY <1>7 DEF ReleaseJob, RecordFailure, Holds
  <2>4. \A v \in Workers, k \in Jobs \cup {NoJob} :
           Holds(v, k)' <=> v # w /\ Holds(v, k)
    BY <1>0, <2>3 DEF Holds, Idle
  <2>5. \A v \in Workers : Holds(v, j) => v = w
    BY <1>0, <2>3 DEF LeaseInv, Lease
  <2>6. Lease'
    BY <1>0, <2>2, <2>3, <2>4, <2>5 DEF LeaseInv, Lease, Executing, Present, Holds
  <2>7. Listed'
    BY <1>0, <2>2, <2>3 DEF LeaseInv, Lease, Listed, Present
  <2>8. OneStatement'
    BY <1>0, <2>3 DEF LeaseInv, OneStatement, Idle
  <2> QED  BY <2>6, <2>7, <2>8 DEF LeaseInv
<1>8. ASSUME NEW w \in Workers, FailJob(w) PROVE LeaseInv'
  <2> PICK j : j = worker[w].job
    OBVIOUS
  <2>1. SetStatus(j, "failed")
    BY <1>8 DEF FailJob, Fail
  <2>2. /\ pushed' = pushed /\ todo' = todo
        /\ \A k \in Jobs : k # j => rows'[k] = rows[k]
        /\ j \in Jobs => rows'[j].status \in {"failed", "absent"}
        /\ j \in Jobs => (Present(j)' <=> Present(j))
    BY <1>0, <1>8, <2>1, SetStatusEffect DEF FailJob, Aside, Status
  <2>3. Holds(w, j) /\ worker' = [worker EXCEPT ![w] = Idle]
    BY <1>8 DEF FailJob, RecordFailure, Holds
  <2>4. \A v \in Workers, k \in Jobs \cup {NoJob} :
           Holds(v, k)' <=> v # w /\ Holds(v, k)
    BY <1>0, <2>3 DEF Holds, Idle
  <2>5. \A v \in Workers : Holds(v, j) => v = w
    BY <1>0, <2>3 DEF LeaseInv, Lease
  <2>6. Lease'
    BY <1>0, <2>2, <2>3, <2>4, <2>5 DEF LeaseInv, Lease, Executing, Present, Holds
  <2>7. Listed'
    BY <1>0, <2>2, <2>3 DEF LeaseInv, Lease, Listed, Present
  <2>8. OneStatement'
    BY <1>0, <2>3 DEF LeaseInv, OneStatement, Idle
  <2> QED  BY <2>6, <2>7, <2>8 DEF LeaseInv
<1>9. CASE PollDelayed
  <2>1. /\ pushed' = pushed /\ worker' = worker /\ todo' = todo
        /\ \A k \in Jobs : /\ rows'[k].status = rows[k].status
                          /\ rows'[k].started = rows[k].started
                          /\ rows'[k].attempts = rows[k].attempts
    BY <1>0, <1>9 DEF PollDelayed, PopDelayed, UpdateWhere, StatusIs, Payload
  <2>2. Lease'
    BY <1>0, <2>1 DEF LeaseInv, Lease, Executing, Present, Holds
  <2>3. Listed'
    BY <1>0, <2>1 DEF LeaseInv, Listed, Present
  <2> QED  BY <2>1, <2>2, <2>3 DEF LeaseInv, OneStatement
<1>10. ASSUME NEW q \in Queues, RecoverStuck(q) PROVE LeaseInv'
  <2>1. \A k \in Jobs : ~(k \in Stuck(q)) => rows'[k] = rows[k]
    BY <1>10 DEF RecoverStuck, RequeueStuck, UpdateWhere
  <2>2. \A k \in Stuck(q) : k \in Jobs /\ rows[k].status = "processing" /\ rows'[k].status = "pending"
    BY <1>0, <1>10 DEF RecoverStuck, RequeueStuck, UpdateWhere, Stuck, StatusIs, Requeued, Payload
  <2>3. \A w \in Workers : \A k \in Stuck(q) : ~Holds(w, k)
    BY DEF Stuck, StatusIs, LeaseInv, Lease
  <2>4. pushed' = pushed /\ worker' = worker /\ todo' = todo
    BY <1>10 DEF RecoverStuck, RequeueStuck, UpdateWhere
  <2>5. Lease'
    BY <1>0, <2>1, <2>3, <2>4 DEF LeaseInv, Lease, Executing, Present, Holds
  <2>6. Listed'
    BY <1>0, <2>1, <2>2, <2>4 DEF LeaseInv, Listed, Present
  <2> QED  BY <2>4, <2>5, <2>6 DEF LeaseInv, OneStatement
<1>11. ASSUME NEW r \in Retriers, RetryFetch(r) PROVE LeaseInv'
  BY <1>0, <1>11
  DEF RetryFetch, StatusIs, LeaseInv, Lease, Listed, OneStatement, Holds, Executing, Present
<1>12. ASSUME NEW r \in Retriers, NEW j \in Jobs, RetryRelease(r, j) PROVE LeaseInv'
  <2>1. /\ pushed' = pushed /\ worker' = worker
        /\ \A k \in Jobs : k # j => rows'[k] = rows[k]
        /\ rows'[j].status \in {"pending", "absent"}
        /\ Present(j)' <=> Present(j)
    BY <1>0, <1>12, ReleaseEffect DEF RetryRelease
  <2>2. rows[j].status \in {"failed", "absent"}
    BY <1>12 DEF RetryRelease, LeaseInv, Listed
  <2>3. \A s \in Retriers : todo'[s] = todo[s] \ {j}
    BY <1>0, <1>12 DEF RetryRelease, Benign
  <2>4. Lease'
    BY <1>0, <2>1, <2>2 DEF LeaseInv, Lease, Executing, Present, Holds
  <2>5. Listed'
    BY <1>0, <2>1, <2>2, <2>3 DEF LeaseInv, Listed, Present
  <2> QED  BY <2>1, <2>4, <2>5 DEF LeaseInv, OneStatement
<1>13. CASE Administer
  <2>1. CASE \E j \in Jobs : Promote(j)
    BY <1>0, <1>13, <2>1
    DEF Administer, Promote, UpdateWhere, StatusIs, Payload,
        LeaseInv, Lease, Listed, OneStatement, Holds, Executing, Present
  <2>2. ASSUME NEW S, RemoveWhere(S) PROVE LeaseInv'
    BY <1>0, <1>13, <2>2
    DEF Administer, RemoveWhere, UpdateWhere, NoPayload,
        LeaseInv, Lease, Listed, OneStatement, Holds, Executing, Present
  <2> QED
    BY <1>13, <2>1, <2>2 DEF Administer, Delete, Prune, Flush, EmergencyCleanup
<1>14. CASE TimePasses
  <2>1. ASSUME NEW j \in Jobs, DelayElapses(j) PROVE LeaseInv'
    BY <1>0, <1>14, <2>1
    DEF TimePasses, DelayElapses, UpdateWhere, Payload,
        LeaseInv, Lease, Listed, OneStatement, Holds, Executing, Present
  <2>2. ASSUME NEW j \in Jobs, ClaimAges(j), \A w \in Workers : ~Holds(w, j)
        PROVE  LeaseInv'
    BY <1>0, <1>14, <2>2
    DEF TimePasses, ClaimAges, UpdateWhere, Payload,
        LeaseInv, Lease, Listed, OneStatement, Holds, Executing, Present
  <2> QED  BY <1>14, <2>1, <2>2 DEF TimePasses, Benign
<1>15. CASE UNCHANGED vars
  BY <1>15
  DEF vars, LeaseInv, Lease, Listed, OneStatement, Holds, Executing, Present
<1> QED
  BY <1>1, <1>2, <1>3, <1>4, <1>5, <1>6, <1>7, <1>8, <1>9, <1>10, <1>11, <1>12,
     <1>13, <1>14, <1>15
  DEF Next, WorkerStep, SupervisorStep, RetrierStep

\* The invariant holds of every behaviour with timely recovery and one retrier.
THEOREM LeaseInvariant ==
    ASSUME Benign
    PROVE  Spec => [](TypeOK /\ LeaseInv)
<1>1. Init => LeaseInv
  BY DEF Init, SqlInit, WorkerInit, Idle, NoPayload, LeaseInv, Lease, Listed,
         OneStatement, Holds, Present
<1>2. TypeOK /\ LeaseInv /\ [Next]_vars => LeaseInv'
  BY LeaseStep
<1> QED  BY <1>1, <1>2, TypeCorrect, PTL DEF Spec

\* No two workers run the same job at the same time.
THEOREM RunsAreExclusive ==
    ASSUME Benign
    PROVE  Spec => []OneRunner
<1>1. TypeOK /\ LeaseInv => OneRunner
  BY DEF TypeOK, WorkerTypeOK, LeaseInv, Lease, OneRunner, Executing, Holds
<1> QED  BY <1>1, LeaseInvariant, PTL

\* With one-statement claims, a worker's copy of the payload has the
\* attempts of the row for as long as it decides on them.
THEOREM CopiesAreCurrent ==
    ASSUME Benign, AtomicPop
    PROVE  Spec => []CopyCurrent
<1>1. TypeOK /\ LeaseInv => CopyCurrent
  BY DEF TypeOK, WorkerTypeOK, LeaseInv, Lease, CopyCurrent, Executing, Holds
<1> QED  BY <1>1, LeaseInvariant, PTL


(***************************************************************************)
(* The workers on a SQL driver implement the job life cycle.               *)
(***************************************************************************)

\* The mapping's holder is the one worker that has the job in hand.
HolderMatches ==
    \A j \in Jobs :
        /\ Holder(j) \in Workers \cup {NoJob}
        /\ \A w \in Workers : Holder(j) = w <=> Executing(w) /\ worker[w].job = j

LEMMA HolderIs == TypeOK /\ LeaseInv => HolderMatches
<1> SUFFICES ASSUME TypeOK, LeaseInv, NEW j \in Jobs
             PROVE  /\ Holder(j) \in Workers \cup {NoJob}
                    /\ \A w \in Workers :
                          Holder(j) = w <=> Executing(w) /\ worker[w].job = j
  BY DEF HolderMatches
<1> DEFINE H(w) == Executing(w) /\ worker[w].job = j
<1>1. \A v, w \in Workers : H(v) /\ H(w) => v = w
  BY DEF LeaseInv, Lease, Holds, Executing
<1>2. CASE \E w \in Workers : H(w)
  <2>1. Holder(j) = CHOOSE w \in Workers : H(w)
    BY <1>2 DEF Holder
  <2>2. Holder(j) \in Workers /\ H(Holder(j))
    BY <1>2, <2>1
  <2> QED  BY <1>1, <2>2
<1>3. CASE ~\E w \in Workers : H(w)
  <2>1. Holder(j) = NoJob
    BY <1>3 DEF Holder
  <2> QED  BY <1>3, <2>1, SqlWorkersAssumption
<1> QED  BY <1>2, <1>3

LEMMA HolderIsNext == TypeOK' /\ LeaseInv' => HolderMatches'
BY HolderIs, PTL

\* A step in which no worker takes or drops a job leaves the holders alone.
LEMMA HoldersKept ==
    ASSUME HolderMatches, HolderMatches', NEW j \in Jobs,
           \A w \in Workers : (Executing(w) /\ worker[w].job = j)'
                                 <=> Executing(w) /\ worker[w].job = j
    PROVE  Holder(j)' = Holder(j)
<1>1. /\ Holder(j) \in Workers \cup {NoJob} /\ Holder(j)' \in Workers \cup {NoJob}
      /\ \A w \in Workers : Holder(j) = w <=> Holder(j)' = w
  BY DEF HolderMatches
<1> QED  BY <1>1, SqlWorkersAssumption

\* A claim is the start of a run nobody else has going.
LEMMA ClaimTakes ==
    ASSUME TypeOK, LeaseInv, HolderMatches, HolderMatches',
           NEW w \in Workers, NEW j \in Jobs, NEW p, Claim(j), StartJob(w, j, p)
    PROVE  Life!Take(w, j)
<1>0. /\ rows \in [Jobs -> Payload]
      /\ worker \in [Workers -> [pc : Points, job : Jobs \cup {NoJob}, payload : Payload]]
  BY DEF TypeOK, SqlTypeOK, WorkerTypeOK
<1>1. /\ rows[j].status = "pending" /\ rows'[j].status = "processing"
      /\ pushed' = pushed /\ \A k \in Jobs \ {j} : rows'[k] = rows[k]
  BY <1>0 DEF Claim, StatusIs, UpdateWhere, Claimed, Payload
<1>2. /\ ~Executing(w) /\ worker'[w].pc = "running" /\ worker'[w].job = j
      /\ \A v \in Workers \ {w} : worker'[v] = worker[v]
  BY <1>0 DEF StartJob, Executing
<1>3. \A k \in Jobs : Holder(k) # w
  BY <1>2 DEF HolderMatches
<1>4. Holder(j) = NoJob
  <2>1. \A v \in Workers : ~(Executing(v) /\ worker[v].job = j)
    BY <1>1 DEF LeaseInv, Lease, Holds, Executing
  <2> QED  BY <2>1 DEF HolderMatches
<1>5. Holder(j)' = w
  BY <1>2 DEF HolderMatches, Executing
<1>6. \A k \in Jobs \ {j} : Holder(k)' = Holder(k)
  BY <1>2, HoldersKept DEF Executing
<1>7. /\ LifeState(j) = "pending" /\ LifeState(j)' = "processing"
      /\ \A k \in Jobs \ {j} : LifeState(k)' = LifeState(k)
  BY <1>1 DEF LifeState, Present
<1> QED  BY <1>3, <1>4, <1>5, <1>6, <1>7 DEF Life!Take

\* The call that records an outcome ends the run and settles the job, unless
\* the job was removed under the run.
LEMMA OutcomeSettles ==
    ASSUME TypeOK, LeaseInv, HolderMatches, HolderMatches',
           NEW w \in Workers, NEW j \in Jobs, NEW s \in Status,
           Executing(w), worker[w].job = j, ~Executing(w)',
           \A v \in Workers \ {w} : worker'[v] = worker[v],
           pushed' = pushed,
           \A k \in Jobs \ {j} : rows'[k] = rows[k],
           rows'[j].status \in {s, "absent"},
           Present(j)' <=> Present(j)
    PROVE  Life!Settle(w, j, s)
<1>1. j \in pushed
  BY DEF LeaseInv, Lease, Holds, Executing
<1>2. Holder(j) = w
  BY DEF HolderMatches
<1>3. Holder(j)' = NoJob
  <2>1. \A v \in Workers : ~(Executing(v) /\ worker[v].job = j)'
    BY DEF LeaseInv, Lease, Holds, Executing
  <2> QED  BY <2>1 DEF HolderMatches
<1>4. \A k \in Jobs \ {j} : Holder(k)' = Holder(k)
  BY HoldersKept DEF Executing
<1>5. \A k \in Jobs \ {j} : LifeState(k)' = LifeState(k)
  BY DEF LifeState, Present
<1>6. LifeState(j)' = IF LifeState(j) = "removed" THEN "removed" ELSE s
  BY <1>1 DEF LifeState, Present, TypeOK, SqlTypeOK, Payload, Status
<1> QED  BY <1>2, <1>3, <1>4, <1>5, <1>6 DEF Life!Settle

\* Calls that change no status, and only those of a row, map to stutters.
LEMMA SameLife ==
    ASSUME HolderMatches, HolderMatches', pushed' = pushed,
           \A k \in Jobs : rows'[k].status = rows[k].status,
           \A v \in Workers : /\ Executing(v)' <=> Executing(v)
                              /\ Executing(v) => worker'[v].job = worker[v].job
    PROVE  UNCHANGED Life!lifeVars
<1>1. \A k \in Jobs : Holder(k)' = Holder(k)
  BY HoldersKept
<1>2. \A k \in Jobs : LifeState(k)' = LifeState(k)
  BY DEF LifeState, Present
<1> QED  BY <1>1, <1>2 DEF Life!lifeVars

LEMMA RemovalRemoves ==
    ASSUME TypeOK, LeaseInv, HolderMatches, HolderMatches', NEW S,
           RemoveWhere(S), worker' = worker
    PROVE  Life!Remove
<1> DEFINE T == {k \in Jobs : k \in S /\ LifeState(k) # "new"}
<1>1. \A k \in Jobs : LifeState(k)' = IF k \in T THEN "removed" ELSE LifeState(k)
  <2>1. /\ pushed' = pushed
        /\ \A k \in Jobs : IF k \in S THEN rows'[k].status = "absent" ELSE rows'[k] = rows[k]
    BY DEF RemoveWhere, UpdateWhere, NoPayload
  <2>2. \A k \in Jobs : Present(k) => k \in pushed
    BY DEF LeaseInv, Listed
  <2> SUFFICES ASSUME NEW k \in Jobs
               PROVE  LifeState(k)' = IF k \in T THEN "removed" ELSE LifeState(k)
    OBVIOUS
  <2>3. CASE k \in S
    <3>1. LifeState(k)' = IF k \in pushed THEN "removed" ELSE "new"
      BY <2>1, <2>3 DEF LifeState, Present
    <3>2. LifeState(k) = "new" <=> k \notin pushed
      <4>1. rows[k].status # "new"
        BY DEF TypeOK, SqlTypeOK, Payload, Status
      <4> QED  BY <2>2, <4>1 DEF LifeState, Present
    <3> QED  BY <2>3, <3>1, <3>2
  <2>4. CASE k \notin S
    BY <2>1, <2>4 DEF LifeState, Present
  <2> QED  BY <2>3, <2>4
<1>2. \A k \in Jobs : Holder(k)' = Holder(k)
  BY HoldersKept DEF Executing
<1>3. T \in SUBSET {k \in Jobs : LifeState(k) # "new"}
  OBVIOUS
<1> QED  BY <1>1, <1>2, <1>3 DEF Life!Remove

LEMMA LifeStep ==
    ASSUME Benign, ~DriverMayFail, TypeOK, LeaseInv, TypeOK', LeaseInv', [Next]_vars
    PROVE  [Life!LifeNext]_(Life!lifeVars)
<1>a. /\ rows \in [Jobs -> Payload]
      /\ worker \in [Workers -> [pc : Points, job : Jobs \cup {NoJob}, payload : Payload]]
      /\ pushed \subseteq Jobs
  BY DEF TypeOK, SqlTypeOK, WorkerTypeOK
<1>b. HolderMatches /\ HolderMatches'
  BY HolderIs, HolderIsNext
<1>1. CASE Dispatch
  <2>1. PICK S \in SUBSET Jobs, d \in {"none", "future"} : Insert(S, d)
    BY <1>1 DEF Dispatch, Push, PushMany
  <2>2. \A k \in S : LifeState(k) = "new"
    BY <1>a, <2>1 DEF Insert, LifeState, LeaseInv, Listed
  <2>3. \A k \in Jobs : LifeState(k)' = IF k \in S THEN "pending" ELSE LifeState(k)
    BY <1>a, <2>1 DEF Insert, LifeState, Present, NewPayload, NoPayload
  <2>4. \A k \in Jobs : Holder(k)' = Holder(k)
    BY <1>1, <1>b, HoldersKept DEF Dispatch, Executing
  <2>5. Life!Dispatch
    BY <2>2, <2>3, <2>4 DEF Life!Dispatch
  <2> QED  BY <2>5 DEF Life!LifeNext
<1>2. ASSUME NEW w \in Workers, NEW q \in Queues, PopAtomic(w, q)
      PROVE  \E j \in Jobs : Life!Take(w, j)
  BY <1>2, <1>b, ClaimTakes DEF PopAtomic, Eligible, StatusIs
<1>3. ASSUME NEW w \in Workers, PopClaim(w) PROVE \E j \in Jobs : Life!Take(w, j)
  BY <1>3, <1>b, ClaimTakes DEF PopClaim, Claim, StatusIs
<1>4. ASSUME NEW w \in Workers,
             \/ \E q \in Queues : PopSelect(w, q)
             \/ PopMiss(w) \/ Handle(w) \/ EndJob(w)
      PROVE  UNCHANGED Life!lifeVars
  <2>1. /\ rows' = rows /\ pushed' = pushed
        /\ \A v \in Workers \ {w} : worker'[v] = worker[v]
        /\ Executing(w)' <=> Executing(w)
        /\ Executing(w) => worker'[w].job = worker[w].job
    BY <1>a, <1>4
    DEF PopSelect, PopMiss, Handle, EndJob, BeginPop, EmptyPop, HandleReturns, HandleRaises,
        FinishJob, Executing, Idle
  <2>2. \A v \in Workers : /\ Executing(v)' <=> Executing(v)
                           /\ Executing(v) => worker'[v].job = worker[v].job
    BY <2>1 DEF Executing
  <2> QED  BY <1>b, <2>1, <2>2, SameLife
<1>5. ASSUME NEW w \in Workers, CompleteJob(w) \/ ReleaseJob(w) \/ FailJob(w)
      PROVE  \E j \in Jobs, s \in {"completed", "pending", "failed"} : Life!Settle(w, j, s)
  <2>1. PICK j : j = worker[w].job
    OBVIOUS
  <2>2. Executing(w) /\ ~Executing(w)' /\ \A v \in Workers \ {w} : worker'[v] = worker[v]
    BY <1>a, <1>5
    DEF CompleteJob, ReleaseJob, FailJob, RecordCompletion, RecordFailure, Executing, Idle
  <2>3. j \in Jobs
    BY <1>a, <2>1, <2>2 DEF LeaseInv, Lease, Holds, Executing
  <2>4. \E s \in {"completed", "pending", "failed"} :
           /\ pushed' = pushed
           /\ \A k \in Jobs \ {j} : rows'[k] = rows[k]
           /\ rows'[j].status \in {s, "absent"}
           /\ Present(j)' <=> Present(j)
    BY <1>a, <1>5, <2>1, <2>3, ReleaseEffect, SetStatusEffect
    DEF CompleteJob, Complete, ReleaseJob, FailJob, Fail, Status
  <2> QED  BY <1>b, <2>1, <2>2, <2>3, <2>4, OutcomeSettles DEF Status
<1>6. ASSUME NEW w \in Workers, WorkerDies(w)
      PROVE  UNCHANGED Life!lifeVars \/ \E j \in Jobs : Life!Lose(j)
  <2>1. /\ rows' = rows /\ pushed' = pushed /\ ~Executing(w)'
        /\ \A v \in Workers \ {w} : worker'[v] = worker[v]
    BY <1>a, <1>6 DEF WorkerDies, Crash, Executing, Idle, Dead
  <2>2. CASE ~Executing(w)
    BY <1>b, <2>1, <2>2, SameLife DEF Executing
  <2>3. CASE Executing(w)
    <3>1. PICK j \in Jobs : worker[w].job = j
      BY <1>a, <2>3 DEF LeaseInv, Lease, Holds, Executing
    <3>2. Holder(j) = w /\ Holder(j) # NoJob
      BY <1>b, <2>3, <3>1, SqlWorkersAssumption DEF HolderMatches
    <3>3. Holder(j)' = NoJob
      <4>1. \A v \in Workers : ~(Executing(v) /\ worker[v].job = j)'
        BY <1>a, <2>1, <2>3, <3>1 DEF LeaseInv, Lease, Holds, Executing
      <4> QED  BY <1>b, <4>1 DEF HolderMatches
    <3>4. \A k \in Jobs \ {j} : Holder(k)' = Holder(k)
      BY <1>b, <2>1, <2>3, <3>1, HoldersKept DEF Executing
    <3>5. \A k \in Jobs : LifeState(k)' = LifeState(k)
      BY <2>1 DEF LifeState, Present
    <3> QED  BY <3>2, <3>3, <3>4, <3>5 DEF Life!Lose
  <2> QED  BY <2>2, <2>3
<1>7. CASE PollDelayed
  BY <1>a, <1>b, <1>7, SameLife
  DEF PollDelayed, PopDelayed, UpdateWhere, StatusIs, Payload, Executing
<1>8. ASSUME NEW q \in Queues, RecoverStuck(q) PROVE Life!Recover
  <2>1. /\ pushed' = pushed /\ worker' = worker
        /\ \A k \in Jobs : k \notin Stuck(q) => rows'[k] = rows[k]
        /\ \A k \in Stuck(q) : rows[k].status = "processing" /\ rows'[k].status = "pending"
    BY <1>a, <1>8
    DEF RecoverStuck, RequeueStuck, UpdateWhere, Stuck, StatusIs, Requeued, Payload
  <2>2. \A k \in Jobs : LifeState(k)' = IF k \in Stuck(q) THEN "pending" ELSE LifeState(k)
    BY <2>1 DEF LifeState, Present
  <2>3. \A k \in Jobs : Holder(k)' = Holder(k)
    BY <1>b, <2>1, HoldersKept DEF Executing
  <2>4. \A k \in Stuck(q) : k \in Jobs /\ LifeState(k) = "processing" /\ Holder(k) = NoJob
    <3> SUFFICES ASSUME NEW k \in Stuck(q)
                 PROVE  k \in Jobs /\ LifeState(k) = "processing" /\ Holder(k) = NoJob
      OBVIOUS
    <3>1. k \in Jobs /\ \A v \in Workers : ~(Executing(v) /\ worker[v].job = k)
      BY DEF Stuck, StatusIs, LeaseInv, Lease, Holds, Executing
    <3> QED  BY <1>b, <2>1, <3>1 DEF HolderMatches, LifeState, Present
  <2> QED  BY <2>2, <2>3, <2>4 DEF Life!Recover
<1>9. ASSUME NEW r \in Retriers, RetryFetch(r) PROVE UNCHANGED Life!lifeVars
  BY <1>b, <1>9, SameLife DEF RetryFetch, Executing
<1>10. ASSUME NEW r \in Retriers, NEW j \in Jobs, RetryRelease(r, j)
       PROVE  UNCHANGED Life!lifeVars \/ Life!Retry(j)
  <2>1. /\ pushed' = pushed /\ worker' = worker
        /\ \A k \in Jobs : k # j => rows'[k] = rows[k]
        /\ rows'[j].status \in {"pending", "absent"}
        /\ Present(j)' <=> Present(j)
    BY <1>a, <1>10, ReleaseEffect DEF RetryRelease
  <2>2. rows[j].status \in {"failed", "absent"}
    BY <1>10 DEF RetryRelease, LeaseInv, Listed
  <2>3. CASE rows[j].status = "absent"
    BY <1>b, <2>1, <2>3, SameLife DEF Present, Executing
  <2>4. CASE rows[j].status = "failed"
    <3>1. LifeState(j) = "failed" /\ LifeState(j)' = "pending"
      BY <2>1, <2>4 DEF LifeState, Present
    <3>2. \A k \in Jobs \ {j} : LifeState(k)' = LifeState(k)
      BY <2>1 DEF LifeState, Present
    <3>3. \A k \in Jobs : Holder(k)' = Holder(k)
      BY <1>b, <2>1, HoldersKept DEF Executing
    <3> QED  BY <3>1, <3>2, <3>3 DEF Life!Retry
  <2> QED  BY <2>2, <2>3, <2>4
<1>11. CASE Administer
  <2>1. CASE \E j \in Jobs : Promote(j)
    <3>1. pushed' = pushed /\ \A k \in Jobs : rows'[k].status = rows[k].status
      BY <1>a, <2>1 DEF Promote, UpdateWhere, Payload
    <3> QED  BY <1>b, <1>11, <3>1, SameLife DEF Administer, Executing, Life!LifeNext
  <2>2. ASSUME NEW S, RemoveWhere(S) PROVE Life!Remove
    BY <1>b, <1>11, <2>2, RemovalRemoves DEF Administer
  <2> QED
    BY <1>11, <2>1, <2>2
    DEF Administer, Delete, Prune, Flush, EmergencyCleanup, Life!LifeNext
<1>12. CASE TimePasses
  <2>1. pushed' = pushed /\ \A k \in Jobs : rows'[k].status = rows[k].status
    BY <1>a, <1>12 DEF TimePasses, DelayElapses, ClaimAges, UpdateWhere, Payload
  <2> QED  BY <1>b, <1>12, <2>1, SameLife DEF TimePasses, Executing
<1>13. CASE UNCHANGED vars
  BY <1>b, <1>13, SameLife DEF vars, Executing
<1>14. ASSUME NEW w \in Workers, WorkerStep(w)
       PROVE  [Life!LifeNext]_(Life!lifeVars)
  <2>1. ~DriverError(w)
    BY DEF DriverError
  <2>2. CASE \/ \E q \in Queues : PopSelect(w, q)
             \/ PopMiss(w) \/ Handle(w) \/ EndJob(w)
    BY <1>4, <2>2
  <2>3. CASE (\E q \in Queues : PopAtomic(w, q)) \/ PopClaim(w)
    BY <1>2, <1>3, <2>3 DEF Life!LifeNext
  <2>4. CASE CompleteJob(w) \/ ReleaseJob(w) \/ FailJob(w)
    BY <1>5, <2>4 DEF Life!LifeNext
  <2> QED  BY <1>14, <2>1, <2>2, <2>3, <2>4 DEF WorkerStep
<1>15. CASE SupervisorStep
  BY <1>7, <1>8, <1>15 DEF SupervisorStep, Life!LifeNext
<1>16. ASSUME NEW r \in Retriers, RetrierStep(r)
       PROVE  [Life!LifeNext]_(Life!lifeVars)
  BY <1>9, <1>10, <1>16 DEF RetrierStep, Life!LifeNext
<1>17. ASSUME NEW w \in Workers, WorkerDies(w)
       PROVE  [Life!LifeNext]_(Life!lifeVars)
  BY <1>6, <1>17 DEF Life!LifeNext
<1> QED
  BY <1>1, <1>11, <1>12, <1>13, <1>14, <1>15, <1>16, <1>17 DEF Next

\* Workers, recovery, retries and administration on a SQL driver do to a job
\* only what its life cycle allows, with timely recovery, one retrier and no
\* driver call that fails once complete() is recorded.
THEOREM SqlImplementsLifecycle ==
    ASSUME Benign, ~DriverMayFail
    PROVE  Spec => ImplementsLifecycle
<1>1. Init => Life!LifeInit
  BY DEF Init, SqlInit, WorkerInit, NoPayload, Idle, LifeState, Present, Holder, Executing,
         Life!LifeInit
<1>2. TypeOK /\ LeaseInv /\ (TypeOK /\ LeaseInv)' /\ [Next]_vars
         => [Life!LifeNext]_(Life!lifeVars)
  BY LifeStep
<1>3. Spec => [](TypeOK /\ LeaseInv)
  BY LeaseInvariant
<1> QED  BY <1>1, <1>2, <1>3, PTL DEF Spec, ImplementsLifecycle, Life!LifeSpec

-----------------------------------------------------------------------------
(***************************************************************************)
(* What holds under everything the environment does: premature recovery,   *)
(* several retriers, driver errors, crashes.  First how often a job can be *)
(* claimed, then what no step does to a removed, a delayed and, in the     *)
(* benign case, a completed job.                                           *)
(***************************************************************************)

LEMMA ChancesFinite == \A j : IsFiniteSet(Chances(j)) /\ Cardinality(Chances(j)) \in Nat
<1> SUFFICES ASSUME NEW j PROVE IsFiniteSet(Chances(j)) /\ Cardinality(Chances(j)) \in Nat
  OBVIOUS
<1>1. Chances(j) \in SUBSET Workers /\ IsFiniteSet(Workers)
  BY SqlWorkersAssumption DEF Chances
<1>2. IsFiniteSet(Chances(j))
  BY <1>1, FS_Subset
<1> QED  BY <1>2, FS_CardinalityType

LEMMA EarlyClaimsNat == \A n \in Nat : EarlyClaims(n) \in Nat
BY MaxAttemptsAssumption DEF EarlyClaims

\* A step that hands out no new chance leaves a job within its budget if it
\* makes the job pending only when it also grants it a run.
LEMMA BudgetKept ==
    ASSUME TypeOK, TypeOK', NEW j \in Jobs, Present(j), Budgeted(j),
           Chances(j)' \subseteq Chances(j),
           rows'[j].attempts = rows[j].attempts,
           \/ grants'[j] = grants[j] + 1
           \/ grants'[j] = grants[j] /\ (rows'[j].status = "pending" => rows[j].status = "pending")
    PROVE  Budgeted(j)'
<1>1. Cardinality(Chances(j)') <= Cardinality(Chances(j)) /\ Cardinality(Chances(j)) \in Nat
      /\ Cardinality(Chances(j)') \in Nat
  <2>1. IsFiniteSet(Chances(j)) /\ Chances(j)' \in SUBSET Chances(j)
    BY ChancesFinite
  <2>2. Cardinality(Chances(j)') <= Cardinality(Chances(j)) /\ IsFiniteSet(Chances(j)')
    BY <2>1, FS_Subset
  <2> QED  BY <2>1, <2>2, FS_CardinalityType
<1> DEFINE e == EarlyClaims(rows[j].attempts)
           a == rows[j].attempts
<1>2. a \in Nat /\ e \in Nat /\ grants[j] \in Nat /\ MaxAttempts \in Nat
  BY EarlyClaimsNat, MaxAttemptsAssumption DEF TypeOK, SqlTypeOK, Payload
<1>3. EarlyClaims(rows'[j].attempts) = e
  OBVIOUS
<1>4. a + (IF rows[j].status = "pending" THEN 1 ELSE 0) + Cardinality(Chances(j)) + e
         <= MaxAttempts + grants[j]
  BY DEF Budgeted
<1>5. a + (IF rows'[j].status = "pending" THEN 1 ELSE 0) + Cardinality(Chances(j)') + e
         <= MaxAttempts + grants'[j]
  <2> HIDE DEF e, a
  <2> QED  BY <1>1, <1>2, <1>4
<1> QED  BY <1>3, <1>5 DEF Budgeted, EarlyClaims

\* A job of which nothing changed but that workers dropped it.
LEMMA BudgetUntouched ==
    ASSUME TypeOK, TypeOK', NEW j \in Jobs, Budgeted(j),
           Chances(j)' \subseteq Chances(j), rows'[j] = rows[j], grants'[j] = grants[j]
    PROVE  Budgeted(j)'
<1>1. CASE Present(j)
  BY <1>1, BudgetKept
<1>2. CASE ~Present(j)
  BY <1>2 DEF Present, Budgeted
<1> QED  BY <1>1, <1>2

LEMMA SoleStatement == TypeOK /\ OneStatement /\ [Next]_vars => OneStatement'
<1> SUFFICES ASSUME TypeOK, OneStatement, [Next]_vars, AtomicPop, NEW w \in Workers
             PROVE  worker'[w].pc # "popping"
  BY DEF OneStatement
<1>1. worker[w].pc # "popping"
  BY DEF OneStatement
<1>2. ASSUME NEW v \in Workers, WorkerStep(v) \/ WorkerDies(v)
      PROVE  worker'[w].pc # "popping"
  BY <1>1, <1>2
  DEF WorkerStep, WorkerDies, PopAtomic, PopSelect, PopClaim, PopMiss, Handle, CompleteJob,
      EndJob, DriverError, ReleaseJob, FailJob, StartJob, EmptyPop, HandleReturns,
      HandleRaises, RecordCompletion, FinishJob, DriverRaises, RecordFailure, Crash,
      Idle, Dead, TypeOK, WorkerTypeOK
<1>3. CASE worker' = worker
  BY <1>1, <1>3
<1> QED
  BY <1>2, <1>3
  DEF Next, vars, Dispatch, SupervisorStep, PollDelayed, RecoverStuck, RetrierStep,
      RetryFetch, RetryRelease, Administer, TimePasses

LEMMA KnownStep == TypeOK /\ KnownJobs /\ OneStatement /\ [Next]_vars => KnownJobs'
<1> SUFFICES ASSUME TypeOK, KnownJobs, OneStatement, [Next]_vars PROVE KnownJobs'
  OBVIOUS
<1>0. /\ rows \in [Jobs -> Payload]
      /\ worker \in [Workers -> [pc : Points, job : Jobs \cup {NoJob}, payload : Payload]]
  BY DEF TypeOK, SqlTypeOK, WorkerTypeOK
<1>1. CASE Dispatch
  BY <1>0, <1>1
  DEF Dispatch, Push, PushMany, Insert, KnownJobs, Present, Holds
<1>2. ASSUME NEW w \in Workers, NEW j \in Jobs, NEW p, Claim(j), StartJob(w, j, p)
      PROVE  KnownJobs'
  BY <1>0, <1>2 DEF Claim, UpdateWhere, StatusIs, StartJob, KnownJobs, Present, Holds
<1>3. ASSUME UNCHANGED pushed,
             \A j \in Jobs : Present(j)' => Present(j),
             \A w \in Workers : \A j \in Jobs : Holds(w, j)' => Holds(w, j)
      PROVE  KnownJobs'
  BY <1>3 DEF KnownJobs
<1>4. ASSUME NEW w \in Workers, WorkerStep(w) \/ WorkerDies(w)
      PROVE  KnownJobs'
  <2>1. CASE \/ PopMiss(w) \/ Handle(w) \/ EndJob(w) \/ DriverError(w) \/ WorkerDies(w)
             \/ \E q \in Queues : PopSelect(w, q)
    BY <1>0, <2>1
    DEF PopMiss, Handle, EndJob, DriverError, WorkerDies, PopSelect, BeginPop, EmptyPop,
        HandleReturns, HandleRaises, FinishJob, DriverRaises, Crash, Idle, Dead,
        KnownJobs, Present, Holds
  <2>2. CASE \E q \in Queues : PopAtomic(w, q)
    BY <1>2, <2>2 DEF PopAtomic, Eligible, StatusIs
  <2>3. CASE PopClaim(w)
    BY <1>2, <2>3 DEF PopClaim, Claim, StatusIs
  <2>4. CASE CompleteJob(w)
    BY <1>0, <2>4
    DEF CompleteJob, Complete, SetStatus, ById, UpdateWhere, RecordCompletion,
        KnownJobs, Present, Holds
  <2>5. CASE FailJob(w)
    BY <1>0, <2>5
    DEF FailJob, Fail, SetStatus, ById, UpdateWhere, RecordFailure, Idle,
        KnownJobs, Present, Holds
  <2>6. CASE ReleaseJob(w)
    BY <1>0, <2>6
    DEF ReleaseJob, Release, ById, UpdateWhere, RecordFailure, Idle,
        KnownJobs, Present, Holds
  <2> QED  BY <1>4, <2>1, <2>2, <2>3, <2>4, <2>5, <2>6 DEF WorkerStep
<1>5. CASE SupervisorStep
  BY <1>0, <1>5
  DEF SupervisorStep, PollDelayed, PopDelayed, RecoverStuck, RequeueStuck, Stuck,
      UpdateWhere, StatusIs, KnownJobs, Present, Holds
<1>6. ASSUME NEW r \in Retriers, RetrierStep(r) PROVE KnownJobs'
  BY <1>0, <1>6
  DEF RetrierStep, RetryFetch, RetryRelease, Release, ById, UpdateWhere,
      KnownJobs, Present, Holds
<1>7. CASE Administer
  <2>1. CASE \E j \in Jobs : Promote(j)
    BY <1>0, <1>7, <2>1
    DEF Administer, Promote, UpdateWhere, StatusIs, KnownJobs, Present, Holds
  <2>2. ASSUME NEW S, RemoveWhere(S) PROVE KnownJobs'
    BY <1>0, <1>7, <2>2
    DEF Administer, RemoveWhere, UpdateWhere, NoPayload, KnownJobs, Present, Holds
  <2> QED
    BY <1>7, <2>1, <2>2 DEF Administer, Delete, Prune, Flush, EmergencyCleanup
<1>8. CASE TimePasses
  BY <1>0, <1>8
  DEF TimePasses, DelayElapses, ClaimAges, UpdateWhere, Payload, KnownJobs, Present, Holds
<1>9. CASE UNCHANGED vars
  BY <1>9 DEF vars, KnownJobs, Present, Holds
<1> QED
  BY <1>1, <1>4, <1>5, <1>6, <1>7, <1>8, <1>9 DEF Next

\* A claim: the pending run becomes the claim, and the claimer is a chance
\* only if an early claim was left.
LEMMA ClaimBudget ==
    ASSUME TypeOK, TypeOK', \A j \in Jobs : Budgeted(j),
           NEW w \in Workers, NEW j \in Jobs, worker[w].pc = "idle",
           Claim(j), StartJob(w, j, Claimed(rows[j])), grants' = grants
    PROVE  \A k \in Jobs : Budgeted(k)'
<1>0. /\ rows \in [Jobs -> Payload]
      /\ worker \in [Workers -> [pc : Points, job : Jobs \cup {NoJob}, payload : Payload]]
      /\ grants[j] \in Nat
  BY DEF TypeOK, SqlTypeOK, WorkerTypeOK
<1>1. /\ rows[j].status = "pending" /\ rows'[j].status = "processing"
      /\ rows'[j].attempts = rows[j].attempts + 1 /\ rows[j].attempts \in Nat
      /\ \A k \in Jobs \ {j} : rows'[k] = rows[k]
  BY <1>0 DEF Claim, StatusIs, UpdateWhere, Claimed, Payload
<1>2. /\ worker'[w].job = j /\ worker'[w].payload.attempts = rows[j].attempts + 1
      /\ \A v \in Workers \ {w} : worker'[v] = worker[v]
  BY <1>0 DEF StartJob, Claimed, Payload
<1>3. \A k \in Jobs \ {j} : Budgeted(k)'
  <2> SUFFICES ASSUME NEW k \in Jobs \ {j} PROVE Budgeted(k)'
    OBVIOUS
  <2>1. Chances(k)' \subseteq Chances(k)
    BY <1>2 DEF Chances, Holds
  <2> QED  BY <1>1, <2>1, BudgetUntouched
<1>4. Budgeted(j)'
  <2> DEFINE n == rows[j].attempts
             C == Cardinality(Chances(j))
             D == Cardinality(Chances(j)')
  <2>1. Chances(j)' \in SUBSET (Chances(j) \cup {w})
    BY <1>2 DEF Chances, Holds
  <2>2. ~ShouldRetry(n + 1) => Chances(j)' \in SUBSET Chances(j)
    BY <1>2 DEF Chances, Holds
  <2>3. /\ C \in Nat /\ D \in Nat /\ D <= C + 1
        /\ ~ShouldRetry(n + 1) => D <= C
    <3>1. IsFiniteSet(Chances(j)) /\ C \in Nat
      BY ChancesFinite
    <3>2. IsFiniteSet(Chances(j) \cup {w}) /\ Cardinality(Chances(j) \cup {w}) \in {C, C + 1}
      BY <3>1, FS_AddElement
    <3>3. D <= Cardinality(Chances(j) \cup {w}) /\ D \in Nat
      BY <2>1, <3>2, FS_Subset, FS_CardinalityType
    <3>4. ~ShouldRetry(n + 1) => D <= C
      BY <2>2, <3>1, FS_Subset
    <3> QED  BY <3>1, <3>2, <3>3, <3>4
  <2>4. n + 1 + C + EarlyClaims(n) <= MaxAttempts + grants[j]
    BY <1>1 DEF Budgeted, Present
  <2>5. (n + 1) + D + EarlyClaims(n + 1) <= MaxAttempts + grants[j]
    <3>1. n \in Nat /\ grants[j] \in Nat /\ MaxAttempts \in Nat \ {0}
      BY <1>0, <1>1, MaxAttemptsAssumption
    <3> HIDE DEF n, C, D
    <3>2. CASE n + 1 < MaxAttempts
      BY <2>3, <2>4, <3>1, <3>2 DEF EarlyClaims
    <3>3. CASE ~(n + 1 < MaxAttempts)
      BY <2>3, <2>4, <3>1, <3>3 DEF EarlyClaims, ShouldRetry
    <3> QED  BY <3>2, <3>3
  <2>6. (n + 1) + 0 + D + EarlyClaims(n + 1) <= MaxAttempts + grants[j]
    <3>1. n \in Nat /\ D \in Nat /\ EarlyClaims(n + 1) \in Nat
      BY <1>1, <2>3, EarlyClaimsNat
    <3> QED  BY <2>5, <3>1
  <2> QED  BY <1>1, <2>6 DEF Budgeted, Present, EarlyClaims
<1> QED  BY <1>3, <1>4

\* A release: the chance its worker was becomes the pending run.
LEMMA ReleaseBudget ==
    ASSUME TypeOK, TypeOK', \A j \in Jobs : Budgeted(j), NEW w \in Workers, ReleaseJob(w)
    PROVE  \A k \in Jobs : Budgeted(k)'
<1>0. /\ rows \in [Jobs -> Payload]
      /\ worker \in [Workers -> [pc : Points, job : Jobs \cup {NoJob}, payload : Payload]]
      /\ grants \in [Jobs -> Nat]
  BY DEF TypeOK, SqlTypeOK, WorkerTypeOK
<1> SUFFICES ASSUME NEW k \in Jobs PROVE Budgeted(k)'
  OBVIOUS
<1>1. PICK j : j = worker[w].job
  OBVIOUS
<1>2. /\ \A i \in Jobs : i # j => rows'[i] = rows[i]
      /\ k = j => rows'[j].attempts = rows[j].attempts
      /\ k = j => (Present(j)' <=> Present(j))
      /\ grants' = grants
  <2>1. PICK d \in RetryDelays : Release(j, d)
    BY <1>1 DEF ReleaseJob
  <2>2. rows' = [i \in Jobs |-> IF i \in ById(j)
                    THEN [rows[i] EXCEPT !.status = "pending", !.delay = d] ELSE rows[i]]
    BY <2>1 DEF Release, UpdateWhere
  <2>3. \A i \in Jobs : i # j => rows'[i] = rows[i]
    BY <2>2 DEF ById
  <2>4. k = j => /\ rows'[j].attempts = rows[j].attempts
                 /\ (Present(j)' <=> Present(j))
    BY <1>0, <2>2 DEF ById, Present, Payload
  <2> QED  BY <2>3, <2>4 DEF ReleaseJob, Aside
<1>3. worker[w].pc = "raised" /\ ShouldRetry(worker[w].payload.attempts)
      /\ worker' = [worker EXCEPT ![w] = Idle]
  BY <1>0 DEF ReleaseJob, RecordFailure, ShouldRetry
<1>4. Chances(k)' \subseteq Chances(k)
  BY <1>0, <1>3 DEF Chances, Holds, Idle
<1>5. CASE k # j
  BY <1>2, <1>4, <1>5, BudgetUntouched
<1>6. CASE k = j /\ Present(k)
  <2>1. Chances(k)' \in SUBSET (Chances(k) \ {w}) /\ w \in Chances(k)
    BY <1>0, <1>1, <1>3, <1>6 DEF Chances, Holds, Idle
  <2> DEFINE C == Cardinality(Chances(k))
             D == Cardinality(Chances(k)')
  <2>2. C \in Nat /\ D \in Nat /\ D <= C - 1
    <3>1. IsFiniteSet(Chances(k)) /\ C \in Nat
      BY ChancesFinite
    <3>2. IsFiniteSet(Chances(k) \ {w}) /\ Cardinality(Chances(k) \ {w}) = C - 1
      BY <2>1, <3>1, FS_RemoveElement
    <3> QED  BY <2>1, <3>1, <3>2, FS_Subset, FS_CardinalityType
  <2> DEFINE n == rows[k].attempts
             e == EarlyClaims(n)
             p == IF rows[k].status = "pending" THEN 1 ELSE 0
             p2 == IF rows'[k].status = "pending" THEN 1 ELSE 0
  <2>3. n + p + C + e <= MaxAttempts + grants[k]
    BY <1>6 DEF Budgeted
  <2>4. /\ n \in Nat /\ e \in Nat /\ grants[k] \in Nat /\ MaxAttempts \in Nat
        /\ p \in {0, 1} /\ p2 \in {0, 1}
    BY <1>0, EarlyClaimsNat, MaxAttemptsAssumption DEF Payload
  <2>5. n + p2 + D + e <= MaxAttempts + grants[k]
    <3> HIDE DEF n, p, C, e, p2, D
    <3> QED  BY <2>2, <2>3, <2>4
  <2> QED  BY <1>2, <1>6, <2>5 DEF Budgeted, EarlyClaims
<1>7. CASE k = j /\ ~Present(k)
  BY <1>2, <1>7 DEF Budgeted
<1> QED  BY <1>5, <1>6, <1>7

LEMMA BudgetStep ==
    AtomicPop /\ TypeOK /\ BudgetInv /\ [Next]_vars => \A j \in Jobs : Budgeted(j)'
<1> SUFFICES ASSUME AtomicPop, TypeOK, BudgetInv, [Next]_vars PROVE \A j \in Jobs : Budgeted(j)'
  OBVIOUS
<1>0. /\ rows \in [Jobs -> Payload]
      /\ worker \in [Workers -> [pc : Points, job : Jobs \cup {NoJob}, payload : Payload]]
      /\ grants \in [Jobs -> Nat]
      /\ TypeOK'
      /\ \A j \in Jobs : Budgeted(j)
      /\ KnownJobs /\ OneStatement
  BY TypeStep DEF TypeOK, SqlTypeOK, WorkerTypeOK, BudgetInv
\* Steps of the environment, which leave the workers alone.
<1>1. ASSUME UNCHANGED worker PROVE \A j : Chances(j)' = Chances(j)
  BY <1>1 DEF Chances, Holds
<1>2. CASE Dispatch
  <2>1. PICK S \in SUBSET Jobs, d \in {"none", "future"} : Insert(S, d)
    BY <1>2 DEF Dispatch, Push, PushMany
  <2> SUFFICES ASSUME NEW j \in Jobs PROVE Budgeted(j)'
    OBVIOUS
  <2>2. Chances(j)' = Chances(j) /\ grants' = grants
    BY <1>1, <1>2 DEF Dispatch
  <2>3. CASE j \notin S
    BY <1>0, <2>1, <2>2, <2>3, BudgetUntouched DEF Insert
  <2>4. CASE j \in S
    <3>1. Chances(j)' = {}
      BY <1>0, <2>1, <2>2, <2>4 DEF Insert, KnownJobs, Chances
    <3>2. rows'[j].attempts = 0 /\ Cardinality(Chances(j)') = 0
      BY <2>1, <2>4, <3>1, FS_EmptySet DEF Insert, NewPayload, NoPayload
    <3>3. 0 + (IF rows'[j].status = "pending" THEN 1 ELSE 0) + 0 + EarlyClaims(0)
             <= MaxAttempts + grants'[j]
      BY <1>0, <2>2, MaxAttemptsAssumption DEF EarlyClaims
    <3> QED  BY <3>2, <3>3 DEF Budgeted, EarlyClaims
  <2> QED  BY <2>3, <2>4
<1>3. CASE PollDelayed
  <2> SUFFICES ASSUME NEW j \in Jobs, Present(j) PROVE Budgeted(j)'
    BY <1>0, <1>3 DEF PollDelayed, PopDelayed, UpdateWhere, StatusIs, Present, Budgeted
  <2> QED
    BY <1>0, <1>1, <1>3, BudgetKept
    DEF PollDelayed, PopDelayed, UpdateWhere, StatusIs, Payload
<1>4. ASSUME NEW q \in Queues, RecoverStuck(q) PROVE \A j \in Jobs : Budgeted(j)'
  <2> SUFFICES ASSUME NEW j \in Jobs PROVE Budgeted(j)'
    OBVIOUS
  <2>1. Chances(j)' = Chances(j)
    BY <1>1, <1>4 DEF RecoverStuck
  <2>2. CASE j \in Stuck(q)
    <3>1. Present(j) /\ rows'[j].attempts = rows[j].attempts /\ grants'[j] = grants[j] + 1
      BY <1>0, <1>4, <2>2
      DEF RecoverStuck, RequeueStuck, UpdateWhere, Grant, Requeued, Stuck, StatusIs,
          Present, Payload
    <3> QED  BY <1>0, <2>1, <3>1, BudgetKept
  <2>3. CASE j \notin Stuck(q)
    BY <1>0, <1>4, <2>1, <2>3, BudgetUntouched
    DEF RecoverStuck, RequeueStuck, UpdateWhere, Grant
  <2> QED  BY <2>2, <2>3
<1>5. ASSUME NEW r \in Retriers, RetryFetch(r) PROVE \A j \in Jobs : Budgeted(j)'
  BY <1>0, <1>1, <1>5, BudgetUntouched DEF RetryFetch
<1>6. ASSUME NEW r \in Retriers, NEW i \in Jobs, RetryRelease(r, i)
      PROVE  \A j \in Jobs : Budgeted(j)'
  <2> SUFFICES ASSUME NEW j \in Jobs PROVE Budgeted(j)'
    OBVIOUS
  <2>1. Chances(j)' = Chances(j)
    BY <1>1, <1>6 DEF RetryRelease
  <2>2. CASE j = i /\ Present(j)
    <3>1. rows'[j].attempts = rows[j].attempts /\ grants'[j] = grants[j] + 1
      BY <1>0, <1>6, <2>2 DEF RetryRelease, Release, ById, UpdateWhere, Grant, Payload
    <3> QED  BY <1>0, <2>1, <2>2, <3>1, BudgetKept
  <2>3. CASE j # i
    BY <1>0, <1>6, <2>1, <2>3, BudgetUntouched
    DEF RetryRelease, Release, ById, UpdateWhere, Grant
  <2>4. CASE j = i /\ ~Present(j)
    <3>1. rows'[j] = rows[j]
      BY <1>0, <1>6, <2>4 DEF RetryRelease, Release, ById, UpdateWhere
    <3> QED  BY <2>4, <3>1 DEF Budgeted, Present
  <2> QED  BY <2>2, <2>3, <2>4
<1>7. CASE Administer
  <2>1. grants' = grants /\ \A j : Chances(j)' = Chances(j)
    BY <1>1, <1>7 DEF Administer
  <2>2. ASSUME NEW i \in Jobs, Promote(i) PROVE \A j \in Jobs : Budgeted(j)'
    <3> SUFFICES ASSUME NEW j \in Jobs PROVE Budgeted(j)'
      OBVIOUS
    <3>1. CASE j = i
      BY <1>0, <2>1, <2>2, <3>1, BudgetKept DEF Promote, UpdateWhere, StatusIs, Present, Payload
    <3>2. CASE j # i
      BY <1>0, <2>1, <2>2, <3>2, BudgetUntouched DEF Promote, UpdateWhere
    <3> QED  BY <3>1, <3>2
  <2>3. ASSUME NEW S, RemoveWhere(S) PROVE \A j \in Jobs : Budgeted(j)'
    <3> SUFFICES ASSUME NEW j \in Jobs PROVE Budgeted(j)'
      OBVIOUS
    <3>1. CASE j \in S
      BY <2>3, <3>1 DEF RemoveWhere, UpdateWhere, NoPayload, Budgeted, Present
    <3>2. CASE j \notin S
      BY <1>0, <2>1, <2>3, <3>2, BudgetUntouched DEF RemoveWhere, UpdateWhere
    <3> QED  BY <3>1, <3>2
  <2> QED  BY <1>7, <2>2, <2>3 DEF Administer, Delete, Prune, Flush, EmergencyCleanup
<1>8. CASE TimePasses
  <2>1. grants' = grants /\ \A j : Chances(j)' = Chances(j)
    BY <1>1, <1>8 DEF TimePasses
  <2> SUFFICES ASSUME NEW j \in Jobs PROVE Budgeted(j)'
    OBVIOUS
  <2>2. /\ rows'[j].attempts = rows[j].attempts /\ rows'[j].status = rows[j].status
    BY <1>0, <1>8 DEF TimePasses, DelayElapses, ClaimAges, UpdateWhere, Payload
  <2> QED  BY <1>0, <2>1, <2>2, BudgetKept DEF Budgeted, Present
\* Steps of a worker.
<1>9. ASSUME NEW w \in Workers, WorkerStep(w) \/ WorkerDies(w)
      PROVE  \A j \in Jobs : Budgeted(j)'
  <2>1. CASE \E q \in Queues : PopAtomic(w, q)
    <3>1. PICK j \in Jobs : Claim(j) /\ StartJob(w, j, Claimed(rows[j])) /\ grants' = grants
      BY <2>1 DEF PopAtomic, Eligible, StatusIs, Aside
    <3>2. worker[w].pc = "idle"
      BY <1>0, <3>1 DEF StartJob, OneStatement
    <3> QED  BY <1>0, <3>1, <3>2, ClaimBudget
  <2>2. ASSUME UNCHANGED <<rows, grants>>, \A j \in Jobs : Chances(j)' \subseteq Chances(j)
        PROVE  \A j \in Jobs : Budgeted(j)'
    BY <1>0, <2>2, BudgetUntouched
  <2>3. CASE \/ PopMiss(w) \/ Handle(w) \/ EndJob(w) \/ DriverError(w) \/ WorkerDies(w)
             \/ \E q \in Queues : PopSelect(w, q)
    <3>1. \A j \in Jobs : Chances(j)' \subseteq Chances(j)
      BY <1>0, <2>3
      DEF PopMiss, Handle, EndJob, DriverError, WorkerDies, PopSelect, BeginPop, EmptyPop,
          HandleReturns, HandleRaises, FinishJob, DriverRaises, Crash, Idle, Dead,
          Chances, Holds
    <3> QED
      BY <2>2, <2>3, <3>1
      DEF PopMiss, Handle, EndJob, DriverError, WorkerDies, PopSelect, Aside
  <2>4. CASE PopClaim(w)
    BY <1>0, <2>4 DEF PopClaim, OneStatement
  <2>5. CASE CompleteJob(w) \/ FailJob(w)
    <3> SUFFICES ASSUME NEW j \in Jobs PROVE Budgeted(j)'
      OBVIOUS
    <3>1. Chances(j)' \subseteq Chances(j) /\ grants' = grants
      BY <1>0, <2>5
      DEF CompleteJob, FailJob, RecordCompletion, RecordFailure, Aside, Idle, Chances, Holds
    <3>2. PICK st \in {"completed", "failed"} : SetStatus(worker[w].job, st)
      BY <2>5 DEF CompleteJob, FailJob, Complete, Fail
    <3>3. \/ rows'[j] = rows[j]
          \/ Present(j) /\ rows'[j].attempts = rows[j].attempts /\ rows'[j].status # "pending"
      BY <1>0, <3>2 DEF SetStatus, ById, UpdateWhere, Payload
    <3> QED  BY <1>0, <3>1, <3>3, BudgetUntouched, BudgetKept
  <2>6. CASE ReleaseJob(w)
    BY <1>0, <2>6, ReleaseBudget
  <2> QED  BY <1>9, <2>1, <2>3, <2>4, <2>5, <2>6 DEF WorkerStep
<1>10. CASE UNCHANGED vars
  BY <1>0, <1>1, <1>10, BudgetUntouched DEF vars
<1> QED
  BY <1>2, <1>3, <1>4, <1>5, <1>6, <1>7, <1>8, <1>9, <1>10
  DEF Next, SupervisorStep, RetrierStep

\* With one-statement claims no job is claimed more often than its attempts
\* and what was explicitly given back to it allow.
THEOREM AttemptsAreBounded ==
    ASSUME AtomicPop
    PROVE  Spec => []AttemptBudget
<1>1. Init => BudgetInv
  BY DEF Init, SqlInit, WorkerInit, Idle, NoPayload, BudgetInv, KnownJobs, OneStatement,
         Budgeted, Present, Holds
<1>2. TypeOK /\ BudgetInv /\ [Next]_vars => BudgetInv'
  BY SoleStatement, KnownStep, BudgetStep DEF BudgetInv
<1>3. TypeOK /\ BudgetInv => AttemptBudget
  <2> SUFFICES ASSUME TypeOK, BudgetInv, NEW j \in Jobs, Present(j)
               PROVE  rows[j].attempts <= MaxAttempts + grants[j]
    BY DEF AttemptBudget
  <2>1. /\ rows[j].attempts \in Nat /\ EarlyClaims(rows[j].attempts) \in Nat
        /\ Cardinality(Chances(j)) \in Nat /\ grants[j] \in Nat /\ MaxAttempts \in Nat
    BY ChancesFinite, EarlyClaimsNat, MaxAttemptsAssumption DEF TypeOK, SqlTypeOK, Payload
  <2> QED  BY <2>1 DEF BudgetInv, Budgeted
<1> QED  BY <1>1, <1>2, <1>3, TypeCorrect, PTL DEF Spec

(***************************************************************************)
(* Action properties.                                                      *)
(***************************************************************************)

\* What a step does to one row, by the call it makes: the cases an action
\* property has to look at.
LEMMA RowCases ==
    ASSUME TypeOK, OneStatement, [Next]_vars, NEW j \in Jobs, j \in pushed
    PROVE  \/ rows'[j] = rows[j]
           \/ rows'[j].status = "absent"
           \/ rows'[j].status = rows[j].status
           \/ rows[j].status = "pending" /\ (AtomicPop => rows[j].delay # "future")
           \/ rows[j].status = "processing" /\ rows'[j].status = "pending"
           \/ /\ rows[j].status # "absent"
              /\ \E w \in Workers :
                    /\ worker[w].job = j
                    /\ \/ worker[w].pc = "succeeded" /\ rows'[j].status = "completed"
                       \/ worker[w].pc = "raised" /\ rows'[j].status \in {"pending", "failed"}
           \/ /\ rows[j].status # "absent" /\ rows'[j].status = "pending"
              /\ \E r \in Retriers : j \in todo[r]
<1>0. rows \in [Jobs -> Payload]
  BY DEF TypeOK, SqlTypeOK
<1>1. CASE Dispatch
  BY <1>1 DEF Dispatch, Push, PushMany, Insert
<1>2. CASE PollDelayed
  BY <1>0, <1>2 DEF PollDelayed, PopDelayed, UpdateWhere, StatusIs, Payload
<1>2a. ASSUME NEW q \in Queues, RecoverStuck(q)
       PROVE  \/ rows'[j] = rows[j]
              \/ rows[j].status = "processing" /\ rows'[j].status = "pending"
  BY <1>0, <1>2a DEF RecoverStuck, RequeueStuck, Stuck, StatusIs, UpdateWhere, Requeued, Payload
<1>3. ASSUME NEW r \in Retriers, RetrierStep(r)
      PROVE  \/ rows'[j] = rows[j]
             \/ Present(j) /\ rows'[j].status = "pending" /\ j \in todo[r]
  <2>1. CASE RetryFetch(r)
    BY <2>1 DEF RetryFetch
  <2>2. ASSUME NEW i \in Jobs, RetryRelease(r, i)
        PROVE  \/ rows'[j] = rows[j]
               \/ Present(j) /\ rows'[j].status = "pending" /\ j \in todo[r]
    BY <1>0, <2>2 DEF RetryRelease, Release, ById, UpdateWhere, Payload
  <2> QED  BY <1>3, <2>1, <2>2 DEF RetrierStep
<1>4. CASE Administer
  <2>1. ASSUME NEW i \in Jobs, Promote(i) PROVE rows'[j].status = rows[j].status
    BY <1>0, <2>1 DEF Promote, UpdateWhere, StatusIs, Payload
  <2>2. ASSUME NEW S, RemoveWhere(S) PROVE rows'[j] = rows[j] \/ rows'[j].status = "absent"
    BY <2>2 DEF RemoveWhere, UpdateWhere, NoPayload
  <2> QED
    BY <1>4, <2>1, <2>2 DEF Administer, Delete, Prune, Flush, EmergencyCleanup
<1>5. CASE TimePasses
  BY <1>0, <1>5 DEF TimePasses, DelayElapses, ClaimAges, UpdateWhere, Payload
<1>6. ASSUME NEW w \in Workers, WorkerStep(w) \/ WorkerDies(w)
      PROVE  \/ rows'[j] = rows[j]
             \/ rows[j].status = "pending" /\ (AtomicPop => rows[j].delay # "future")
             \/ /\ rows[j].status # "absent" /\ worker[w].job = j
                /\ \/ worker[w].pc = "succeeded" /\ rows'[j].status = "completed"
                   \/ worker[w].pc = "raised" /\ rows'[j].status \in {"pending", "failed"}
  <2>1. CASE \E q \in Queues : PopAtomic(w, q)
    BY <1>0, <2>1 DEF PopAtomic, Eligible, Claim, StatusIs, UpdateWhere
  <2>2. CASE PopClaim(w)
    BY <1>0, <2>2 DEF PopClaim, OneStatement, Claim, StatusIs, UpdateWhere
  <2>3. CASE \/ PopMiss(w) \/ Handle(w) \/ EndJob(w) \/ DriverError(w) \/ WorkerDies(w)
             \/ \E q \in Queues : PopSelect(w, q)
    BY <2>3 DEF PopMiss, Handle, EndJob, DriverError, WorkerDies, PopSelect
  <2>4. CASE CompleteJob(w)
    BY <1>0, <2>4
    DEF CompleteJob, Complete, SetStatus, ById, UpdateWhere, Present, RecordCompletion, Payload
  <2>5. CASE FailJob(w)
    BY <1>0, <2>5
    DEF FailJob, Fail, SetStatus, ById, UpdateWhere, Present, RecordFailure, Payload
  <2>6. CASE ReleaseJob(w)
    BY <1>0, <2>6
    DEF ReleaseJob, Release, ById, UpdateWhere, Present, RecordFailure, Payload
  <2> QED  BY <1>6, <2>1, <2>2, <2>3, <2>4, <2>5, <2>6 DEF WorkerStep
<1>7. CASE UNCHANGED vars
  BY <1>7 DEF vars
<1> QED
  BY <1>1, <1>2, <1>2a, <1>3, <1>4, <1>5, <1>6, <1>7 DEF Next, SupervisorStep, Present

\* Whatever the interleaving, a removed job is not brought back.
THEOREM RemovalIsFinal == Spec => RemovedStaysRemoved
<1>1. TypeOK /\ OneStatement /\ [Next]_vars =>
         [\A j \in Jobs :
            j \in pushed /\ rows[j].status = "absent" => rows'[j].status = "absent"]_vars
  BY RowCases
<1>2. Init => OneStatement
  BY DEF Init, WorkerInit, Idle, OneStatement
<1> QED  BY <1>1, <1>2, TypeCorrect, SoleStatement, PTL DEF Spec, RemovedStaysRemoved

\* With one-statement claims no delay and no backoff is cut short.
THEOREM DelaysAreRespected ==
    ASSUME AtomicPop
    PROVE  Spec => BackoffRespected
<1>1. TypeOK /\ KnownJobs /\ OneStatement /\ [Next]_vars =>
         [\A j \in Jobs :
            rows[j].status = "pending" /\ rows[j].delay = "future"
               => rows'[j].status # "processing"]_vars
  BY RowCases DEF KnownJobs, Present
<1>2. Init => KnownJobs /\ OneStatement
  BY DEF Init, SqlInit, WorkerInit, Idle, NoPayload, KnownJobs, OneStatement, Present, Holds
<1> QED
  BY <1>1, <1>2, TypeCorrect, SoleStatement, KnownStep, PTL DEF Spec, BackoffRespected

\* With timely recovery, one retrier and no driver error after completion,
\* a completed job stays completed until it is removed.
THEOREM CompletionIsFinal ==
    ASSUME Benign, ~DriverMayFail
    PROVE  Spec => CompletedIsFinal
<1>1. TypeOK /\ LeaseInv /\ [Next]_vars =>
         [\A j \in Jobs :
            rows[j].status = "completed" => rows'[j].status \in {"completed", "absent"}]_vars
  BY RowCases DEF LeaseInv, Listed, Lease, Present, Holds, Executing
<1> QED  BY <1>1, LeaseInvariant, PTL DEF Spec, CompletedIsFinal

=============================================================================
