----------------------- MODULE ScheduledQueuesProofs -----------------------
(***************************************************************************)
(* Proofs about ScheduledQueues, for any workers, queues and entries.      *)
(***************************************************************************)
EXTENDS ScheduledQueues, TLAPS

-----------------------------------------------------------------------------
(* Positions around the cursor                                             *)

LEMMA WrapsAround ==
  ASSUME NEW n \in Nat \ {0}, NEW x \in Nat, x < 2 * n
  PROVE  x % n = IF x < n THEN x ELSE x - n
  OBVIOUS

\* From cursor c to position p of a ring of n.
Distance(c, p, n) == IF p >= c THEN p - c ELSE p - c + n

LEMMA DistanceToIndex ==
  ASSUME NEW n \in Nat \ {0}, NEW c \in 0..(n - 1), NEW o \in 0..(n - 1),
         NEW p \in 0..(n - 1)
  PROVE  /\ (c + o) % n \in 0..(n - 1)
         /\ Distance(c, p, n) \in 0..(n - 1)
         /\ Distance(c, p, n) = o <=> p = (c + o) % n
<1>1. (c + o) % n = IF c + o < n THEN c + o ELSE c + o - n
  <2>1. \A x \in Nat : x < 2 * n => x % n = IF x < n THEN x ELSE x - n
    BY WrapsAround
  <2>2. PICK x \in Nat : x = c + o /\ x < 2 * n
    OBVIOUS
  <2>3. x % n = IF x < n THEN x ELSE x - n
    BY <2>1, <2>2
  <2> QED
    BY <2>2, <2>3
<1> QED
  BY <1>1 DEF Distance

\* The cursor moves past the position it has come to.
LEMMA DistanceAfter ==
  ASSUME NEW n \in Nat \ {0}, NEW c \in 0..(n - 1), NEW o \in 0..(n - 1),
         NEW p \in 0..(n - 1)
  PROVE  /\ (((c + o) % n) + 1) % n \in 0..(n - 1)
         /\ Distance((((c + o) % n) + 1) % n, p, n) =
              IF Distance(c, p, n) > o THEN Distance(c, p, n) - o - 1
              ELSE Distance(c, p, n) - o - 1 + n
<1>1. (c + o) % n = IF c + o < n THEN c + o ELSE c + o - n
  <2>1. \A x \in Nat : x < 2 * n => x % n = IF x < n THEN x ELSE x - n
    BY WrapsAround
  <2>2. PICK x \in Nat : x = c + o /\ x < 2 * n
    OBVIOUS
  <2>3. x % n = IF x < n THEN x ELSE x - n
    BY <2>1, <2>2
  <2> QED
    BY <2>2, <2>3
<1> DEFINE m == (c + o) % n
<1>2. m \in 0..(n - 1)
  BY <1>1
<1>3. (m + 1) % n = IF m + 1 < n THEN m + 1 ELSE m + 1 - n
  <2>1. \A x \in Nat : x < 2 * n => x % n = IF x < n THEN x ELSE x - n
    BY WrapsAround
  <2> HIDE DEF m
  <2>2. PICK x \in Nat : x = m + 1 /\ x < 2 * n
    BY <1>2
  <2>3. x % n = IF x < n THEN x ELSE x - n
    BY <2>1, <2>2
  <2> QED
    BY <1>2, <2>2, <2>3
<1> QED
  BY <1>1, <1>2, <1>3 DEF Distance

-----------------------------------------------------------------------------
(* The queues of a worker                                                  *)

LEMMA QueueFacts ==
  ASSUME NEW w \in Workers
  PROVE  /\ Count(w) \in Nat \ {0} /\ DOMAIN QueuesOf[w] = 1..Count(w)
         /\ \A i \in 1..Count(w) : QueuesOf[w][i] \in Queues
         /\ \A i, j \in 1..Count(w) : QueuesOf[w][i] = QueuesOf[w][j] => i = j
<1>1. QueuesOf[w] \in Seq(Queues) /\ QueuesOf[w] # <<>>
  BY RotationAssumption
<1>2. Count(w) \in Nat \ {0} /\ DOMAIN QueuesOf[w] = 1..Count(w)
  BY <1>1 DEF Count
<1> QED
  BY <1>1, <1>2, RotationAssumption

\* The queue a scan is at is the one as far ahead as it has come.
LEMMA TargetFacts ==
  ASSUME RotationTypeOK, NEW w \in Workers
  PROVE  /\ Index(w) \in 0..(Count(w) - 1) /\ Target(w) \in Queues
         /\ \A i \in 1..Count(w) :
               /\ Ahead(w, i) = Distance(cursor[w], i - 1, Count(w))
               /\ Ahead(w, i) \in 0..(Count(w) - 1)
               /\ Ahead(w, i) = offset[w] <=> QueuesOf[w][i] = Target(w)
<1>1. /\ Count(w) \in Nat \ {0}
      /\ cursor[w] \in 0..(Count(w) - 1) /\ offset[w] \in 0..(Count(w) - 1)
  BY QueueFacts DEF RotationTypeOK
<1>2. Index(w) \in 0..(Count(w) - 1)
  BY <1>1, DistanceToIndex DEF Index
<1>3. Index(w) + 1 \in 1..Count(w)
  BY <1>1, <1>2
<1>4. ASSUME NEW i \in 1..Count(w)
      PROVE  /\ Ahead(w, i) = Distance(cursor[w], i - 1, Count(w))
             /\ Ahead(w, i) \in 0..(Count(w) - 1)
             /\ Ahead(w, i) = offset[w] <=> QueuesOf[w][i] = Target(w)
  <2>1. Ahead(w, i) = Distance(cursor[w], i - 1, Count(w))
    BY DEF Ahead, Distance
  <2>2. i - 1 \in 0..(Count(w) - 1)
    BY <1>1
  <2>3. /\ Distance(cursor[w], i - 1, Count(w)) \in 0..(Count(w) - 1)
        /\ Distance(cursor[w], i - 1, Count(w)) = offset[w] <=> i - 1 = Index(w)
    BY <1>1, <2>2, DistanceToIndex DEF Index
  <2>4. i - 1 = Index(w) <=> QueuesOf[w][i] = Target(w)
    <3>1. i - 1 = Index(w) <=> i = Index(w) + 1
      BY <1>1, <1>2
    <3> QED
      BY <1>3, <3>1, QueueFacts DEF Target
  <2> QED
    BY <2>1, <2>3, <2>4
<1> QED
  BY <1>2, <1>3, <1>4, QueueFacts DEF Target


-----------------------------------------------------------------------------
(* The turn of a queue                                                     *)

RotationInv == RotationTypeOK /\ TurnInv

\* The counts of one worker, a step of which the others do not see.
LEMMA Turns ==
  ASSUME RotationInv, NEW w \in Workers, NEW i \in 1..Count(w)
  PROVE  LET q == QueuesOf[w][i] IN
         /\ q \in Queues /\ passed[w][q] \in Nat
         /\ Ahead(w, i) \in 0..(Count(w) - 1)
         /\ passed[w][q] + Ahead(w, i) < Count(w)
         /\ q \notin busy \/ Ahead(w, i) < offset[w] => passed[w][q] = 0
<1>1. QueuesOf[w][i] \in Queues /\ i \in DOMAIN QueuesOf[w]
  BY QueueFacts
<1>2. Ahead(w, i) \in 0..(Count(w) - 1)
  BY TargetFacts DEF RotationInv
<1> QED
  BY <1>1, <1>2 DEF RotationInv, TurnInv, RotationTypeOK

\* Whoever fills and empties queues only takes jobs out of the way.
LEMMA BecomesKeeps ==
  ASSUME RotationInv, NEW b \in SUBSET Queues, Becomes(b), UNCHANGED <<cursor, offset, at>>
  PROVE  RotationInv'
<1>1. RotationTypeOK'
  BY DEF RotationInv, RotationTypeOK, Becomes, Count
<1>2. ASSUME NEW w \in Workers, NEW i \in DOMAIN QueuesOf[w]
      PROVE  LET q == QueuesOf[w][i] IN
             /\ passed'[w][q] + Ahead(w, i)' < Count(w)
             /\ q \notin busy' \/ Ahead(w, i)' < offset'[w] => passed'[w][q] = 0
  <2>1. i \in 1..Count(w)
    BY QueueFacts
  <2>2. Ahead(w, i)' = Ahead(w, i)
    BY DEF Ahead, Count
  <2>3. /\ QueuesOf[w][i] \in Queues /\ Ahead(w, i) \in 0..(Count(w) - 1)
        /\ Count(w) \in Nat
    BY <2>1, Turns, QueueFacts
  <2>4. passed'[w][QueuesOf[w][i]] =
          IF QueuesOf[w][i] \in b THEN passed[w][QueuesOf[w][i]] ELSE 0
    BY <2>3 DEF Becomes
  <2> QED
    BY <2>1, <2>2, <2>3, <2>4, Turns DEF Becomes
<1> QED
  BY <1>1, <1>2 DEF RotationInv, TurnInv, Count

LEMMA FindsKeeps ==
  ASSUME RotationInv, NEW w \in Workers, Finds(w)
  PROVE  RotationInv'
<1> DEFINE n == Count(w)
<1>1. /\ n \in Nat \ {0} /\ cursor[w] \in 0..(n - 1) /\ offset[w] \in 0..(n - 1)
      /\ Target(w) \in Queues
  BY QueueFacts, TargetFacts DEF RotationInv, RotationTypeOK
<1>2. PICK b \in SUBSET Queues : TakesFrom(w, Target(w), b) /\ busy' = b
  BY DEF Finds, TakesFrom, RotationInv, RotationTypeOK
<1>3. cursor' = [cursor EXCEPT ![w] = (((cursor[w] + offset[w]) % n) + 1) % n]
  BY DEF Finds, Index
<1>4. /\ offset' = [offset EXCEPT ![w] = 0]
      /\ at' = [at EXCEPT ![w] = "away"]
  BY DEF Finds
<1>5. (((cursor[w] + offset[w]) % n) + 1) % n \in 0..(n - 1)
  BY <1>1, DistanceAfter
<1>6. ASSUME NEW v \in Workers, NEW q \in Queues
      PROVE  passed'[v][q] = IF q \notin b \/ (v = w /\ q = Target(w)) THEN 0
                             ELSE passed[v][q]
                                    + (IF v = w /\ passed[v][q] < Count(w) THEN 1 ELSE 0)
  BY <1>2 DEF TakesFrom
<1>7. RotationTypeOK'
  <2>1. cursor' \in [Workers -> Nat] /\ offset' \in [Workers -> Nat]
    BY <1>1, <1>3, <1>4, <1>5 DEF RotationInv, RotationTypeOK
  <2>2. \A v \in Workers : cursor'[v] < Count(v) /\ offset'[v] < Count(v)
    BY <1>1, <1>3, <1>4, <1>5 DEF RotationInv, RotationTypeOK
  <2>3. passed' \in [Workers -> [Queues -> Nat]]
    BY <1>2 DEF TakesFrom, RotationInv, RotationTypeOK
  <2> QED
    BY <1>2, <1>4, <2>1, <2>2, <2>3 DEF RotationInv, RotationTypeOK, Count
<1>8. ASSUME NEW v \in Workers, NEW i \in DOMAIN QueuesOf[v]
      PROVE  LET q == QueuesOf[v][i] IN
             /\ passed'[v][q] + Ahead(v, i)' < Count(v)
             /\ q \notin busy' \/ Ahead(v, i)' < offset'[v] => passed'[v][q] = 0
  <2> DEFINE q == QueuesOf[v][i]
  <2>1. /\ i \in 1..Count(v) /\ Count(v) \in Nat /\ q \in Queues
        /\ passed[v][q] \in Nat /\ Ahead(v, i) \in 0..(Count(v) - 1)
        /\ passed[v][q] + Ahead(v, i) < Count(v)
        /\ q \notin busy \/ Ahead(v, i) < offset[v] => passed[v][q] = 0
    BY QueueFacts, Turns
  <2>2. CASE v # w
    <3>1. Ahead(v, i)' = Ahead(v, i) /\ offset'[v] = offset[v]
      BY <1>3, <1>4, <2>2 DEF Ahead, Count, RotationInv, RotationTypeOK
    <3>2. passed'[v][q] = IF q \notin b THEN 0 ELSE passed[v][q]
      BY <1>6, <2>1, <2>2
    <3> HIDE DEF q
    <3>3. /\ passed'[v][q] + Ahead(v, i)' < Count(v)
          /\ q \notin busy' \/ Ahead(v, i)' < offset'[v] => passed'[v][q] = 0
      BY <1>2, <2>1, <3>1, <3>2
    <3> QED
      BY <3>3 DEF q
  <2>3. CASE v = w
    <3>1. Ahead(w, i) = Distance(cursor[w], i - 1, n)
          /\ (Ahead(w, i) = offset[w] <=> q = Target(w))
      BY <2>1, <2>3, TargetFacts DEF RotationInv
    <3>2. cursor'[w] = (((cursor[w] + offset[w]) % n) + 1) % n /\ offset'[w] = 0
      BY <1>3, <1>4 DEF RotationInv, RotationTypeOK
    <3>3. Ahead(w, i)' = Distance(cursor'[w], i - 1, n)
      BY DEF Ahead, Distance, Count
    <3>4. Ahead(w, i)' = IF Ahead(w, i) > offset[w] THEN Ahead(w, i) - offset[w] - 1
                         ELSE Ahead(w, i) - offset[w] - 1 + n
      <4>1. i - 1 \in 0..(n - 1)
        BY <2>1, <2>3
      <4>2. \A c, o, p \in 0..(n - 1) :
               Distance((((c + o) % n) + 1) % n, p, n) =
                 IF Distance(c, p, n) > o THEN Distance(c, p, n) - o - 1
                 ELSE Distance(c, p, n) - o - 1 + n
        BY <1>1, DistanceAfter
      <4> HIDE DEF n
      <4>3. Distance((((cursor[w] + offset[w]) % n) + 1) % n, i - 1, n) =
              IF Distance(cursor[w], i - 1, n) > offset[w]
              THEN Distance(cursor[w], i - 1, n) - offset[w] - 1
              ELSE Distance(cursor[w], i - 1, n) - offset[w] - 1 + n
        BY <1>1, <4>1, <4>2
      <4> QED
        BY <3>1, <3>2, <3>3, <4>3
    <3>5. passed'[w][q] = IF q \notin b \/ q = Target(w) THEN 0
                          ELSE passed[w][q] + (IF passed[w][q] < n THEN 1 ELSE 0)
      BY <1>6, <2>1, <2>3
    <3> HIDE DEF q, n
    <3>6. /\ passed'[w][q] + Ahead(w, i)' < n
          /\ q \notin busy' \/ Ahead(w, i)' < offset'[w] => passed'[w][q] = 0
      BY <1>1, <1>2, <2>1, <2>3, <3>1, <3>2, <3>4, <3>5 DEF n
    <3> QED
      BY <2>3, <3>6 DEF q, n
  <2> QED
    BY <2>2, <2>3
<1> QED
  BY <1>7, <1>8 DEF RotationInv, TurnInv, Count


LEMMA MissesKeeps ==
  ASSUME RotationInv, NEW w \in Workers, Misses(w)
  PROVE  RotationInv'
<1> DEFINE n == Count(w)
<1>1. n \in Nat \ {0} /\ cursor[w] \in 0..(n - 1) /\ offset[w] \in 0..(n - 1)
  BY QueueFacts DEF RotationInv, RotationTypeOK
<1>2. UNCHANGED <<busy, passed>> /\ Target(w) \notin busy
  BY DEF Misses
<1>3. ASSUME NEW i \in 1..n
      PROVE  LET q == QueuesOf[w][i] IN
             /\ passed[w][q] \in Nat /\ Ahead(w, i) \in 0..(n - 1)
             /\ passed[w][q] + Ahead(w, i) < n
             /\ q \notin busy \/ Ahead(w, i) <= offset[w] => passed[w][q] = 0
  BY <1>1, <1>2, Turns, TargetFacts DEF RotationInv
<1>4. CASE /\ offset[w] + 1 < n
           /\ offset' = [offset EXCEPT ![w] = @ + 1] /\ UNCHANGED <<cursor, at>>
  <2>1. RotationTypeOK'
    BY <1>1, <1>2, <1>4 DEF RotationInv, RotationTypeOK, Count
  <2>2. ASSUME NEW v \in Workers, NEW i \in DOMAIN QueuesOf[v]
        PROVE  LET q == QueuesOf[v][i] IN
               /\ passed'[v][q] + Ahead(v, i)' < Count(v)
               /\ q \notin busy' \/ Ahead(v, i)' < offset'[v] => passed'[v][q] = 0
    <3>1. Ahead(v, i)' = Ahead(v, i) /\ i \in 1..Count(v)
      BY <1>4, QueueFacts DEF Ahead, Count
    <3>2. CASE v # w
      BY <1>2, <1>4, <3>1, <3>2, Turns DEF RotationInv, RotationTypeOK
    <3>3. CASE v = w
      BY <1>1, <1>2, <1>3, <1>4, <3>1, <3>3 DEF RotationInv, RotationTypeOK
    <3> QED
      BY <3>2, <3>3
  <2> QED
    BY <2>1, <2>2 DEF RotationInv, TurnInv, Count
<1>5. CASE /\ offset[w] + 1 = n
           /\ offset' = [offset EXCEPT ![w] = 0]
           /\ cursor' = [cursor EXCEPT ![w] = (@ + 1) % n]
           /\ at' = [at EXCEPT ![w] = "away"]
  <2>1. (cursor[w] + 1) % n \in 0..(n - 1)
    BY <1>1
  <2>2. RotationTypeOK'
    BY <1>1, <1>2, <1>5, <2>1 DEF RotationInv, RotationTypeOK, Count
  <2>3. ASSUME NEW v \in Workers, NEW i \in DOMAIN QueuesOf[v]
        PROVE  LET q == QueuesOf[v][i] IN
               /\ passed'[v][q] + Ahead(v, i)' < Count(v)
               /\ q \notin busy' \/ Ahead(v, i)' < offset'[v] => passed'[v][q] = 0
    <3>1. i \in 1..Count(v)
      BY QueueFacts
    <3>2. CASE v # w
      <4>1. Ahead(v, i)' = Ahead(v, i) /\ offset'[v] = offset[v]
        BY <1>5, <3>2 DEF Ahead, Count, RotationInv, RotationTypeOK
      <4> QED
        BY <1>2, <3>1, <4>1, Turns
    <3>3. CASE v = w
      <4>1. passed[w][QueuesOf[w][i]] = 0
        BY <1>1, <1>3, <1>5, <3>1, <3>3
      <4>2. cursor'[w] \in 0..(n - 1) /\ offset'[w] = 0
        BY <1>5, <2>1 DEF RotationInv, RotationTypeOK
      <4>3. Ahead(w, i)' \in 0..(n - 1)
        BY <1>1, <3>1, <3>3, <4>2 DEF Ahead, Count
      <4> QED
        BY <1>1, <1>2, <3>3, <4>1, <4>2, <4>3
    <3> QED
      BY <3>2, <3>3
  <2> QED
    BY <2>2, <2>3 DEF RotationInv, TurnInv, Count
<1> QED
  BY <1>4, <1>5 DEF Misses

LEMMA RotationInitInv == RotationInit => RotationInv
<1> SUFFICES ASSUME RotationInit PROVE RotationInv
  OBVIOUS
<1>1. RotationTypeOK
  BY QueueFacts DEF RotationInit, RotationTypeOK
<1>2. ASSUME NEW w \in Workers, NEW i \in DOMAIN QueuesOf[w]
      PROVE  LET q == QueuesOf[w][i] IN
             /\ passed[w][q] + Ahead(w, i) < Count(w)
             /\ q \notin busy \/ Ahead(w, i) < offset[w] => passed[w][q] = 0
  <2>1. i \in 1..Count(w) /\ QueuesOf[w][i] \in Queues /\ Count(w) \in Nat
    BY QueueFacts
  <2>2. passed[w][QueuesOf[w][i]] = 0
    BY <2>1 DEF RotationInit
  <2>3. Ahead(w, i) \in 0..(Count(w) - 1)
    BY <1>1, <2>1, TargetFacts
  <2> QED
    BY <2>1, <2>2, <2>3
<1> QED
  BY <1>1, <1>2 DEF RotationInv, TurnInv

LEMMA RotationStutters ==
  ASSUME RotationInv, UNCHANGED <<busy, cursor, offset, passed>>,
         at' \in [Workers -> {"fetch", "away", "gone"}]
  PROVE  RotationInv'
  BY DEF RotationInv, RotationTypeOK, TurnInv, Ahead, Count

LEMMA RotationNext == RotationInv /\ [Next]_vars => RotationInv'
<1> SUFFICES ASSUME RotationInv, [Next]_vars PROVE RotationInv'
  OBVIOUS
<1>1. at \in [Workers -> {"fetch", "away", "gone"}]
  BY DEF RotationInv, RotationTypeOK
<1>2. CASE UNCHANGED rotationVars
  BY <1>1, <1>2, RotationStutters DEF rotationVars
<1>3. ASSUME NEW e \in DOMAIN Entries, EntryPushed(e) PROVE RotationInv'
  <2>1. busy' \in SUBSET Queues
    BY <1>3, ScheduleAssumption DEF EntryPushed, Becomes, RotationInv, RotationTypeOK
  <2> QED
    BY <1>3, <2>1, BecomesKeeps DEF EntryPushed, Becomes
<1>4. ASSUME NEW w \in Workers, WorkerStep(w) PROVE RotationInv'
  <2>1. CASE Returns(w)
    BY <1>1, <2>1, RotationStutters DEF Returns
  <2> QED
    BY <1>4, <2>1, FindsKeeps, MissesKeeps DEF WorkerStep, Fetching
<1>5. ASSUME NEW w \in Workers, PopRaises(w) PROVE RotationInv'
  BY <1>1, <1>5, RotationStutters DEF PopRaises
<1>6. ASSUME NEW q \in Queues, Elsewhere(q) PROVE RotationInv'
  <2>1. busy \cup {q} \in SUBSET Queues /\ busy \ {q} \in SUBSET Queues
    BY DEF RotationInv, RotationTypeOK
  <2> QED
    BY <1>6, <2>1, BecomesKeeps DEF Elsewhere
<1>7. CASE UNCHANGED vars
  BY <1>2, <1>7 DEF vars
<1> QED
  BY <1>2, <1>3, <1>4, <1>5, <1>6, <1>7
     DEF Next, SchedulerStep, EntryFails, EntrySkipped, EntryRaises

LEMMA RotationInvariant == Spec => []RotationInv
<1>1. Init => RotationInv
  BY RotationInitInv DEF Init
<1> QED
  BY <1>1, RotationNext, PTL DEF Spec

\* Of the other queues a worker takes at most one job each before it takes one
\* of a queue that is never empty (the cursor of Worker._fetch_next).
THEOREM TurnsAreFair == Spec => []TurnComes
<1>1. RotationInv => TurnComes
  <2> SUFFICES ASSUME RotationInv, NEW w \in Workers, NEW i \in DOMAIN QueuesOf[w]
               PROVE  passed[w][QueuesOf[w][i]] < Count(w)
    BY DEF TurnComes
  <2>1. i \in 1..Count(w) /\ Count(w) \in Nat
    BY QueueFacts
  <2> QED
    BY <2>1, Turns
<1> QED
  BY <1>1, RotationInvariant, PTL

-----------------------------------------------------------------------------
(* The intervals of a key                                                  *)

ScheduleInv == owed \in [Keys -> Int] /\ OwedInv

LEMMA EntryKeys == \A e \in DOMAIN Entries \ Malformed : Key(e) \in Keys
  BY DEF Keys

LEMMA StampsKeeps ==
  ASSUME ScheduleInv, NEW e \in DOMAIN Entries \ Malformed, Stamps(e), Key(e) \in due
  PROVE  ScheduleInv'
<1>1. Key(e) \in Keys /\ Key(e) \in ripe
  BY EntryKeys DEF ScheduleInv, OwedInv
<1>2. owed' \in [Keys -> Int]
  BY <1>1 DEF Stamps, ScheduleInv
<1>3. due' \subseteq ripe' /\ fresh' \subseteq due'
  BY DEF Stamps, ScheduleInv, OwedInv
<1>4. ASSUME NEW k \in Keys
      PROVE  owed'[k] >= (IF k \in ripe' THEN 1 ELSE 0) + (IF k \in fresh' THEN 1 ELSE 0)
  <2>1. /\ owed[k] >= (IF k \in ripe THEN 1 ELSE 0) + (IF k \in fresh THEN 1 ELSE 0)
        /\ owed[k] \in Int
    BY DEF ScheduleInv, OwedInv
  <2>2. CASE k = Key(e)
    BY <1>1, <2>1, <2>2 DEF Stamps, ScheduleInv
  <2>3. CASE k # Key(e)
    BY <1>1, <2>1, <2>3 DEF Stamps, ScheduleInv
  <2> QED
    BY <2>2, <2>3
<1> QED
  BY <1>2, <1>3, <1>4 DEF ScheduleInv, OwedInv

LEMMA RipensKeeps ==
  ASSUME ScheduleInv, NEW k \in Keys, Ripens(k)
  PROVE  ScheduleInv'
<1>1. owed' = [owed EXCEPT ![k] = @ + 1] /\ owed' \in [Keys -> Int] /\ due' = due
  BY DEF Ripens, ScheduleInv
<1>2. due' \subseteq ripe' /\ fresh' \subseteq due'
  BY DEF Ripens, ScheduleInv, OwedInv
<1>3. ASSUME NEW j \in Keys
      PROVE  owed'[j] >= (IF j \in ripe' THEN 1 ELSE 0) + (IF j \in fresh' THEN 1 ELSE 0)
  <2>1. /\ owed[j] >= (IF j \in ripe THEN 1 ELSE 0) + (IF j \in fresh THEN 1 ELSE 0)
        /\ owed[j] \in Int
    BY DEF ScheduleInv, OwedInv
  <2>2. CASE j = k
    BY <1>1, <2>1, <2>2 DEF Ripens, ScheduleInv
  <2>3. CASE j # k
    BY <1>1, <2>1, <2>3 DEF Ripens, ScheduleInv
  <2> QED
    BY <2>2, <2>3
<1> QED
  BY <1>1, <1>2, <1>3 DEF ScheduleInv, OwedInv

\* Any other step owes no more, and asks for no more.
LEMMA OwesNoMore ==
  ASSUME ScheduleInv, owed' = owed, ripe' = ripe,
         \/ due' = due /\ fresh' = fresh
         \/ due' \subseteq ripe /\ fresh' = {}
  PROVE  ScheduleInv'
<1>1. due' \subseteq ripe' /\ fresh' \subseteq due' /\ fresh' \subseteq fresh
  BY DEF ScheduleInv, OwedInv
<1> QED
  BY <1>1 DEF ScheduleInv, OwedInv

LEMMA ScheduleInitInv == SchedulerInit => ScheduleInv
  BY DEF SchedulerInit, ScheduleInv, OwedInv

LEMMA ScheduleNext == ScheduleInv /\ [Next]_vars => ScheduleInv'
<1> SUFFICES ASSUME ScheduleInv, [Next]_vars PROVE ScheduleInv'
  OBVIOUS
<1>1. CASE UNCHANGED <<owed, ripe, due, fresh>>
  BY <1>1, OwesNoMore
<1>2. CASE Ticks \/ EndsTick
  BY <1>2, OwesNoMore DEF Ticks, EndsTick
<1>3. CASE Exits \/ Stop \/ Add
  BY <1>1, <1>3 DEF Exits, Stop, Add
<1>4. ASSUME NEW e \in DOMAIN Entries, EntryPushed(e) \/ EntryFails(e)
      PROVE  ScheduleInv'
  BY <1>4, StampsKeeps DEF EntryPushed, EntryFails, Dispatches, DispatchFails, Turn
<1>5. ASSUME NEW e \in DOMAIN Entries, EntrySkipped(e) PROVE ScheduleInv'
  BY <1>1, <1>5 DEF EntrySkipped, NotYet
<1>6. ASSUME NEW k \in Keys, Ripens(k) PROVE ScheduleInv'
  BY <1>6, RipensKeeps
<1>9. ASSUME NEW e \in DOMAIN Entries, EntryRaises(e) PROVE ScheduleInv'
  BY <1>9, OwesNoMore DEF EntryRaises, Raises
<1>7. CASE UNCHANGED schedulerVars
  BY <1>1, <1>7 DEF schedulerVars
<1>8. CASE UNCHANGED vars
  BY <1>7, <1>8 DEF vars
<1> QED
  BY <1>2, <1>3, <1>4, <1>5, <1>6, <1>7, <1>8, <1>9 DEF Next, SchedulerStep, WorkerStep

LEMMA ScheduleInvariant == Spec => []ScheduleInv
<1>1. Init => ScheduleInv
  BY ScheduleInitInv DEF Init
<1> QED
  BY <1>1, ScheduleNext, PTL DEF Spec

\* The dispatches of a key, failed ones included, never outnumber the
\* intervals that have passed, however many entries share it and however long
\* a tick takes (Scheduler.start stamps the time at which the tick began).
THEOREM DispatchesAreSpaced == Spec => []OncePerInterval
<1>1. ScheduleInv => OncePerInterval
  BY DEF ScheduleInv, OwedInv, OncePerInterval
<1> QED
  BY <1>1, ScheduleInvariant, PTL

=============================================================================
