------------------------- MODULE MemoryWorkersProofs -------------------------
(***************************************************************************)
(* Theorems about MemoryWorkers, for any number of jobs, queues and worker *)
(* tasks: the supervisor's pool, and the jobs of the memory driver.        *)
(***************************************************************************)
EXTENDS MemoryWorkers, ListProofs, FiniteSetTheorems, SequenceTheorems, TLAPS

(***************************************************************************)
(* The payload: what each write leaves in its fields.                      *)
(***************************************************************************)

LEMMA NewFacts ==
    ASSUME NEW d \in Delay
    PROVE  /\ NewPayload(d) \in Payload
           /\ NewPayload(d).status = "pending" /\ NewPayload(d).attempts = 0
           /\ NewPayload(d).delay = d
BY DEF NewPayload, NoPayload, Payload, Status, Started, Delay

LEMMA NoFacts ==
    /\ NoPayload \in Payload
    /\ NoPayload.status = "absent" /\ NoPayload.attempts = 0 /\ NoPayload.delay = "none"
BY DEF NoPayload, Payload, Status, Started, Delay

LEMMA ClaimedFacts ==
    ASSUME NEW p \in Payload
    PROVE  /\ Claimed(p) \in Payload
           /\ Claimed(p).status = "processing" /\ Claimed(p).attempts = p.attempts + 1
           /\ Claimed(p).delay = p.delay
<1> DEFINE n == p.attempts + 1
<1>1. n \in Nat
  BY DEF Payload
<1>2. Claimed(p) = [p EXCEPT !.status = "processing", !.attempts = n, !.started = "fresh"]
  BY DEF Claimed
<1>3. Claimed(p).attempts = n
  <2> HIDE DEF n
  <2> QED  BY <1>2 DEF Payload
<1> HIDE DEF n
<1>4. /\ Claimed(p) \in Payload /\ Claimed(p).status = "processing"
      /\ Claimed(p).delay = p.delay
  BY <1>1, <1>2 DEF Payload, Status, Started
<1> QED  BY <1>3, <1>4 DEF n

LEMMA RequeuedFacts ==
    ASSUME NEW p \in Payload
    PROVE  /\ Requeued(p) \in Payload
           /\ Requeued(p).status = "pending" /\ Requeued(p).attempts = p.attempts
           /\ Requeued(p).delay = "none"
BY DEF Requeued, Payload, Status, Started, Delay

LEMMA StatusFacts ==
    ASSUME NEW p \in Payload, NEW st \in Status
    PROVE  LET n == [p EXCEPT !.status = st] IN
           n \in Payload /\ n.status = st /\ n.attempts = p.attempts /\ n.delay = p.delay
BY DEF Payload

LEMMA DelayFacts ==
    ASSUME NEW p \in Payload, NEW d \in Delay
    PROVE  LET n == [p EXCEPT !.delay = d] IN
           n \in Payload /\ n.delay = d /\ n.attempts = p.attempts /\ n.status = p.status
BY DEF Payload

LEMMA StaleFacts ==
    ASSUME NEW p \in Payload
    PROVE  LET n == [p EXCEPT !.started = "stale"] IN
           n \in Payload /\ n.delay = p.delay /\ n.attempts = p.attempts /\ n.status = p.status
BY DEF Payload, Started

LEMMA ReleasedFacts ==
    ASSUME NEW p \in Payload, NEW d \in Delay
    PROVE  LET n == [p EXCEPT !.status = "pending", !.delay = IF d = "none" THEN @ ELSE d] IN
           /\ n \in Payload /\ n.status = "pending" /\ n.attempts = p.attempts
           /\ n.delay = IF d = "none" THEN p.delay ELSE d
BY DEF Payload, Status

-----------------------------------------------------------------------------
(***************************************************************************)
(* The driver's calls: what each does to the objects, the dict and lists.  *)
(***************************************************************************)

InReady(j) == In(ready[QueueOf[j]], j)

InDelayed(j) == In(delayed, j)

\* A job has at most one entry in all.
Single(j) ==
    /\ AtMostOnce(ready[QueueOf[j]], j) /\ AtMostOnce(delayed, j)
    /\ ~(InReady(j) /\ InDelayed(j))

\* What every call relies on: the types, and each id is in the list of its queue.
MemInv ==
    /\ MemTypeOK /\ IsFiniteSet(jobs)
    /\ \A q \in Queues, j \in Jobs : In(ready[q], j) => QueueOf[j] = q

\* Each of the jobs S gets one entry more.
LEMMA EnqueueFacts ==
    ASSUME MemInv, NEW S \in SUBSET Jobs, IsFiniteSet(S), EnqueueAll(S)
    PROVE  /\ ready' \in [Queues -> Seq(Jobs)]
           /\ \A q \in Queues : \A k :
                 In(ready'[q], k) <=> In(ready[q], k) \/ (k \in S /\ QueueOf[k] = q)
           /\ \A q \in Queues : \A k :
                 AtMostOnce(ready[q], k) /\ (k \in S => ~In(ready[q], k))
                    => AtMostOnce(ready'[q], k)
<1> DEFINE n == Cardinality(S)
           D == 1..n
<1>1. PICK s \in SetToSeqs(S) :
          ready' = [q \in Queues |-> ready[q] \o Only(s, {i \in DOMAIN s : QueueOf[s[i]] = q})]
  BY DEF EnqueueAll
<1>2. n \in Nat
  BY FS_CardinalityType
<1>3. s \in [D -> S] /\ \A i, k \in D : i # k => s[i] # s[k]
  BY DEF SetToSeqs
<1>4. s \in Seq(Jobs) /\ DOMAIN s = D /\ \A i \in D : s[i] \in S
  <2>1. s \in [D -> Jobs]
    BY <1>3
  <2> QED  BY <1>2, <1>3, <2>1, SeqDef
<1>5. \A k \in S : \E i \in D : s[i] = k
  <2>1. s \in Injection(D, S)
    BY <1>3 DEF Injection, IsInjective
  <2>2. IsFiniteSet(D) /\ Cardinality(D) = n
    BY <1>2, FS_Interval
  <2>3. s \in Surjection(D, S)
    <3> HIDE DEF D
    <3> QED  BY <2>1, <2>2, FS_Injection
  <2> QED  BY <2>3 DEF Surjection
<1>6. ASSUME NEW q \in Queues
      PROVE  /\ ready'[q] \in Seq(Jobs)
             /\ \A k : In(ready'[q], k) <=> In(ready[q], k) \/ (k \in S /\ QueueOf[k] = q)
             /\ \A k : AtMostOnce(ready[q], k) /\ (k \in S => ~In(ready[q], k))
                          => AtMostOnce(ready'[q], k)
  <2> DEFINE I == {i \in DOMAIN s : QueueOf[s[i]] = q}
             t == Only(s, I)
  <2>1. I \in SUBSET (DOMAIN s)
    OBVIOUS
  <2>2. /\ t \in Seq(Jobs)
        /\ \A j : In(t, j) <=> \E i \in I : s[i] = j
        /\ \A j : (\A i, k \in I : s[i] = j /\ s[k] = j => i = k) => AtMostOnce(t, j)
    <3>1. s \in Seq(Jobs)
      BY <1>4
    <3> HIDE DEF I, D, n
    <3> QED  BY <2>1, <3>1, OnlyFacts
  <2>3. \A k : In(t, k) <=> k \in S /\ QueueOf[k] = q
    BY <1>4, <1>5, <2>2
  <2>4. \A k : AtMostOnce(t, k)
    <3>1. \A i, k \in I : s[i] = s[k] => i = k
      BY <1>3, <1>4
    <3> HIDE DEF I
    <3> QED  BY <2>2, <3>1
  <2>5. ready[q] \in Seq(Jobs)
    BY DEF MemInv, MemTypeOK
  <2>6. ready'[q] = ready[q] \o t
    BY <1>1
  <2> HIDE DEF t
  <2>7. /\ ready[q] \o t \in Seq(Jobs)
        /\ \A k : In(ready[q] \o t, k) <=> In(ready[q], k) \/ In(t, k)
        /\ \A k : AtMostOnce(ready[q], k) /\ AtMostOnce(t, k) /\ ~(In(ready[q], k) /\ In(t, k))
                     => AtMostOnce(ready[q] \o t, k)
    BY <2>2, <2>5, ConcatFacts
  <2> QED  BY <2>3, <2>4, <2>6, <2>7
<1>7. ready' \in [Queues -> Seq(Jobs)]
  <2>1. ready' = [q \in Queues |-> ready'[q]]
    BY <1>1
  <2> QED  BY <1>6, <2>1
<1> QED  BY <1>6, <1>7

LEMMA WithoutFacts ==
    ASSUME NEW s \in Seq(Jobs), NEW S
    PROVE  /\ Without(s, S) \in Seq(Jobs)
           /\ \A k : In(Without(s, S), k) => In(s, k)
           /\ \A k : k \notin S => (In(s, k) <=> In(Without(s, S), k))
           /\ \A k : AtMostOnce(s, k) => AtMostOnce(Without(s, S), k)
           /\ \A k : AtMostOnce(s, k) /\ k \in S => ~In(Without(s, S), k)
<1> DEFINE kept == {i \in DOMAIN s : s[i] \notin S \/ \E k \in 1..(i - 1) : s[k] = s[i]}
           t == Only(s, kept)
<1>1. kept \in SUBSET (DOMAIN s)
  OBVIOUS
<1>2. /\ \A i \in kept : i \in DOMAIN s
      /\ \A i \in DOMAIN s : s[i] \notin S => i \in kept
      /\ \A i \in kept : s[i] \in S => \E k \in DOMAIN s : k # i /\ s[k] = s[i]
  <2>1. ASSUME NEW i \in kept, s[i] \in S PROVE \E k \in DOMAIN s : k # i /\ s[k] = s[i]
    <3>1. PICK k \in 1..(i - 1) : s[k] = s[i]
      BY <2>1
    <3>2. Len(s) \in Nat /\ DOMAIN s = 1..Len(s) /\ i \in 1..Len(s)
      BY <2>1
    <3>3. k \in 1..Len(s) /\ k # i
      BY <3>1, <3>2
    <3> QED  BY <3>1, <3>2, <3>3
  <2> QED  BY <2>1
<1>3. Without(s, S) = t
  BY DEF Without
<1>4. /\ t \in Seq(Jobs)
      /\ \A k : In(t, k) <=> \E i \in kept : s[i] = k
      /\ \A k : (\A i, n \in kept : s[i] = k /\ s[n] = k => i = n) => AtMostOnce(t, k)
  <2> HIDE DEF kept
  <2> QED  BY <1>1, OnlyFacts
<1> HIDE DEF kept, t
<1>5. \A k : In(t, k) => In(s, k)
  BY <1>2, <1>4 DEF In
<1>6. \A k : k \notin S => (In(s, k) <=> In(t, k))
  BY <1>2, <1>4 DEF In
<1>7. \A k : AtMostOnce(s, k) => AtMostOnce(t, k)
  BY <1>2, <1>4 DEF AtMostOnce
<1>8. \A k : AtMostOnce(s, k) /\ k \in S => ~In(t, k)
  BY <1>2, <1>4 DEF AtMostOnce, In
<1> QED  BY <1>3, <1>4, <1>5, <1>6, <1>7, <1>8

LEMMA AppendFacts ==
    ASSUME NEW s \in Seq(Jobs), NEW j \in Jobs
    PROVE  /\ Append(s, j) \in Seq(Jobs)
           /\ \A k : In(Append(s, j), k) <=> In(s, k) \/ k = j
           /\ \A k : AtMostOnce(s, k) /\ (k = j => ~In(s, j)) => AtMostOnce(Append(s, j), k)
<1> DEFINE t == <<j>>
<1>1. t \in Seq(Jobs) /\ Append(s, j) = s \o t
  BY AppendIsConcat
<1>2. DOMAIN t = {1} /\ t[1] = j
  OBVIOUS
<1> HIDE DEF t
<1>3. \A k : (In(t, k) <=> k = j) /\ AtMostOnce(t, k)
  BY <1>2 DEF In, AtMostOnce
<1>4. /\ s \o t \in Seq(Jobs)
      /\ \A k : In(s \o t, k) <=> In(s, k) \/ In(t, k)
      /\ \A k : AtMostOnce(s, k) /\ AtMostOnce(t, k) /\ ~(In(s, k) /\ In(t, k))
                   => AtMostOnce(s \o t, k)
  BY <1>1, ConcatFacts
<1> QED  BY <1>1, <1>3, <1>4

\* What a call may do to the lists, said of each job.
ListsTyped == ready \in [Queues -> Seq(Jobs)] /\ delayed \in Seq(Jobs)

Homes == \A q \in Queues, j \in Jobs : In(ready[q], j) => QueueOf[j] = q

LEMMA MemInvParts ==
    MemInv <=> /\ obj \in [Jobs -> Payload] /\ jobs \subseteq Jobs /\ IsFiniteSet(jobs)
               /\ ListsTyped /\ Homes
BY DEF MemInv, MemTypeOK, ListsTyped, Homes

LEMMA MemInvNext ==
    ASSUME obj' \in [Jobs -> Payload], jobs' \subseteq Jobs, IsFiniteSet(jobs'),
           ListsTyped', Homes'
    PROVE  MemInv'
BY DEF MemInv, MemTypeOK, ListsTyped, Homes

LEMMA Enqueued ==
    ASSUME MemInv, NEW S \in SUBSET Jobs, IsFiniteSet(S), EnqueueAll(S), delayed' = delayed
    PROVE  /\ ListsTyped' /\ Homes'
           /\ \A k \in Jobs : InReady(k)' <=> InReady(k) \/ k \in S
           /\ \A k \in Jobs : InDelayed(k)' <=> InDelayed(k)
           /\ \A k \in Jobs : Single(k) /\ (k \in S => ~InReady(k) /\ ~InDelayed(k)) => Single(k)'
<1>1. \A k \in Jobs : QueueOf[k] \in Queues
  BY MemoryAssumption
<1>2. /\ ready' \in [Queues -> Seq(Jobs)]
      /\ \A q \in Queues : \A k :
            In(ready'[q], k) <=> In(ready[q], k) \/ (k \in S /\ QueueOf[k] = q)
      /\ \A q \in Queues : \A k :
            AtMostOnce(ready[q], k) /\ (k \in S => ~In(ready[q], k)) => AtMostOnce(ready'[q], k)
  BY EnqueueFacts
<1>3. ListsTyped' /\ Homes'
  BY <1>2, MemInvParts DEF ListsTyped, Homes
<1>4. \A k \in Jobs : InReady(k)' <=> InReady(k) \/ k \in S
  BY <1>1, <1>2 DEF InReady
<1>5. \A k \in Jobs : InDelayed(k)' <=> InDelayed(k)
  BY DEF InDelayed
<1>6. ASSUME NEW k \in Jobs, Single(k), k \in S => ~InReady(k) /\ ~InDelayed(k) PROVE Single(k)'
  <2>1. AtMostOnce(ready'[QueueOf[k]], k)
    BY <1>1, <1>2, <1>6 DEF Single, InReady
  <2> QED  BY <1>4, <1>5, <1>6, <2>1 DEF Single
<1> QED  BY <1>3, <1>4, <1>5, <1>6

LEMMA Postponed ==
    ASSUME MemInv, NEW j \in Jobs, delayed' = Append(delayed, j), ready' = ready
    PROVE  /\ ListsTyped' /\ Homes'
           /\ \A k \in Jobs : InReady(k)' <=> InReady(k)
           /\ \A k \in Jobs : InDelayed(k)' <=> InDelayed(k) \/ k = j
           /\ \A k \in Jobs : Single(k) /\ (k = j => ~InReady(k) /\ ~InDelayed(k)) => Single(k)'
<1>1. /\ delayed' \in Seq(Jobs)
      /\ \A k : In(delayed', k) <=> In(delayed, k) \/ k = j
      /\ \A k : AtMostOnce(delayed, k) /\ (k = j => ~In(delayed, j)) => AtMostOnce(delayed', k)
  BY AppendFacts, MemInvParts DEF ListsTyped
<1>2. ListsTyped' /\ Homes'
  BY <1>1, MemInvParts DEF ListsTyped, Homes
<1>3. \A k \in Jobs : InReady(k)' <=> InReady(k)
  BY DEF InReady
<1>4. \A k \in Jobs : InDelayed(k)' <=> InDelayed(k) \/ k = j
  BY <1>1 DEF InDelayed
<1>5. \A k \in Jobs : Single(k) /\ (k = j => ~InReady(k) /\ ~InDelayed(k)) => Single(k)'
  BY <1>1, <1>3, <1>4 DEF Single, InDelayed
<1> QED  BY <1>2, <1>3, <1>4, <1>5

\* Nothing is added to the lists.
Shrinks(k) ==
    /\ InReady(k)' => InReady(k)
    /\ InDelayed(k)' => InDelayed(k)
    /\ Single(k) => Single(k)'

LEMMA SameLists ==
    ASSUME MemInv, ready' = ready, delayed' = delayed
    PROVE  /\ ListsTyped' /\ Homes'
           /\ \A k \in Jobs : (InReady(k)' <=> InReady(k)) /\ (InDelayed(k)' <=> InDelayed(k)) /\ Shrinks(k)
BY MemInvParts DEF ListsTyped, Homes, InReady, InDelayed, Shrinks, Single

-----------------------------------------------------------------------------
(* The calls. *)

LEMMA PushFacts ==
    ASSUME MemInv, NEW j \in Jobs, NEW d \in Delay, Push(j, d)
    PROVE  /\ MemInv'
           /\ obj[j].status = "absent" /\ jobs' = jobs \cup {j}
           /\ obj'[j].status = "pending" /\ obj'[j].attempts = 0 /\ obj'[j].delay = d
           /\ \A k \in Jobs : k # j => obj'[k] = obj[k]
           /\ \A k \in Jobs : InReady(k)' <=> InReady(k) \/ (k = j /\ d # "future")
           /\ \A k \in Jobs : InDelayed(k)' <=> InDelayed(k) \/ (k = j /\ d = "future")
           /\ \A k \in Jobs : Single(k) /\ (k = j => ~InReady(k) /\ ~InDelayed(k)) => Single(k)'
<1>1. /\ obj[j].status = "absent" /\ jobs' = jobs \cup {j}
      /\ obj' = [obj EXCEPT ![j] = NewPayload(d)]
  BY DEF Push
<1>2. /\ obj' \in [Jobs -> Payload] /\ jobs' \subseteq Jobs
      /\ obj'[j] = NewPayload(d) /\ \A k \in Jobs : k # j => obj'[k] = obj[k]
  BY <1>1, NewFacts, MemInvParts
<1>3. IsFiniteSet(jobs')
  BY <1>1, FS_AddElement, MemInvParts
<1>4. CASE d = "future"
  <2>1. delayed' = Append(delayed, j) /\ ready' = ready
    BY <1>4 DEF Push
  <2>2. /\ ListsTyped' /\ Homes'
        /\ \A k \in Jobs : InReady(k)' <=> InReady(k)
        /\ \A k \in Jobs : InDelayed(k)' <=> InDelayed(k) \/ k = j
        /\ \A k \in Jobs : Single(k) /\ (k = j => ~InReady(k) /\ ~InDelayed(k)) => Single(k)'
    BY <2>1, Postponed
  <2>3. MemInv'
    BY <1>2, <1>3, <2>2, MemInvNext
  <2> QED  BY <1>1, <1>2, <1>4, <2>2, <2>3, NewFacts
<1>5. CASE d # "future"
  <2>1. EnqueueAll({j}) /\ delayed' = delayed
    BY <1>5 DEF Push, Enqueue
  <2>2. IsFiniteSet({j}) /\ {j} \in SUBSET Jobs
    BY FS_Singleton
  <2>3. /\ ListsTyped' /\ Homes'
        /\ \A k \in Jobs : InReady(k)' <=> InReady(k) \/ k \in {j}
        /\ \A k \in Jobs : InDelayed(k)' <=> InDelayed(k)
        /\ \A k \in Jobs : Single(k) /\ (k \in {j} => ~InReady(k) /\ ~InDelayed(k)) => Single(k)'
    BY <2>1, <2>2, Enqueued
  <2>4. MemInv'
    BY <1>2, <1>3, <2>3, MemInvNext
  <2> QED  BY <1>1, <1>2, <1>5, <2>3, <2>4, NewFacts
<1> QED  BY <1>4, <1>5

LEMMA PopFacts ==
    ASSUME MemInv, NEW q \in Queues, NEW j \in PendingJobs, Pop(q, j)
    PROVE  /\ MemInv' /\ j \in jobs /\ j \in Jobs /\ jobs' = jobs
           /\ obj[j].status = "pending" /\ InReady(j)
           /\ obj'[j].status = "processing" /\ obj'[j].attempts = obj[j].attempts + 1
           /\ obj'[j].delay = obj[j].delay
           /\ \A k \in Jobs : k # j => obj'[k] = obj[k]
           /\ \A k \in Jobs : Shrinks(k) /\ (InDelayed(k)' <=> InDelayed(k))
           /\ \A k \in PendingJobs : k # j /\ InReady(k) => InReady(k)'
           /\ Single(j) => ~InReady(j)' /\ ~InDelayed(j)'
<1> DEFINE s == ready[q]
<1>0. /\ obj \in [Jobs -> Payload] /\ jobs \subseteq Jobs /\ IsFiniteSet(jobs)
      /\ ListsTyped /\ Homes
  BY MemInvParts
<1>1. j \in jobs /\ j \in Jobs /\ obj[j].status = "pending"
  BY <1>0 DEF PendingJobs
<1>2. PICK i \in FirstPending(q) :
          /\ j = ready[q][i]
          /\ ready' = [ready EXCEPT ![q] = SubSeq(@, i + 1, Len(@))]
  BY DEF Pop
<1>3. /\ s \in Seq(Jobs) /\ Len(s) \in Nat /\ DOMAIN s = 1..Len(s)
      /\ i \in DOMAIN s /\ j = s[i] /\ \A k \in 1..(i - 1) : s[k] \notin PendingJobs
  BY <1>0, <1>2 DEF FirstPending, ListsTyped
<1> DEFINE t == SubSeq(s, i + 1, Len(s))
<1>4. /\ t \in Seq(Jobs)
      /\ \A k : In(t, k) <=> \E n \in (i + 1)..Len(s) : s[n] = k
      /\ \A k : AtMostOnce(s, k) => AtMostOnce(t, k)
  <2>1. i + 1 \in 1..(Len(s) + 1) /\ Len(s) \in 0..Len(s)
    BY <1>3
  <2> HIDE DEF s
  <2> QED  BY <1>3, <2>1, SubSeqFacts
<1>5. ready' = [ready EXCEPT ![q] = t] /\ delayed' = delayed /\ jobs' = jobs
      /\ obj' = [obj EXCEPT ![j] = Claimed(@)]
  BY <1>2 DEF Pop
<1>6. InReady(j) /\ QueueOf[j] = q
  BY <1>0, <1>1, <1>3 DEF InReady, In, Homes
<1>7. \A k : In(t, k) => In(s, k)
  <2>1. \A n \in (i + 1)..Len(s) : n \in DOMAIN s
    BY <1>3
  <2> QED  BY <1>4, <2>1 DEF In
<1>8. \A k \in PendingJobs : k # j /\ In(s, k) => In(t, k)
  <2> SUFFICES ASSUME NEW k \in PendingJobs, k # j, NEW n \in DOMAIN s, s[n] = k PROVE In(t, k)
    BY DEF In
  <2>1. n \notin 1..(i - 1) /\ n # i
    BY <1>3
  <2>2. n \in (i + 1)..Len(s)
    BY <1>3, <2>1
  <2> QED  BY <1>4, <2>2
<1>9. AtMostOnce(s, j) => ~In(t, j)
  <2>1. \A n \in (i + 1)..Len(s) : n \in DOMAIN s /\ n # i
    BY <1>3
  <2> QED  BY <1>3, <1>4, <2>1 DEF AtMostOnce
<1>10. s = ready[q]
  OBVIOUS
<1> HIDE DEF s, t
<1>11. /\ ready'[q] = t /\ \A r \in Queues : r # q => ready'[r] = ready[r]
       /\ ready' \in [Queues -> Seq(Jobs)]
  BY <1>0, <1>4, <1>5 DEF ListsTyped
<1>12. ListsTyped' /\ Homes'
  BY <1>0, <1>5, <1>7, <1>10, <1>11 DEF ListsTyped, Homes
<1>13. obj' \in [Jobs -> Payload] /\ obj'[j] = Claimed(obj[j]) /\ \A k \in Jobs : k # j => obj'[k] = obj[k]
  BY <1>0, <1>1, <1>5, ClaimedFacts
<1>14. MemInv'
  BY <1>0, <1>5, <1>12, <1>13, MemInvNext
<1>15. \A k \in Jobs : Shrinks(k) /\ (InDelayed(k)' <=> InDelayed(k))
  <2> SUFFICES ASSUME NEW k \in Jobs PROVE Shrinks(k) /\ (InDelayed(k)' <=> InDelayed(k))
    OBVIOUS
  <2>1. InDelayed(k)' <=> InDelayed(k)
    BY <1>5 DEF InDelayed
  <2>2. QueueOf[k] \in Queues
    BY MemoryAssumption
  <2>3. InReady(k)' => InReady(k)
    BY <1>7, <1>10, <1>11, <2>2 DEF InReady
  <2>4. AtMostOnce(ready[QueueOf[k]], k) => AtMostOnce(ready'[QueueOf[k]], k)
    BY <1>4, <1>10, <1>11, <2>2
  <2>5. Single(k) => Single(k)'
    BY <1>5, <2>1, <2>3, <2>4 DEF Single
  <2> QED  BY <2>1, <2>3, <2>5 DEF Shrinks
<1>16. ASSUME NEW k \in PendingJobs, k # j, InReady(k) PROVE InReady(k)'
  <2>1. k \in Jobs /\ QueueOf[k] \in Queues
    BY <1>0, MemoryAssumption DEF PendingJobs
  <2> QED  BY <1>8, <1>10, <1>11, <1>16, <2>1 DEF InReady
<1>17. ASSUME Single(j) PROVE ~InReady(j)' /\ ~InDelayed(j)'
  BY <1>5, <1>6, <1>9, <1>10, <1>11, <1>17 DEF Single, InReady, InDelayed
<1>18. obj'[j].status = "processing" /\ obj'[j].attempts = obj[j].attempts + 1 /\ obj'[j].delay = obj[j].delay
  <2>1. obj[j] \in Payload
    BY <1>0, <1>1
  <2> QED  BY <1>13, <2>1, ClaimedFacts
<1> QED  BY <1>1, <1>5, <1>6, <1>13, <1>14, <1>15, <1>16, <1>17, <1>18

LEMMA PopNothingFacts ==
    ASSUME MemInv, NEW q \in Queues, PopNothing(q)
    PROVE  /\ MemInv' /\ obj' = obj /\ jobs' = jobs
           /\ \A k \in Jobs : Shrinks(k) /\ (InDelayed(k)' <=> InDelayed(k))
           /\ \A k \in PendingJobs : InReady(k) => InReady(k)'
<1> DEFINE s == ready[q]
<1>0. /\ obj \in [Jobs -> Payload] /\ jobs \subseteq Jobs /\ IsFiniteSet(jobs)
      /\ ListsTyped /\ Homes
  BY MemInvParts
<1>1. FirstPending(q) = {} /\ ready' = [ready EXCEPT ![q] = <<>>] /\ obj' = obj /\ jobs' = jobs /\ delayed' = delayed
  BY DEF PopNothing
<1>2. s \in Seq(Jobs) /\ Len(s) \in Nat /\ DOMAIN s = 1..Len(s)
  BY <1>0 DEF ListsTyped
<1>3. \A k \in PendingJobs : ~In(s, k)
  <2> DEFINE I == {i \in DOMAIN s : s[i] \in PendingJobs}
  <2>1. SUFFICES ASSUME I # {} PROVE FALSE
    BY DEF In
  <2>2. PICK i \in I : \A k \in 1..(i - 1) : k \notin I
    <3>1. I \in SUBSET (1..Len(s))
      BY <1>2
    <3> HIDE DEF I
    <3> QED  BY <1>2, <2>1, <3>1, LeastFacts
  <2>3. \A k \in 1..(i - 1) : k \in DOMAIN s
    BY <1>2
  <2>4. i \in FirstPending(q)
    BY <2>2, <2>3 DEF FirstPending
  <2> QED  BY <1>1, <2>4
<1>4. /\ ready'[q] = <<>> /\ \A r \in Queues : r # q => ready'[r] = ready[r]
      /\ ready' \in [Queues -> Seq(Jobs)]
  BY <1>0, <1>1, EmptySeq DEF ListsTyped
<1>5. \A k : ~In(<<>>, k) /\ AtMostOnce(<<>>, k)
  BY DEF In, AtMostOnce
<1>6. ListsTyped' /\ Homes'
  BY <1>0, <1>1, <1>4, <1>5 DEF ListsTyped, Homes
<1>7. MemInv'
  BY <1>0, <1>1, <1>6, MemInvNext
<1>8. \A k \in Jobs : Shrinks(k) /\ (InDelayed(k)' <=> InDelayed(k))
  <2> SUFFICES ASSUME NEW k \in Jobs PROVE Shrinks(k) /\ (InDelayed(k)' <=> InDelayed(k))
    OBVIOUS
  <2>1. InDelayed(k)' <=> InDelayed(k)
    BY <1>1 DEF InDelayed
  <2>2. QueueOf[k] \in Queues
    BY MemoryAssumption
  <2>3. InReady(k)' => InReady(k)
    BY <1>4, <1>5, <2>2 DEF InReady
  <2>4. AtMostOnce(ready[QueueOf[k]], k) => AtMostOnce(ready'[QueueOf[k]], k)
    BY <1>4, <1>5, <2>2
  <2>5. Single(k) => Single(k)'
    BY <1>1, <2>1, <2>3, <2>4 DEF Single
  <2> QED  BY <2>1, <2>3, <2>5 DEF Shrinks
<1>9. ASSUME NEW k \in PendingJobs, InReady(k) PROVE InReady(k)'
  <2>1. k \in Jobs /\ QueueOf[k] \in Queues
    BY <1>0, MemoryAssumption DEF PendingJobs
  <2>2. QueueOf[k] # q
    BY <1>3, <1>9 DEF InReady
  <2> QED  BY <1>4, <1>9, <2>1, <2>2 DEF InReady
<1> QED  BY <1>1, <1>7, <1>8, <1>9

\* Lists that are filtered.
LEMMA ListsFiltered ==
    ASSUME MemInv,
           ready' \in [Queues -> Seq(Jobs)], delayed' \in Seq(Jobs),
           \A q \in Queues : \A k : /\ In(ready'[q], k) => In(ready[q], k)
                                    /\ AtMostOnce(ready[q], k) => AtMostOnce(ready'[q], k),
           \A k : /\ In(delayed', k) => In(delayed, k)
                  /\ AtMostOnce(delayed, k) => AtMostOnce(delayed', k)
    PROVE  ListsTyped' /\ Homes' /\ \A k \in Jobs : Shrinks(k)
<1>1. ListsTyped' /\ Homes'
  BY MemInvParts DEF ListsTyped, Homes
<1>2. ASSUME NEW k \in Jobs PROVE Shrinks(k)
  <2>1. QueueOf[k] \in Queues
    BY MemoryAssumption
  <2>2. (InReady(k)' => InReady(k)) /\ (InDelayed(k)' => InDelayed(k))
    BY <2>1 DEF InReady, InDelayed
  <2>3. Single(k) => Single(k)'
    BY <2>1, <2>2 DEF Single
  <2> QED  BY <2>2, <2>3 DEF Shrinks
<1> QED  BY <1>1, <1>2

LEMMA PruneFacts ==
    ASSUME MemInv, NEW S, Prune(S)
    PROVE  /\ MemInv' /\ obj' = obj /\ jobs' = jobs \ S
           /\ \A k \in Jobs : Shrinks(k)
           /\ \A k \in Jobs \ S : (InReady(k)' <=> InReady(k)) /\ (InDelayed(k)' <=> InDelayed(k))
<1>0. /\ obj \in [Jobs -> Payload] /\ jobs \subseteq Jobs /\ IsFiniteSet(jobs)
      /\ ListsTyped /\ Homes
  BY MemInvParts
<1>1. /\ jobs' = jobs \ S /\ obj' = obj
      /\ ready' = [q \in Queues |-> Without(ready[q], S)] /\ delayed' = Without(delayed, S)
  BY DEF Prune
<1>2. ASSUME NEW s \in Seq(Jobs)
      PROVE  /\ Without(s, S) \in Seq(Jobs)
             /\ \A k : /\ In(Without(s, S), k) => In(s, k)
                       /\ AtMostOnce(s, k) => AtMostOnce(Without(s, S), k)
             /\ \A k : k \notin S => (In(s, k) => In(Without(s, S), k))
  BY WithoutFacts
<1>3. /\ ready' \in [Queues -> Seq(Jobs)] /\ delayed' \in Seq(Jobs)
      /\ \A q \in Queues : \A k : /\ In(ready'[q], k) => In(ready[q], k)
                                  /\ AtMostOnce(ready[q], k) => AtMostOnce(ready'[q], k)
      /\ \A k : /\ In(delayed', k) => In(delayed, k)
                /\ AtMostOnce(delayed, k) => AtMostOnce(delayed', k)
  BY <1>0, <1>1, <1>2 DEF ListsTyped
<1>4. \A k \in Jobs \ S : /\ In(ready[QueueOf[k]], k) => In(ready'[QueueOf[k]], k)
                          /\ In(delayed, k) => In(delayed', k)
  BY <1>0, <1>1, <1>2, MemoryAssumption DEF ListsTyped
<1>5. /\ ListsTyped' /\ Homes'
      /\ \A k \in Jobs : Shrinks(k)
      /\ \A k \in Jobs \ S : (InReady(k)' <=> InReady(k)) /\ (InDelayed(k)' <=> InDelayed(k))
  <2>1. ListsTyped' /\ Homes' /\ \A k \in Jobs : Shrinks(k)
    BY <1>3, ListsFiltered
  <2> QED  BY <1>4, <2>1 DEF Shrinks, InReady, InDelayed
<1>6. IsFiniteSet(jobs')
  BY <1>0, <1>1, FS_Difference
<1>7. MemInv'
  BY <1>0, <1>1, <1>5, <1>6, MemInvNext
<1> QED  BY <1>1, <1>5, <1>7

LEMMA FlushFacts ==
    ASSUME MemInv, NEW q \in Queues, Flush(q)
    PROVE  /\ MemInv' /\ obj' = obj /\ jobs' = {j \in jobs : QueueOf[j] # q}
           /\ \A k \in Jobs : Shrinks(k)
           /\ \A k \in jobs' : (InReady(k)' <=> InReady(k)) /\ (InDelayed(k)' <=> InDelayed(k))
<1>0. /\ obj \in [Jobs -> Payload] /\ jobs \subseteq Jobs /\ IsFiniteSet(jobs)
      /\ ListsTyped /\ Homes
  BY MemInvParts
<1>1. /\ jobs' = {j \in jobs : QueueOf[j] # q} /\ obj' = obj /\ delayed' = delayed
      /\ ready' = [ready EXCEPT ![q] = <<>>]
  BY DEF Flush
<1>2. /\ ready'[q] = <<>> /\ \A r \in Queues : r # q => ready'[r] = ready[r]
      /\ ready' \in [Queues -> Seq(Jobs)]
  BY <1>0, <1>1, EmptySeq DEF ListsTyped
<1>3. \A k : ~In(<<>>, k) /\ AtMostOnce(<<>>, k)
  BY DEF In, AtMostOnce
<1>4. /\ delayed' \in Seq(Jobs) /\ jobs' \in SUBSET Jobs
      /\ \A r \in Queues : \A k : /\ In(ready'[r], k) => In(ready[r], k)
                                  /\ AtMostOnce(ready[r], k) => AtMostOnce(ready'[r], k)
      /\ \A k : /\ In(delayed', k) => In(delayed, k)
                /\ AtMostOnce(delayed, k) => AtMostOnce(delayed', k)
  BY <1>0, <1>1, <1>2, <1>3 DEF ListsTyped
<1>5. \A k \in jobs' : /\ In(ready[QueueOf[k]], k) => In(ready'[QueueOf[k]], k)
                       /\ In(delayed, k) => In(delayed', k)
  BY <1>0, <1>1, <1>2, MemoryAssumption
<1>6. /\ ListsTyped' /\ Homes'
      /\ \A k \in Jobs : Shrinks(k)
      /\ \A k \in jobs' : (InReady(k)' <=> InReady(k)) /\ (InDelayed(k)' <=> InDelayed(k))
  <2>1. ListsTyped' /\ Homes' /\ \A k \in Jobs : Shrinks(k)
    BY <1>2, <1>4, ListsFiltered
  <2> QED  BY <1>4, <1>5, <2>1 DEF Shrinks, InReady, InDelayed
<1>7. IsFiniteSet(jobs')
  <2>1. jobs' \in SUBSET jobs
    BY <1>1
  <2> QED  BY <1>0, <2>1, FS_Subset
<1>8. MemInv'
  BY <1>0, <1>1, <1>4, <1>6, <1>7, MemInvNext
<1> QED  BY <1>1, <1>6, <1>8

LEMMA FlushAllFacts ==
    ASSUME MemInv, FlushAll
    PROVE  MemInv' /\ obj' = obj /\ jobs' = {} /\ \A k \in Jobs : Shrinks(k)
<1>0. /\ obj \in [Jobs -> Payload] /\ jobs \subseteq Jobs /\ IsFiniteSet(jobs)
      /\ ListsTyped /\ Homes
  BY MemInvParts
<1>1. jobs' = {} /\ obj' = obj /\ delayed' = <<>> /\ ready' = [q \in Queues |-> <<>>]
  BY DEF FlushAll
<1>2. <<>> \in Seq(Jobs) /\ \A k : ~In(<<>>, k) /\ AtMostOnce(<<>>, k)
  BY EmptySeq DEF In, AtMostOnce
<1>3. /\ ready' \in [Queues -> Seq(Jobs)] /\ delayed' \in Seq(Jobs)
      /\ \A r \in Queues : \A k : /\ In(ready'[r], k) => In(ready[r], k)
                                  /\ AtMostOnce(ready[r], k) => AtMostOnce(ready'[r], k)
      /\ \A k : /\ In(delayed', k) => In(delayed, k)
                /\ AtMostOnce(delayed, k) => AtMostOnce(delayed', k)
  BY <1>1, <1>2
<1>4. ListsTyped' /\ Homes' /\ \A k \in Jobs : Shrinks(k)
  BY <1>3, ListsFiltered
<1>5. MemInv'
  BY <1>0, <1>1, <1>4, FS_EmptySet, MemInvNext
<1> QED  BY <1>1, <1>4, <1>5

LEMMA StatusCallFacts ==
    ASSUME MemInv, NEW j \in Jobs, NEW st \in Status, SetStatus(j, st)
    PROVE  /\ MemInv' /\ jobs' = jobs \cup {j}
           /\ obj'[j].status = st /\ obj'[j].attempts = obj[j].attempts /\ obj'[j].delay = obj[j].delay
           /\ \A k \in Jobs : k # j => obj'[k] = obj[k]
           /\ \A k \in Jobs : (InReady(k)' <=> InReady(k)) /\ (InDelayed(k)' <=> InDelayed(k)) /\ Shrinks(k)
<1>0. /\ obj \in [Jobs -> Payload] /\ jobs \subseteq Jobs /\ IsFiniteSet(jobs)
  BY MemInvParts
<1> DEFINE e == [obj[j] EXCEPT !.status = st]
<1>1. /\ jobs' = jobs \cup {j} /\ ready' = ready /\ delayed' = delayed
      /\ obj' = [obj EXCEPT ![j] = e]
  BY DEF SetStatus
<1>2. e \in Payload /\ e.status = st /\ e.attempts = obj[j].attempts /\ e.delay = obj[j].delay
  BY <1>0, StatusFacts
<1> HIDE DEF e
<1>3. obj' \in [Jobs -> Payload] /\ obj'[j] = e /\ \A k \in Jobs : k # j => obj'[k] = obj[k]
  BY <1>0, <1>1, <1>2
<1>4. /\ ListsTyped' /\ Homes'
      /\ \A k \in Jobs : (InReady(k)' <=> InReady(k)) /\ (InDelayed(k)' <=> InDelayed(k)) /\ Shrinks(k)
  BY <1>1, SameLists
<1>5. IsFiniteSet(jobs') /\ jobs' \subseteq Jobs
  BY <1>0, <1>1, FS_AddElement
<1>6. MemInv'
  BY <1>3, <1>4, <1>5, MemInvNext
<1> QED  BY <1>1, <1>2, <1>3, <1>4, <1>6

LEMMA ClockFacts ==
    ASSUME MemInv, NEW j \in Jobs, DelayElapses(j) \/ ClaimAges(j)
    PROVE  /\ MemInv' /\ jobs' = jobs
           /\ \A k \in Jobs : /\ obj'[k].status = obj[k].status /\ obj'[k].attempts = obj[k].attempts
                              /\ obj'[k].delay # "none" <=> obj[k].delay # "none"
                              /\ obj'[k].delay = "future" => obj[k].delay = "future"
           /\ \A k \in Jobs : (InReady(k)' <=> InReady(k)) /\ (InDelayed(k)' <=> InDelayed(k)) /\ Shrinks(k)
<1>0. /\ obj \in [Jobs -> Payload] /\ jobs \subseteq Jobs /\ IsFiniteSet(jobs)
  BY MemInvParts
<1> DEFINE d == [obj[j] EXCEPT !.delay = "due"]
           c == [obj[j] EXCEPT !.started = "stale"]
<1>1. jobs' = jobs /\ ready' = ready /\ delayed' = delayed
  BY DEF DelayElapses, ClaimAges
<1>2. \/ obj[j].delay = "future" /\ obj' = [obj EXCEPT ![j] = d]
      \/ obj' = [obj EXCEPT ![j] = c]
  BY DEF DelayElapses, ClaimAges
<1>3. d \in Payload /\ d.status = obj[j].status /\ d.attempts = obj[j].attempts /\ d.delay = "due"
  BY <1>0, DelayFacts DEF Delay
<1>4. c \in Payload /\ c.status = obj[j].status /\ c.attempts = obj[j].attempts /\ c.delay = obj[j].delay
  BY <1>0, StaleFacts
<1> HIDE DEF d, c
<1>5. obj' \in [Jobs -> Payload] /\ \A k \in Jobs : k # j => obj'[k] = obj[k]
  BY <1>0, <1>2, <1>3, <1>4
<1>6. (obj'[j] = d /\ obj[j].delay = "future") \/ obj'[j] = c
  BY <1>0, <1>2
<1>7. \A k \in Jobs : /\ obj'[k].status = obj[k].status /\ obj'[k].attempts = obj[k].attempts
                      /\ obj'[k].delay # "none" <=> obj[k].delay # "none"
                      /\ obj'[k].delay = "future" => obj[k].delay = "future"
  BY <1>3, <1>4, <1>5, <1>6
<1>8. /\ ListsTyped' /\ Homes'
      /\ \A k \in Jobs : (InReady(k)' <=> InReady(k)) /\ (InDelayed(k)' <=> InDelayed(k)) /\ Shrinks(k)
  BY <1>1, SameLists
<1>9. MemInv'
  BY <1>0, <1>1, <1>5, <1>8, MemInvNext
<1> QED  BY <1>1, <1>7, <1>8, <1>9

LEMMA ReleaseFacts ==
    ASSUME MemInv, NEW j \in Jobs, NEW d \in RetryDelays, Release(j, d)
    PROVE  /\ MemInv' /\ jobs' = jobs \cup {j}
           /\ obj'[j].status = "pending" /\ obj'[j].attempts = obj[j].attempts
           /\ d = "future" => obj'[j].delay = "future"
           /\ d = "none" => obj'[j].delay = obj[j].delay
           /\ \A k \in Jobs : k # j => obj'[k] = obj[k]
           /\ \A k \in Jobs : InReady(k)' <=> InReady(k) \/ (k = j /\ d = "none")
           /\ \A k \in Jobs : InDelayed(k)' <=> InDelayed(k) \/ (k = j /\ d = "future")
           /\ \A k \in Jobs : Single(k) /\ (k = j => ~InReady(k) /\ ~InDelayed(k)) => Single(k)'
<1>0. /\ obj \in [Jobs -> Payload] /\ jobs \subseteq Jobs /\ IsFiniteSet(jobs) /\ d \in Delay
      /\ d = "none" \/ d = "future"
  BY MemInvParts DEF RetryDelays, Delay
<1> DEFINE e == [obj[j] EXCEPT !.status = "pending", !.delay = IF d = "none" THEN @ ELSE d]
<1>1. jobs' = jobs \cup {j} /\ obj' = [obj EXCEPT ![j] = e]
  BY DEF Release
<1>2. /\ e \in Payload /\ e.status = "pending" /\ e.attempts = obj[j].attempts
      /\ e.delay = IF d = "none" THEN obj[j].delay ELSE d
  BY <1>0, ReleasedFacts
<1> HIDE DEF e
<1>3. obj' \in [Jobs -> Payload] /\ obj'[j] = e /\ \A k \in Jobs : k # j => obj'[k] = obj[k]
  BY <1>0, <1>1, <1>2
<1>4. IsFiniteSet(jobs') /\ jobs' \subseteq Jobs
  BY <1>0, <1>1, FS_AddElement
<1>5. CASE d = "future"
  <2>1. delayed' = Append(delayed, j) /\ ready' = ready
    BY <1>5 DEF Release
  <2>2. /\ ListsTyped' /\ Homes'
        /\ \A k \in Jobs : InReady(k)' <=> InReady(k)
        /\ \A k \in Jobs : InDelayed(k)' <=> InDelayed(k) \/ k = j
        /\ \A k \in Jobs : Single(k) /\ (k = j => ~InReady(k) /\ ~InDelayed(k)) => Single(k)'
    BY <2>1, Postponed
  <2>3. MemInv'
    BY <1>3, <1>4, <2>2, MemInvNext
  <2> QED  BY <1>1, <1>2, <1>3, <1>5, <2>2, <2>3
<1>6. CASE d = "none"
  <2>1. EnqueueAll({j}) /\ delayed' = delayed
    BY <1>6 DEF Release, Enqueue
  <2>2. IsFiniteSet({j}) /\ {j} \in SUBSET Jobs
    BY FS_Singleton
  <2>3. /\ ListsTyped' /\ Homes'
        /\ \A k \in Jobs : InReady(k)' <=> InReady(k) \/ k \in {j}
        /\ \A k \in Jobs : InDelayed(k)' <=> InDelayed(k)
        /\ \A k \in Jobs : Single(k) /\ (k \in {j} => ~InReady(k) /\ ~InDelayed(k)) => Single(k)'
    BY <2>1, <2>2, Enqueued
  <2>4. MemInv'
    BY <1>3, <1>4, <2>3, MemInvNext
  <2> QED  BY <1>1, <1>2, <1>3, <1>6, <2>3, <2>4
<1> QED  BY <1>0, <1>5, <1>6

LEMMA RequeueStuckFacts ==
    ASSUME MemInv, NEW q \in Queues, RequeueStuck(q)
    PROVE  /\ MemInv' /\ jobs' = jobs
           /\ \A k \in Stuck(q) : k \in Jobs /\ obj[k].status = "processing"
           /\ \A k \in Stuck(q) : /\ obj'[k].status = "pending" /\ obj'[k].attempts = obj[k].attempts
                                  /\ obj'[k].delay = "none"
           /\ \A k \in Jobs : k \notin Stuck(q) => obj'[k] = obj[k]
           /\ \A k \in Jobs : InReady(k)' <=> InReady(k) \/ k \in Stuck(q)
           /\ \A k \in Jobs : InDelayed(k)' <=> InDelayed(k)
           /\ \A k \in Jobs : Single(k) /\ (k \in Stuck(q) => ~InReady(k) /\ ~InDelayed(k)) => Single(k)'
<1>0. /\ obj \in [Jobs -> Payload] /\ jobs \subseteq Jobs /\ IsFiniteSet(jobs) /\ ListsTyped /\ Homes
  BY MemInvParts
<1> DEFINE S == {j \in Stuck(q) : ~Contains(ready[q], j)}
<1>1. /\ obj' = [j \in Jobs |-> IF j \in Stuck(q) THEN Requeued(obj[j]) ELSE obj[j]]
      /\ EnqueueAll(S) /\ jobs' = jobs /\ delayed' = delayed
  BY DEF RequeueStuck
<1>2. \A k \in Stuck(q) : k \in jobs /\ k \in Jobs /\ QueueOf[k] = q /\ obj[k].status = "processing"
  BY <1>0 DEF Stuck
<1>3. S \in SUBSET jobs /\ S \in SUBSET Jobs
  BY <1>2
<1>4. \A k : Contains(ready[q], k) <=> In(ready[q], k)
  BY <1>0 DEF Contains, In, ListsTyped
<1>5. \A k \in Jobs : k \in Stuck(q) <=> k \in S \/ (k \in Stuck(q) /\ InReady(k))
  BY <1>2, <1>4 DEF InReady
<1>6. \A k \in S : k \in Stuck(q)
  OBVIOUS
<1> HIDE DEF S
<1>7. IsFiniteSet(S)
  BY <1>0, <1>3, FS_Subset
<1>8. /\ ListsTyped' /\ Homes'
      /\ \A k \in Jobs : InReady(k)' <=> InReady(k) \/ k \in S
      /\ \A k \in Jobs : InDelayed(k)' <=> InDelayed(k)
      /\ \A k \in Jobs : Single(k) /\ (k \in S => ~InReady(k) /\ ~InDelayed(k)) => Single(k)'
  BY <1>1, <1>3, <1>7, Enqueued
<1>9. \A k \in Jobs : Requeued(obj[k]) \in Payload /\ obj[k] \in Payload
  BY <1>0, RequeuedFacts
<1>10. obj' \in [Jobs -> Payload]
  BY <1>1, <1>9
<1>11. ASSUME NEW k \in Stuck(q)
       PROVE  obj'[k].status = "pending" /\ obj'[k].attempts = obj[k].attempts /\ obj'[k].delay = "none"
  <2>1. obj'[k] = Requeued(obj[k]) /\ obj[k] \in Payload
    BY <1>0, <1>1, <1>2
  <2> QED  BY <2>1, RequeuedFacts
<1>12. \A k \in Jobs : k \notin Stuck(q) => obj'[k] = obj[k]
  BY <1>1
<1>13. MemInv'
  BY <1>0, <1>1, <1>8, <1>10, MemInvNext
<1> QED  BY <1>1, <1>2, <1>5, <1>6, <1>8, <1>11, <1>12, <1>13

LEMMA RetryFacts ==
    ASSUME MemInv, NEW S, Retry(S)
    PROVE  /\ MemInv' /\ jobs' = jobs
           /\ \A k \in S : k \in Jobs /\ k \in jobs /\ obj[k].status = "failed"
           /\ \A k \in S : /\ obj'[k].status = "pending" /\ obj'[k].attempts = obj[k].attempts
                           /\ obj'[k].delay = obj[k].delay
           /\ \A k \in Jobs : k \notin S => obj'[k] = obj[k]
           /\ \A k \in Jobs : InReady(k)' <=> InReady(k) \/ k \in S
           /\ \A k \in Jobs : InDelayed(k)' <=> InDelayed(k)
           /\ \A k \in Jobs : Single(k) /\ (k \in S => ~InReady(k) /\ ~InDelayed(k)) => Single(k)'
<1>0. /\ obj \in [Jobs -> Payload] /\ jobs \subseteq Jobs /\ IsFiniteSet(jobs)
  BY MemInvParts
<1> DEFINE e(j) == [obj[j] EXCEPT !.status = "pending"]
<1>1. /\ obj' = [j \in Jobs |-> IF j \in S THEN e(j) ELSE obj[j]]
      /\ EnqueueAll(S) /\ jobs' = jobs /\ delayed' = delayed
  BY DEF Retry
<1>2. S \in SUBSET jobs /\ S \in SUBSET Jobs /\ \A k \in S : obj[k].status = "failed"
  BY <1>0 DEF Retry
<1>3. IsFiniteSet(S)
  BY <1>0, <1>2, FS_Subset
<1>4. /\ ListsTyped' /\ Homes'
      /\ \A k \in Jobs : InReady(k)' <=> InReady(k) \/ k \in S
      /\ \A k \in Jobs : InDelayed(k)' <=> InDelayed(k)
      /\ \A k \in Jobs : Single(k) /\ (k \in S => ~InReady(k) /\ ~InDelayed(k)) => Single(k)'
  BY <1>1, <1>2, <1>3, Enqueued
<1>5. ASSUME NEW k \in Jobs
      PROVE  /\ e(k) \in Payload /\ obj[k] \in Payload /\ e(k).status = "pending"
             /\ e(k).attempts = obj[k].attempts /\ e(k).delay = obj[k].delay
  BY <1>0, StatusFacts DEF Status
<1> HIDE DEF e
<1>6. obj' \in [Jobs -> Payload]
  BY <1>1, <1>5
<1>7. \A k \in Jobs : obj'[k] = IF k \in S THEN e(k) ELSE obj[k]
  BY <1>1
<1>8. MemInv'
  BY <1>0, <1>1, <1>4, <1>6, MemInvNext
<1> QED  BY <1>1, <1>2, <1>4, <1>5, <1>7, <1>8

LEMMA PromoteFacts ==
    ASSUME MemInv, NEW j \in Jobs, Promote(j)
    PROVE  /\ MemInv' /\ jobs' = jobs /\ j \in jobs /\ obj[j].status = "pending"
           /\ obj'[j].status = "pending" /\ obj'[j].attempts = obj[j].attempts
           /\ obj'[j].delay = "none"
           /\ \A k \in Jobs : k # j => obj'[k] = obj[k]
           /\ \A k \in Jobs : InReady(k)' <=> InReady(k) \/ k = j
           /\ \A k \in Jobs : k # j => (InDelayed(k)' <=> InDelayed(k))
           /\ \A k \in Jobs : Single(k) => Single(k)'
<1>0. /\ obj \in [Jobs -> Payload] /\ jobs \subseteq Jobs /\ IsFiniteSet(jobs) /\ ListsTyped /\ Homes
  BY MemInvParts
<1> DEFINE e == [obj[j] EXCEPT !.delay = "none"]
<1>1. /\ obj' = [obj EXCEPT ![j] = e] /\ jobs' = jobs /\ delayed' = Without(delayed, {j})
      /\ j \in jobs /\ obj[j].status = "pending"
  BY DEF Promote, PendingJobs
<1>2. e \in Payload /\ e.status = obj[j].status /\ e.attempts = obj[j].attempts /\ e.delay = "none"
  BY <1>0, DelayFacts DEF Delay
<1> HIDE DEF e
<1>3. obj' \in [Jobs -> Payload] /\ obj'[j] = e /\ \A k \in Jobs : k # j => obj'[k] = obj[k]
  BY <1>0, <1>1, <1>2
<1>4. /\ delayed' \in Seq(Jobs)
      /\ \A k : In(delayed', k) => In(delayed, k)
      /\ \A k : k # j => (In(delayed, k) <=> In(delayed', k))
      /\ \A k : AtMostOnce(delayed, k) => AtMostOnce(delayed', k)
      /\ AtMostOnce(delayed, j) => ~In(delayed', j)
  BY <1>0, <1>1, WithoutFacts DEF ListsTyped
<1>5. QueueOf[j] \in Queues /\ (Contains(ready[QueueOf[j]], j) <=> InReady(j))
  BY <1>0, MemoryAssumption DEF Contains, In, InReady, ListsTyped
<1>6. /\ ready' \in [Queues -> Seq(Jobs)]
      /\ \A q \in Queues, k \in Jobs :
            /\ In(ready'[q], k) <=> In(ready[q], k) \/ (k = j /\ QueueOf[k] = q)
            /\ AtMostOnce(ready[q], k) => AtMostOnce(ready'[q], k)
  <2>1. CASE Contains(ready[QueueOf[j]], j)
    <3>1. ready' = ready /\ In(ready[QueueOf[j]], j)
      BY <1>5, <2>1 DEF Promote, InReady
    <3> QED  BY <1>0, <3>1 DEF ListsTyped
  <2>2. CASE ~Contains(ready[QueueOf[j]], j)
    <3>1. EnqueueAll({j}) /\ ~In(ready[QueueOf[j]], j)
      BY <1>5, <2>2 DEF Promote, Enqueue, InReady
    <3>2. IsFiniteSet({j}) /\ {j} \in SUBSET Jobs
      BY FS_Singleton
    <3>3. /\ ready' \in [Queues -> Seq(Jobs)]
          /\ \A q \in Queues : \A k :
                In(ready'[q], k) <=> In(ready[q], k) \/ (k \in {j} /\ QueueOf[k] = q)
          /\ \A q \in Queues : \A k :
                AtMostOnce(ready[q], k) /\ (k \in {j} => ~In(ready[q], k)) => AtMostOnce(ready'[q], k)
      BY <3>1, <3>2, EnqueueFacts
    <3>4. \A q \in Queues : ~In(ready[q], j)
      BY <1>0, <3>1 DEF Homes
    <3> QED  BY <3>3, <3>4
  <2> QED  BY <2>1, <2>2
<1>7. ListsTyped' /\ Homes'
  BY <1>0, <1>4, <1>6 DEF ListsTyped, Homes
<1>8. MemInv'
  BY <1>0, <1>1, <1>3, <1>7, MemInvNext
<1>9. \A k \in Jobs : QueueOf[k] \in Queues
  BY MemoryAssumption
<1>10. \A k \in Jobs : InReady(k)' <=> InReady(k) \/ k = j
  BY <1>6, <1>9 DEF InReady
<1>11. \A k \in Jobs : k # j => (InDelayed(k)' <=> InDelayed(k))
  BY <1>4 DEF InDelayed
<1>12. ASSUME NEW k \in Jobs, Single(k) PROVE Single(k)'
  <2>1. AtMostOnce(ready'[QueueOf[k]], k) /\ AtMostOnce(delayed', k)
    BY <1>4, <1>6, <1>9, <1>12 DEF Single
  <2>2. ~(InReady(k)' /\ InDelayed(k)')
    BY <1>4, <1>10, <1>11, <1>12 DEF Single, InDelayed
  <2> QED  BY <2>1, <2>2 DEF Single
<1> QED  BY <1>1, <1>2, <1>3, <1>8, <1>10, <1>11, <1>12

\* Due jobs go from the delayed ids to the list of their queue.
LEMMA PopDelayedFacts ==
    ASSUME MemInv, PopDelayed
    PROVE  /\ MemInv' /\ jobs' = jobs
           /\ \A k \in Jobs : /\ obj'[k].status = obj[k].status /\ obj'[k].attempts = obj[k].attempts
                              /\ obj'[k].delay = "future" <=> obj[k].delay = "future"
           /\ \A k \in Jobs : InReady(k)' =>
                 InReady(k) \/ (InDelayed(k) /\ k \in jobs /\ obj[k].delay = "due")
           /\ \A k \in Jobs : InDelayed(k)' => InDelayed(k)
           /\ \A k \in Jobs : InReady(k) => InReady(k)'
           /\ \A k \in jobs : InDelayed(k) /\ obj[k].delay = "future" => InDelayed(k)'
           /\ \A k \in jobs : InDelayed(k) /\ obj[k].delay = "due" => InReady(k)'
           /\ \A k \in Jobs : Single(k) => Single(k)'
<1>0. /\ obj \in [Jobs -> Payload] /\ jobs \subseteq Jobs /\ IsFiniteSet(jobs) /\ ListsTyped /\ Homes
  BY MemInvParts
<1> DEFINE D == DOMAIN delayed
           gone == {i \in D : delayed[i] \notin jobs}
           moved == {i \in D \ gone : /\ obj[delayed[i]].delay = "due"
                                      /\ \A k \in 1..(i - 1) : delayed[k] # delayed[i]}
           due == {delayed[i] : i \in moved}
           To(q) == {i \in moved : QueueOf[delayed[i]] = q}
           rest == D \ (gone \cup moved)
           e(j) == [obj[j] EXCEPT !.delay = "none"]
<1>1. /\ obj' = [j \in Jobs |-> IF j \in due THEN e(j) ELSE obj[j]]
      /\ ready' = [q \in Queues |-> ready[q] \o Only(delayed, To(q))]
      /\ delayed' = Only(delayed, rest) /\ jobs' = jobs
  BY DEF PopDelayed
<1>2. delayed \in Seq(Jobs) /\ D = 1..Len(delayed) /\ Len(delayed) \in Nat
  BY <1>0 DEF ListsTyped
<1>3. /\ rest \in SUBSET D
      /\ \A i \in moved : /\ i \in D /\ delayed[i] \in jobs /\ obj[delayed[i]].delay = "due"
                          /\ delayed[i] \in due
      /\ \A j \in due : \E i \in moved : delayed[i] = j
      /\ \A q : To(q) \in SUBSET D /\ \A i : i \in To(q) <=> i \in moved /\ QueueOf[delayed[i]] = q
      /\ \A i \in D : i \notin rest /\ i \notin moved => delayed[i] \notin jobs
      /\ \A i \in rest : i \in D /\ i \notin moved
  OBVIOUS
<1>4. \A i, n \in moved : delayed[i] = delayed[n] => i = n
  <2> SUFFICES ASSUME NEW i \in moved, NEW n \in moved, delayed[i] = delayed[n], i # n PROVE FALSE
    OBVIOUS
  <2>1. i \in 1..Len(delayed) /\ n \in 1..Len(delayed)
    BY <1>2
  <2>2. i \in 1..(n - 1) \/ n \in 1..(i - 1)
    BY <1>2, <2>1
  <2> QED  BY <2>2
<1>5. ASSUME NEW k \in jobs, InDelayed(k), obj[k].delay = "due" PROVE k \in due
  <2>1. PICK i \in D : delayed[i] = k /\ \A n \in 1..(i - 1) : delayed[n] # k
    <3>1. In(delayed, k)
      BY <1>5 DEF InDelayed
    <3>2. \E i \in DOMAIN delayed : delayed[i] = k /\ \A n \in 1..(i - 1) : delayed[n] # k
      BY <1>2, <3>1, FirstFacts
    <3> QED  BY <3>2
  <2>2. i \in moved
    BY <1>5, <2>1
  <2> QED  BY <2>1, <2>2
<1> DEFINE T(q) == Only(delayed, To(q))
<1>6. ASSUME NEW q \in Queues
      PROVE  /\ T(q) \in Seq(Jobs)
             /\ \A k : In(T(q), k) <=> k \in due /\ QueueOf[k] = q
             /\ \A k : AtMostOnce(T(q), k)
  <2>1. To(q) \in SUBSET (DOMAIN delayed)
    BY <1>3
  <2> HIDE DEF D, gone, moved, due, To, rest
  <2>2. /\ Only(delayed, To(q)) \in Seq(Jobs)
        /\ \A j : In(Only(delayed, To(q)), j) <=> \E i \in To(q) : delayed[i] = j
        /\ \A j : (\A i, k \in To(q) : delayed[i] = j /\ delayed[k] = j => i = k)
                     => AtMostOnce(Only(delayed, To(q)), j)
    BY <1>2, <2>1, OnlyFacts
  <2>3. \A k : (\E i \in To(q) : delayed[i] = k) <=> k \in due /\ QueueOf[k] = q
    BY <1>3
  <2>4. \A k : \A i, n \in To(q) : delayed[i] = k /\ delayed[n] = k => i = n
    BY <1>3, <1>4
  <2> QED  BY <2>2, <2>3, <2>4
<1> DEFINE r == Only(delayed, rest)
<1>7. /\ r \in Seq(Jobs)
      /\ \A j : In(r, j) <=> \E i \in rest : delayed[i] = j
      /\ \A j : (\A i, k \in rest : delayed[i] = j /\ delayed[k] = j => i = k) => AtMostOnce(r, j)
  <2>1. rest \in SUBSET (DOMAIN delayed)
    BY <1>3
  <2> HIDE DEF rest
  <2> QED  BY <1>2, <2>1, OnlyFacts
<1>8. ready' = [q \in Queues |-> ready[q] \o T(q)] /\ delayed' = r
  BY <1>1
<1>9. \A k \in Jobs : /\ obj[k] \in Payload /\ e(k) \in Payload /\ e(k).delay = "none"
                      /\ e(k).status = obj[k].status /\ e(k).attempts = obj[k].attempts
  BY <1>0, DelayFacts DEF Delay
<1>10. \A k \in due : k \in jobs /\ k \in Jobs /\ obj[k].delay = "due" /\ InDelayed(k)
  BY <1>0, <1>3 DEF InDelayed, In
<1> HIDE DEF T, r, gone, moved, due, To, rest, e
<1>11. ASSUME NEW q \in Queues
       PROVE  /\ ready'[q] \in Seq(Jobs)
              /\ \A k : In(ready'[q], k) <=> In(ready[q], k) \/ (k \in due /\ QueueOf[k] = q)
              /\ \A k : AtMostOnce(ready[q], k) /\ (k \in due => ~In(ready[q], k))
                           => AtMostOnce(ready'[q], k)
  <2>1. ready[q] \in Seq(Jobs) /\ ready'[q] = ready[q] \o T(q)
    BY <1>0, <1>8 DEF ListsTyped
  <2>2. /\ ready[q] \o T(q) \in Seq(Jobs)
        /\ \A k : In(ready[q] \o T(q), k) <=> In(ready[q], k) \/ In(T(q), k)
        /\ \A k : AtMostOnce(ready[q], k) /\ AtMostOnce(T(q), k) /\ ~(In(ready[q], k) /\ In(T(q), k))
                     => AtMostOnce(ready[q] \o T(q), k)
    BY <1>6, <2>1, ConcatFacts
  <2> QED  BY <1>6, <2>1, <2>2
<1>12. /\ \A k : In(delayed', k) => In(delayed, k)
       /\ \A k : AtMostOnce(delayed, k) => AtMostOnce(delayed', k)
       /\ \A k : AtMostOnce(delayed, k) /\ k \in due => ~In(delayed', k)
  <2>1. \A i \in rest : i \in DOMAIN delayed
    BY <1>3
  <2>2. \A j : In(delayed', j) <=> \E i \in rest : delayed[i] = j
    BY <1>7, <1>8
  <2>3. \A k : In(delayed', k) => In(delayed, k)
    BY <2>1, <2>2 DEF In
  <2>4. ASSUME NEW k, AtMostOnce(delayed, k) PROVE AtMostOnce(delayed', k)
    <3>1. \A i, n \in rest : delayed[i] = k /\ delayed[n] = k => i = n
      BY <2>1, <2>4 DEF AtMostOnce
    <3> QED  BY <1>7, <1>8, <3>1
  <2>5. ASSUME NEW k, AtMostOnce(delayed, k), k \in due PROVE ~In(delayed', k)
    <3>1. PICK i \in moved : delayed[i] = k
      BY <1>3, <2>5
    <3>2. i \in DOMAIN delayed /\ i \notin rest
      BY <1>3
    <3>3. \A n \in rest : delayed[n] # k
      BY <2>1, <2>5, <3>1, <3>2 DEF AtMostOnce
    <3> QED  BY <2>2, <3>3
  <2> QED  BY <2>3, <2>4, <2>5
<1>13. ListsTyped' /\ Homes'
  <2>1. ready' \in [Queues -> Seq(Jobs)]
    <3>1. ready' = [q \in Queues |-> ready'[q]]
      BY <1>8
    <3> QED  BY <1>11, <3>1
  <2> QED  BY <1>0, <1>7, <1>8, <1>11, <2>1 DEF ListsTyped, Homes
<1>14. obj' \in [Jobs -> Payload] /\ \A k \in Jobs : obj'[k] = IF k \in due THEN e(k) ELSE obj[k]
  BY <1>1, <1>9
<1>15. MemInv'
  BY <1>0, <1>1, <1>13, <1>14, MemInvNext
<1>16. \A k \in Jobs : /\ obj'[k].status = obj[k].status /\ obj'[k].attempts = obj[k].attempts
                       /\ obj'[k].delay = "future" <=> obj[k].delay = "future"
  BY <1>9, <1>10, <1>14
<1>17. \A k \in Jobs : QueueOf[k] \in Queues
  BY MemoryAssumption
<1>18. \A k \in Jobs : InReady(k)' <=> InReady(k) \/ k \in due
  BY <1>11, <1>17 DEF InReady
<1>19. ASSUME NEW k \in jobs, InDelayed(k), obj[k].delay = "future" PROVE InDelayed(k)'
  <2>1. PICK i \in D : delayed[i] = k
    BY <1>19 DEF InDelayed, In
  <2>2. i \notin moved
    BY <1>3, <1>19, <2>1
  <2>3. i \in rest
    BY <1>3, <2>1, <2>2
  <2> QED  BY <1>7, <1>8, <2>1, <2>3 DEF InDelayed
<1>20. ASSUME NEW k \in Jobs, Single(k) PROVE Single(k)'
  <2>1. AtMostOnce(ready'[QueueOf[k]], k)
    BY <1>10, <1>11, <1>17, <1>20 DEF Single, InReady
  <2>2. AtMostOnce(delayed', k)
    BY <1>12, <1>20 DEF Single
  <2>3. ~(InReady(k)' /\ InDelayed(k)')
    BY <1>12, <1>18, <1>20 DEF Single, InDelayed
  <2> QED  BY <2>1, <2>2, <2>3 DEF Single
<1>21. \A k \in Jobs : InDelayed(k)' => InDelayed(k)
  BY <1>12 DEF InDelayed
<1> QED  BY <1>1, <1>5, <1>10, <1>15, <1>16, <1>18, <1>19, <1>20, <1>21, <1>0

-----------------------------------------------------------------------------
(***************************************************************************)
(* The supervisor: its tasks and its pool.                                 *)
(***************************************************************************)

TaskType == [pc : {"created", "idle", "running", "recorded", "failed", "ended"},
             on : BOOLEAN, job : Jobs \cup {NoJob}, late : BOOLEAN, deaf : BOOLEAN]

\* A task as it is spawned, before and after stop() has cancelled the tasks.
Created == [Ended EXCEPT !.pc = "created", !.late = stop \in {"tasks", "done"}]

SameHistory(t, u) == t.late = u.late /\ t.deaf = u.deaf

LEMMA TaskFacts ==
    /\ Ended \in TaskType /\ Ended.pc = "ended" /\ Ended.on = FALSE /\ Ended.job = NoJob
    /\ Created \in TaskType /\ Created.pc = "created" /\ Created.on = FALSE
    /\ stop \in {"tasks", "done"} => Created.late
<1> DEFINE b == stop \in {"tasks", "done"}
<1>1. Ended \in TaskType /\ Ended.pc = "ended" /\ Ended.on = FALSE /\ Ended.job = NoJob
  BY DEF TaskType, Ended
<1>2. b \in BOOLEAN
  OBVIOUS
<1>3. Created = [Ended EXCEPT !.pc = "created", !.late = b]
  BY DEF Created
<1> HIDE DEF b
<1>4. Created \in TaskType /\ Created.pc = "created" /\ Created.on = FALSE /\ Created.late = b
  BY <1>2, <1>3 DEF TaskType, Ended
<1> QED  BY <1>1, <1>4 DEF b

LEMMA ToldToStop ==
    ASSUME NEW t \in TaskType
    PROVE  LET n == [t EXCEPT !.on = FALSE] IN
           n \in TaskType /\ n.pc = t.pc /\ n.job = t.job /\ n.on = FALSE /\ SameHistory(n, t)
BY DEF TaskType, SameHistory

LEMMA SentAway ==
    ASSUME NEW t \in TaskType
    PROVE  LET n == [t EXCEPT !.on = FALSE, !.deaf = (t.pc = "created")] IN
           /\ n \in TaskType /\ n.pc = t.pc /\ n.job = t.job /\ n.on = FALSE
           /\ n.late = t.late /\ (n.pc = "created" => n.deaf)
BY DEF TaskType

LEMMA SupTypes ==
    SupTypeOK => /\ task \in [Tasks -> TaskType] /\ pool \in Seq(Tasks) /\ spawned \subseteq Tasks
                 /\ Len(pool) \in Nat
BY DEF SupTypeOK, TaskType

LEMMA ClampFacts ==
    ASSUME NEW n \in Int
    PROVE  Clamp(n) \in MinWorkers..MaxWorkers /\ Clamp(n) \in Nat
BY SupervisorAssumption DEF Clamp

\* n new tasks are created under numbers that were free, and join the pool.
LEMMA SpawnFacts ==
    ASSUME SupTypeOK, NEW n \in Nat, Spawn(n)
    PROVE  /\ pool' \in Seq(Tasks) /\ Len(pool') = Len(pool) + n
           /\ \A w : w \in ToSet(pool) => w \in ToSet(pool')
           /\ spawned \subseteq spawned' /\ spawned' \subseteq Tasks
           /\ task' \in [Tasks -> TaskType]
           /\ \A w \in Tasks : \/ task'[w] = task[w]
                               \/ /\ ~Alive(w) /\ task'[w] = Created
                                  /\ w \in spawned' /\ w \in ToSet(pool')
<1> DEFINE new == [i \in 1..n |-> Nth(Free, i)]
<1>1. /\ n <= Cardinality(Free) /\ pool' = pool \o new
      /\ spawned' = spawned \cup ToSet(new)
      /\ task' = [w \in Tasks |-> IF w \in ToSet(new) THEN Created ELSE task[w]]
  BY DEF Spawn, Created
<1>2. Free \in SUBSET Tasks /\ \A w \in Free : ~Alive(w)
  BY DEF Free
<1>3. /\ Cardinality(Free) \in Nat
      /\ \A i \in 1..Cardinality(Free) : Nth(Free, i) \in Free
  BY <1>2, SupervisorAssumption, NthFacts
<1>4. \A i \in 1..n : Nth(Free, i) \in Free
  BY <1>1, <1>3
<1>5. new \in Seq(Tasks) /\ Len(new) = n /\ DOMAIN new = 1..n
  BY <1>2, <1>4
<1>6. \A w \in ToSet(new) : w \in Free
  BY <1>4 DEF ToSet
<1> HIDE DEF new
<1>7. pool \in Seq(Tasks) /\ spawned \subseteq Tasks /\ task \in [Tasks -> TaskType]
  BY SupTypes
<1>8. /\ pool' \in Seq(Tasks) /\ Len(pool') = Len(pool) + n
      /\ \A w : In(pool', w) <=> In(pool, w) \/ In(new, w)
  BY <1>1, <1>5, <1>7, ConcatFacts
<1>9. \A w : w \in ToSet(pool') <=> w \in ToSet(pool) \/ w \in ToSet(new)
  BY <1>8 DEF ToSet, In
<1>10. task' \in [Tasks -> TaskType]
  BY <1>1, <1>7, TaskFacts
<1>11. \A w \in Tasks : \/ task'[w] = task[w]
                        \/ /\ ~Alive(w) /\ task'[w] = Created
                           /\ w \in spawned' /\ w \in ToSet(pool')
  BY <1>1, <1>2, <1>6, <1>9
<1> QED  BY <1>1, <1>2, <1>6, <1>7, <1>8, <1>9, <1>10, <1>11

\* Told to stop, and taking no job more unless it was too early for that.
Deafened(w) == ~task[w].on /\ (task[w].pc = "created" => task[w].deaf)

\* The pool is cut, and who leaves it is told to stop.
LEMMA DismissFacts ==
    ASSUME SupTypeOK, NEW n \in Nat, n <= Len(pool), Dismiss(n)
    PROVE  /\ pool' \in Seq(Tasks) /\ Len(pool') = n
           /\ spawned' = spawned
           /\ task' \in [Tasks -> TaskType]
           /\ \A w \in Tasks : /\ task'[w].pc = task[w].pc /\ task'[w].job = task[w].job
                               /\ task'[w].on => task[w].on
                               /\ task'[w].late = task[w].late
                               /\ \/ /\ task'[w] = task[w]
                                     /\ w \in ToSet(pool) => w \in ToSet(pool')
                                  \/ Deafened(w)'
<1> DEFINE m == Len(pool)
           left == ToSet(SubSeq(pool, n + 1, Len(pool)))
           e(w) == [task[w] EXCEPT !.on = FALSE, !.deaf = (task[w].pc = "created")]
<1>1. /\ pool' = SubSeq(pool, 1, n) /\ spawned' = spawned
      /\ task' = [w \in Tasks |-> IF w \in left THEN e(w) ELSE task[w]]
  BY DEF Dismiss
<1>2. pool \in Seq(Tasks) /\ m \in Nat /\ DOMAIN pool = 1..m /\ task \in [Tasks -> TaskType]
  BY SupTypes
<1>3. ASSUME NEW w \in Tasks
      PROVE  /\ e(w) \in TaskType /\ e(w).pc = task[w].pc /\ e(w).job = task[w].job
             /\ e(w).on = FALSE /\ task[w] \in TaskType
             /\ e(w).late = task[w].late /\ (e(w).pc = "created" => e(w).deaf)
  BY <1>2, SentAway
<1>4. /\ pool' \in Seq(Tasks) /\ Len(pool') = n
      /\ \A w : In(pool', w) <=> \E i \in 1..n : pool[i] = w
  <2>1. 1 \in 1..(m + 1) /\ n \in 0..m
    BY <1>2
  <2>2. /\ SubSeq(pool, 1, n) \in Seq(Tasks)
        /\ Len(SubSeq(pool, 1, n)) = IF 1 <= n THEN (n - 1) + 1 ELSE 0
        /\ \A w : In(SubSeq(pool, 1, n), w) <=> \E i \in 1..n : pool[i] = w
    BY <1>2, <2>1, SubSeqFacts
  <2>3. Len(SubSeq(pool, 1, n)) = n
    BY <2>2
  <2>4. pool' = SubSeq(pool, 1, n)
    BY <1>1
  <2> QED  BY <2>2, <2>3, <2>4
<1>5. \A w : w \in left <=> \E i \in (n + 1)..m : pool[i] = w
  <2>1. n + 1 \in 1..(m + 1) /\ m \in 0..m
    BY <1>2
  <2>2. \A w : In(SubSeq(pool, n + 1, Len(pool)), w) <=> \E i \in (n + 1)..m : pool[i] = w
    BY <1>2, <2>1, SubSeqFacts
  <2> QED  BY <2>2 DEF ToSet, In
<1>6. \A w : w \in ToSet(pool) => w \in ToSet(pool') \/ w \in left
  <2> SUFFICES ASSUME NEW i \in 1..m PROVE pool[i] \in ToSet(pool') \/ pool[i] \in left
    BY <1>2 DEF ToSet
  <2>1. CASE i <= n
    <3>1. i \in 1..n
      BY <1>2, <2>1
    <3>2. In(pool', pool[i])
      BY <1>4, <3>1
    <3>3. pool[i] \in ToSet(pool')
      BY <3>2 DEF ToSet, In
    <3> QED  BY <3>3
  <2>2. CASE ~(i <= n)
    <3>1. i \in (n + 1)..m
      BY <1>2, <2>2
    <3> QED  BY <1>5, <3>1
  <2> QED  BY <2>1, <2>2
<1> HIDE DEF left, e, m
<1>7. task' \in [Tasks -> TaskType] /\ \A w \in Tasks : task'[w] = IF w \in left THEN e(w) ELSE task[w]
  BY <1>1, <1>2, <1>3
<1> QED  BY <1>1, <1>3, <1>4, <1>6, <1>7 DEF Deafened

LEMMA ScaleFacts ==
    ASSUME SupTypeOK, NEW count \in Int, Scale(count)
    PROVE  /\ UNCHANGED <<up, start, starts, stop, aux>> /\ crowded' = FALSE
           /\ CallsHastily
           /\ \E n \in MinWorkers..MaxWorkers :
                 \/ n > Len(pool) /\ n - Len(pool) \in Nat /\ Spawn(n - Len(pool))
                 \/ n \in Nat /\ n <= Len(pool) /\ Dismiss(n)
<1> DEFINE n == Clamp(count)
<1>1. n \in MinWorkers..MaxWorkers /\ n \in Nat /\ Len(pool) \in Nat
  BY ClampFacts, SupTypes
<1>2. IF n > Len(pool) THEN Spawn(n - Len(pool)) ELSE Dismiss(n)
  BY DEF Scale
<1> HIDE DEF n
<1>3. n > Len(pool) => n - Len(pool) \in Nat
  BY <1>1
<1>4. ~(n > Len(pool)) => n <= Len(pool)
  BY <1>1
<1>5. \/ n > Len(pool) /\ n - Len(pool) \in Nat /\ Spawn(n - Len(pool))
      \/ n \in Nat /\ n <= Len(pool) /\ Dismiss(n)
  BY <1>1, <1>2, <1>3, <1>4
<1> QED  BY <1>1, <1>5 DEF Scale

\* A worker goes on with its loop, other than to begin it or to end it.
WorkerMoves(w) ==
    /\ task[w].pc \in {"idle", "running", "recorded", "failed"}
    /\ task' \in [Tasks -> TaskType]
    /\ task'[w].pc # "created" /\ (task'[w].on => task[w].on /\ Alive(w)')
    /\ Alive(w)' => SameHistory(task'[w], task[w])
    /\ \A v \in Tasks : v # w => task'[v] = task[v]
    /\ UNCHANGED <<up, start, starts, stop, pool, spawned, aux, hasty, crowded>>

\* What a step may be for the supervisor and its tasks.
SupStep ==
    \/ UNCHANGED supVars
    \/ \E w \in Tasks : WorkerMoves(w) \/ TaskBegins(w) \/ TaskEnds(w)
    \/ \E n \in Int : Scale(n)
    \/ StartCalled \/ StopCalled \/ StartSpawns \/ StartLoops
    \/ StopWorkers \/ StopCancels \/ StopClears

LEMMA Goes ==
    ASSUME SupTypeOK, NEW w \in Tasks, NEW n \in TaskType, n.pc # "created",
           n.on => task[w].on /\ n.pc # "ended",
           n.pc # "ended" => SameHistory(n, task[w]),
           task[w].pc \in {"idle", "running", "recorded", "failed"}, Goto(w, n)
    PROVE  WorkerMoves(w) /\ task'[w] = n
<1>1. /\ task' = [task EXCEPT ![w] = n]
      /\ UNCHANGED <<up, start, starts, stop, pool, spawned, aux, hasty, crowded>>
  BY DEF Goto
<1>2. task \in [Tasks -> TaskType]
  BY SupTypes
<1>3. /\ task' \in [Tasks -> TaskType] /\ task'[w] = n
      /\ \A v \in Tasks : v # w => task'[v] = task[v]
  BY <1>1, <1>2
<1> QED  BY <1>1, <1>3 DEF WorkerMoves, Alive

Taken(t, j) == [t EXCEPT !.pc = "running", !.job = j]

Through(t, p) == [t EXCEPT !.pc = p]

Rested(t) == [t EXCEPT !.pc = "idle", !.job = NoJob]

LEMMA MoveFacts ==
    ASSUME NEW t \in TaskType
    PROVE  /\ \A j \in Jobs : /\ Taken(t, j) \in TaskType /\ Taken(t, j).on = t.on
                              /\ Taken(t, j).pc = "running" /\ Taken(t, j).job = j
                              /\ SameHistory(Taken(t, j), t)
           /\ \A p \in {"recorded", "failed"} :
                 /\ Through(t, p) \in TaskType /\ Through(t, p).on = t.on
                 /\ Through(t, p).pc = p /\ SameHistory(Through(t, p), t)
           /\ Rested(t) \in TaskType /\ Rested(t).on = t.on /\ Rested(t).pc = "idle"
           /\ SameHistory(Rested(t), t)
BY DEF TaskType, Taken, Through, Rested, SameHistory

LEMMA TakeMoves ==
    ASSUME SupTypeOK, NEW w \in Tasks, NEW j \in Jobs, task[w].pc = "idle",
           Goto(w, [task[w] EXCEPT !.pc = "running", !.job = j])
    PROVE  WorkerMoves(w) /\ task'[w].pc = "running" /\ task'[w].job = j
<1> DEFINE n == Taken(task[w], j)
<1>1. task[w] \in TaskType
  BY SupTypes
<1>2. n \in TaskType /\ n.pc = "running" /\ n.job = j /\ n.on = task[w].on
      /\ SameHistory(n, task[w])
  BY <1>1, MoveFacts
<1>3. Goto(w, n)
  BY DEF Taken
<1> HIDE DEF n
<1> QED  BY <1>2, <1>3, Goes

LEMMA OutcomeMoves ==
    ASSUME SupTypeOK, NEW w \in Tasks, NEW p \in {"recorded", "failed"}, task[w].pc = "running",
           Goto(w, [task[w] EXCEPT !.pc = p])
    PROVE  WorkerMoves(w) /\ task'[w].pc # "running"
<1> DEFINE n == Through(task[w], p)
<1>1. task[w] \in TaskType
  BY SupTypes
<1>2. n \in TaskType /\ n.pc = p /\ n.on = task[w].on /\ SameHistory(n, task[w])
  BY <1>1, MoveFacts
<1>3. Goto(w, n)
  BY DEF Through
<1> HIDE DEF n
<1> QED  BY <1>2, <1>3, Goes

LEMMA FinishMoves ==
    ASSUME SupTypeOK, NEW w \in Tasks, FinishJob(w)
    PROVE  WorkerMoves(w) /\ task'[w].pc # "running"
<1> DEFINE n == Rested(task[w])
<1>1. task[w] \in TaskType
  BY SupTypes
<1>2. n \in TaskType /\ n.pc = "idle" /\ n.on = task[w].on /\ SameHistory(n, task[w])
  BY <1>1, MoveFacts
<1>3. /\ task[w].pc \in {"recorded", "failed"}
      /\ Goto(w, IF task[w].pc = "failed" /\ task[w].job \in broken THEN Ended ELSE n)
  BY DEF FinishJob, Rested
<1> HIDE DEF n
<1>4. CASE Goto(w, n)
  BY <1>2, <1>3, <1>4, Goes
<1>5. CASE Goto(w, Ended)
  BY <1>3, <1>5, TaskFacts, Goes
<1> QED  BY <1>3, <1>4, <1>5

\* What the balancer asks for is a number.
LEMMA BalancerFacts ==
    ASSUME SupTypeOK
    PROVE  AutoRecommends(Len(pool)) \in Int /\ SimpleRecommends \in Int
<1>1. Len(pool) \in Nat /\ MinWorkers \in Nat
  BY SupTypes, SupervisorAssumption
<1>2. Cardinality(Queues) \in Nat
  BY MemoryWorkersAssumption, FS_CardinalityType
<1> DEFINE c == Len(pool)
<1>3. Clamp(c + 2) \in Int /\ Clamp(c + 1) \in Int /\ Clamp(c - 1) \in Int
  <2>1. c + 2 \in Int /\ c + 1 \in Int /\ c - 1 \in Int
    BY <1>1
  <2> QED  BY <2>1, ClampFacts
<1>4. Clamp(Cardinality(Queues)) \in Int
  BY <1>2, ClampFacts
<1>5. AutoRecommends(c) \in {MinWorkers, Clamp(c + 2), Clamp(c + 1), Clamp(c - 1), c}
  BY DEF AutoRecommends
<1>6. SimpleRecommends \in {Clamp(Cardinality(Queues)), MinWorkers}
  BY DEF SimpleRecommends
<1> QED  BY <1>1, <1>3, <1>4, <1>5, <1>6

\* The supervisor's own steps: everything in SupStep but the workers' moves.
OwnStep ==
    \/ \E w \in Tasks : TaskBegins(w) \/ TaskEnds(w)
    \/ \E n \in Int : Scale(n)
    \/ StartCalled \/ StopCalled \/ StartSpawns \/ StartLoops
    \/ StopWorkers \/ StopCancels \/ StopClears

StartsNoRun == \A w \in Tasks : task'[w].pc = "running" =>
                   task[w].pc = "running" /\ task'[w].job = task[w].job

LEMMA BeginsFacts ==
    ASSUME SupTypeOK, NEW w \in Tasks, TaskBegins(w)
    PROVE  /\ task[w].pc = "created" /\ task' \in [Tasks -> TaskType]
           /\ task'[w].pc = "idle" /\ SameHistory(task'[w], task[w])
           /\ \A v \in Tasks : v # w => task'[v] = task[v]
           /\ UNCHANGED <<up, start, starts, stop, pool, spawned, aux, hasty, crowded>>
<1> DEFINE e == [task[w] EXCEPT !.pc = "idle", !.on = TRUE]
<1>1. task[w].pc = "created" /\ task' = [task EXCEPT ![w] = e]
      /\ UNCHANGED <<up, start, starts, stop, pool, spawned, aux, hasty, crowded>>
  BY SupTypes DEF TaskBegins
<1>2. e \in TaskType /\ e.pc = "idle" /\ SameHistory(e, task[w])
  BY SupTypes DEF TaskType, SameHistory
<1> HIDE DEF e
<1> QED  BY <1>1, <1>2, SupTypes

LEMMA EndsFacts ==
    ASSUME SupTypeOK, NEW w \in Tasks, TaskEnds(w)
    PROVE  /\ task' \in [Tasks -> TaskType]
           /\ task'[w] = Ended /\ \A v \in Tasks : v # w => task'[v] = task[v]
           /\ UNCHANGED <<up, start, starts, stop, pool, spawned, aux, hasty, crowded>>
BY SupTypes, TaskFacts DEF TaskEnds

LEMMA StopWorkersFacts ==
    ASSUME SupTypeOK, StopWorkers
    PROVE  /\ task' \in [Tasks -> TaskType]
           /\ \A w \in Tasks : /\ task'[w].pc = task[w].pc /\ task'[w].job = task[w].job
                               /\ task'[w].on => task[w].on
                               /\ SameHistory(task'[w], task[w])
<1> DEFINE e(w) == [task[w] EXCEPT !.on = FALSE]
<1>1. task' = [w \in Tasks |-> IF w \in ToSet(pool) THEN e(w) ELSE task[w]]
  BY DEF StopWorkers
<1>2. ASSUME NEW w \in Tasks
      PROVE  /\ e(w) \in TaskType /\ e(w).pc = task[w].pc /\ e(w).job = task[w].job
             /\ e(w).on = FALSE /\ task[w] \in TaskType /\ SameHistory(e(w), task[w])
  BY SupTypes, ToldToStop
<1> HIDE DEF e
<1> QED  BY <1>1, <1>2 DEF SameHistory

LEMMA StopCancelsFacts ==
    ASSUME SupTypeOK, StopCancels
    PROVE  /\ task' \in [Tasks -> TaskType]
           /\ \A w \in Tasks : \/ w \notin spawned /\ task'[w] = task[w]
                               \/ task'[w] = Ended
BY SupTypes, TaskFacts DEF StopCancels

\* The supervisor's steps keep the types of its tasks, and none starts a job.
LEMMA OwnStepTasks ==
    ASSUME SupTypeOK, OwnStep
    PROVE  task' \in [Tasks -> TaskType] /\ StartsNoRun
<1>1. ASSUME NEW w \in Tasks, TaskBegins(w) PROVE task' \in [Tasks -> TaskType] /\ StartsNoRun
  BY <1>1, BeginsFacts DEF StartsNoRun
<1>2. ASSUME NEW w \in Tasks, TaskEnds(w) PROVE task' \in [Tasks -> TaskType] /\ StartsNoRun
  BY <1>2, EndsFacts, TaskFacts DEF StartsNoRun
<1>3. ASSUME NEW n \in Nat, Spawn(n) PROVE task' \in [Tasks -> TaskType] /\ StartsNoRun
  BY <1>3, SpawnFacts, TaskFacts DEF StartsNoRun
<1>4. ASSUME NEW n \in Nat, n <= Len(pool), Dismiss(n)
      PROVE  task' \in [Tasks -> TaskType] /\ StartsNoRun
  BY <1>4, DismissFacts DEF StartsNoRun
<1>5. ASSUME NEW c \in Int, Scale(c) PROVE task' \in [Tasks -> TaskType] /\ StartsNoRun
  <2>1. PICK n \in MinWorkers..MaxWorkers :
            \/ n > Len(pool) /\ n - Len(pool) \in Nat /\ Spawn(n - Len(pool))
            \/ n \in Nat /\ n <= Len(pool) /\ Dismiss(n)
    BY <1>5, ScaleFacts
  <2> QED  BY <1>3, <1>4, <2>1
<1>6. CASE StartCalled \/ StopCalled \/ StartLoops \/ StopClears
  <2>1. task' = task
    BY <1>6 DEF StartCalled, StopCalled, StartLoops, StopClears
  <2> QED  BY <2>1, SupTypes DEF StartsNoRun
<1>7. CASE StartSpawns
  <2>1. Spawn(MinWorkers) /\ MinWorkers \in Nat
    BY <1>7, SupervisorAssumption DEF StartSpawns
  <2> QED  BY <1>3, <2>1
<1>8. CASE StopWorkers
  BY <1>8, StopWorkersFacts DEF StartsNoRun
<1>9. CASE StopCancels
  BY <1>9, StopCancelsFacts, TaskFacts DEF StartsNoRun
<1> QED  BY <1>1, <1>2, <1>5, <1>6, <1>7, <1>8, <1>9 DEF OwnStep

-----------------------------------------------------------------------------
(***************************************************************************)
(* What a step may be, for the supervisor and for the jobs.                *)
(***************************************************************************)

\* The jobs are left alone, and no worker starts one.
Aside == UNCHANGED <<memVars, grants, rivals>> /\ StartsNoRun

\* A call on the driver, while the workers stay where they are.
Call ==
    \/ \E q \in Queues : PopNothing(q)
    \/ PopDelayed
    \/ \E S \in SUBSET Jobs : Prune(S)
    \/ \E j \in Jobs, d \in Delay : Push(j, d)
    \/ \E j \in Jobs : Promote(j)
    \/ FlushAll \/ \E q \in Queues : Flush(q)
    \/ \E j \in Jobs : DelayElapses(j) \/ ClaimAges(j)

Claims(w, q, j) ==
    /\ task[w].pc = "idle" /\ Pop(q, j)
    /\ Goto(w, [task[w] EXCEPT !.pc = "running", !.job = j])

JobStep ==
    \/ Aside
    \/ \E w \in Tasks, q \in Queues, j \in PendingJobs : Claims(w, q, j)
    \/ \E w \in Tasks : CompleteJob(w) \/ ReleaseJob(w) \/ FailJob(w)
    \/ RecoverStuck \/ RetryFailed
    \/ Call /\ UNCHANGED <<supVars, grants, rivals>>

HeldInv == \A w \in Tasks : task[w].pc = "running" => task[w].job \in Jobs

TypeInv == TypeOK /\ MemInv /\ HeldInv

LEMMA StepCases ==
    ASSUME TypeInv, [Next]_vars
    PROVE  SupStep /\ JobStep /\ (grants' = grants \/ \E S : Grant(S))
           /\ (rivals' = rivals \/ RecoverStuck) /\ broken' = broken
<1> DEFINE Goal == SupStep /\ JobStep /\ (grants' = grants \/ \E S : Grant(S))
                   /\ (rivals' = rivals \/ RecoverStuck) /\ broken' = broken
<1>0. SupTypeOK /\ jobs \subseteq Jobs /\ PendingJobs \subseteq Jobs
  BY MemInvParts DEF TypeInv, TypeOK, PendingJobs
<1>1. ASSUME OwnStep, UNCHANGED <<memVars, broken, grants, rivals>> PROVE Goal
  <2>1. SupStep
    BY <1>1 DEF OwnStep, SupStep
  <2>2. StartsNoRun
    BY <1>0, <1>1, OwnStepTasks
  <2> QED  BY <1>1, <2>1, <2>2 DEF JobStep, Aside
<1>2. ASSUME Call, UNCHANGED <<supVars, broken, grants, rivals>> PROVE Goal
  BY <1>2 DEF SupStep, JobStep
<1>3. ASSUME NEW w \in Tasks, WorkerStep(w) PROVE Goal
  <2>1. CASE (TaskBegins(w) \/ TaskEnds(w)) /\ UNCHANGED <<memVars, broken, grants, rivals>>
    BY <1>1, <2>1 DEF OwnStep
  <2>2. ASSUME NEW q \in Queues, Take(w, q) PROVE Goal
    <3>1. PICK j \in PendingJobs : Claims(w, q, j)
      BY <2>2 DEF Take, Claims
    <3>2. WorkerMoves(w)
      BY <1>0, <3>1, TakeMoves DEF Claims
    <3>3. UNCHANGED <<broken, grants, rivals>>
      BY <3>1 DEF Claims, Goto
    <3> QED  BY <3>1, <3>2, <3>3 DEF SupStep, JobStep
  <2>3. ASSUME NEW q \in Queues, PopEmpty(w, q) PROVE Goal
    BY <1>2, <2>3 DEF PopEmpty, Call
  <2>4. CASE CompleteJob(w) \/ ReleaseJob(w) \/ FailJob(w)
    <3>1. PICK p \in {"recorded", "failed"} :
              task[w].pc = "running" /\ Goto(w, [task[w] EXCEPT !.pc = p])
      BY <2>4 DEF CompleteJob, ReleaseJob, FailJob
    <3>2. WorkerMoves(w)
      BY <1>0, <3>1, OutcomeMoves
    <3>3. UNCHANGED <<broken, grants, rivals>>
      BY <3>1 DEF Goto
    <3> QED  BY <2>4, <3>2, <3>3 DEF SupStep, JobStep
  <2>5. CASE FinishJob(w)
    <3>1. WorkerMoves(w) /\ task'[w].pc # "running"
      BY <1>0, <2>5, FinishMoves
    <3>2. UNCHANGED <<memVars, broken, grants, rivals>>
      BY <2>5 DEF FinishJob, Goto
    <3>3. Aside
      BY <3>1, <3>2 DEF Aside, StartsNoRun, WorkerMoves
    <3> QED  BY <3>1, <3>2, <3>3 DEF SupStep, JobStep
  <2> QED  BY <1>3, <2>1, <2>2, <2>3, <2>4, <2>5 DEF WorkerStep
<1>4. ASSUME SupervisorStep PROVE Goal
  BY <1>1, <1>4 DEF SupervisorStep, OwnStep, StartStep, StopStep
<1>5. ASSUME PollDelayed PROVE Goal
  BY <1>2, <1>5 DEF PollDelayed, Call
<1>6. ASSUME RecoverStuck PROVE Goal
  BY <1>6 DEF RecoverStuck, SupStep, JobStep
<1>7. ASSUME PruneFinished PROVE Goal
  <2>1. PICK S \in SUBSET {j \in jobs : obj[j].status \in Terminal} : Prune(S)
    BY <1>7 DEF PruneFinished
  <2>2. S \in SUBSET Jobs
    BY <1>0
  <2>3. Call
    BY <2>1, <2>2 DEF Call
  <2> QED  BY <1>2, <1>7, <2>3 DEF PruneFinished
<1>8. ASSUME Balance PROVE Goal
  <2>1. PICK n \in {AutoRecommends(Len(pool)), SimpleRecommends} : Scale(n)
    BY <1>8 DEF Balance
  <2>2. n \in Int
    BY <1>0, BalancerFacts
  <2> QED  BY <1>1, <1>8, <2>1, <2>2 DEF Balance, OwnStep
<1>9. ASSUME Dispatch PROVE Goal
  BY <1>2, <1>9 DEF Dispatch, Call
<1>10. ASSUME RetryFailed PROVE Goal
  BY <1>10 DEF RetryFailed, SupStep, JobStep
<1>11. ASSUME Administer PROVE Goal
  <2>1. Call
    <3>1. CASE \E j \in Jobs : Promote(j)
      BY <3>1 DEF Call
    <3>2. CASE \E j \in Jobs : Delete(j)
      <4>1. PICK j \in Jobs : Prune({j})
        BY <3>2 DEF Delete
      <4> QED  BY <4>1 DEF Call
    <3>3. CASE \E S \in SUBSET jobs : Prune(S)
      BY <1>0, <3>3 DEF Call
    <3>4. CASE FlushAll \/ \E q \in Queues : Flush(q)
      BY <3>4 DEF Call
    <3> QED  BY <1>11, <3>1, <3>2, <3>3, <3>4 DEF Administer
  <2> QED  BY <1>2, <1>11, <2>1 DEF Administer
<1>12. ASSUME ScaleCalled PROVE Goal
  <2>1. PICK n \in 0..(MaxWorkers + 1) : Scale(n)
    BY <1>12 DEF ScaleCalled
  <2>2. n \in Int
    OBVIOUS
  <2> QED  BY <1>1, <1>12, <2>1, <2>2 DEF ScaleCalled, OwnStep
<1>13. ASSUME StartOrStop PROVE Goal
  BY <1>1, <1>13 DEF StartOrStop, OwnStep
<1>14. ASSUME TimePasses PROVE Goal
  BY <1>2, <1>14 DEF TimePasses, Call
<1>15. ASSUME UNCHANGED vars PROVE Goal
  BY <1>15 DEF vars, memVars, supVars, SupStep, JobStep, Aside, StartsNoRun
<1> QED
  BY <1>3, <1>4, <1>5, <1>6, <1>7, <1>8, <1>9, <1>10, <1>11, <1>12, <1>13, <1>14, <1>15 DEF Next

LEMMA SupTypesKept ==
    ASSUME SupTypeOK, SupStep
    PROVE  SupTypeOK'
<1>0. /\ up \in BOOLEAN /\ start \in {"off", "emitting", "reporting", "on", "overtaken"}
      /\ starts \in 0..MaxStarts /\ stop \in {"off", "reporting", "loops", "tasks", "done"}
      /\ pool \in Seq(Tasks) /\ spawned \subseteq Tasks /\ aux \subseteq Loops
      /\ task \in [Tasks -> TaskType] /\ crowded \in BOOLEAN /\ hasty \in 0..MaxHasty
  BY DEF SupTypeOK, TaskType
<1>1. CallsHastily => hasty' \in 0..MaxHasty
  BY <1>0, SupervisorAssumption DEF CallsHastily
<1>2. CASE UNCHANGED supVars
  BY <1>0, <1>2 DEF supVars, SupTypeOK, TaskType
<1>3. ASSUME NEW w \in Tasks, WorkerMoves(w) PROVE SupTypeOK'
  BY <1>0, <1>3 DEF WorkerMoves, SupTypeOK, TaskType
<1>4. ASSUME OwnStep PROVE SupTypeOK'
  <2>1. task' \in [Tasks -> TaskType]
    BY <1>4, OwnStepTasks
  <2>2. CASE \E w \in Tasks : TaskBegins(w) \/ TaskEnds(w)
    <3>1. UNCHANGED <<up, start, starts, stop, pool, spawned, aux, hasty, crowded>>
      BY <2>2 DEF TaskBegins, TaskEnds
    <3> QED  BY <1>0, <2>1, <3>1 DEF SupTypeOK, TaskType
  <2>3. ASSUME NEW n \in Nat, Spawn(n) PROVE pool' \in Seq(Tasks) /\ spawned' \subseteq Tasks
    BY <2>3, SpawnFacts
  <2>4. ASSUME NEW c \in Int, Scale(c) PROVE SupTypeOK'
    <3>1. /\ UNCHANGED <<up, start, starts, stop, aux>> /\ crowded' = FALSE /\ CallsHastily
          /\ \E n \in MinWorkers..MaxWorkers :
                \/ n > Len(pool) /\ n - Len(pool) \in Nat /\ Spawn(n - Len(pool))
                \/ n \in Nat /\ n <= Len(pool) /\ Dismiss(n)
      BY <2>4, ScaleFacts
    <3>2. ASSUME NEW n \in Nat, n <= Len(pool), Dismiss(n)
          PROVE  pool' \in Seq(Tasks) /\ spawned' \subseteq Tasks
      BY <1>0, <3>2, DismissFacts
    <3>3. pool' \in Seq(Tasks) /\ spawned' \subseteq Tasks
      BY <2>3, <3>1, <3>2
    <3> QED  BY <1>0, <1>1, <2>1, <3>1, <3>3 DEF SupTypeOK, TaskType
  <2>5. CASE StartCalled \/ StopCalled
    <3>1. starts' \in 0..MaxStarts
      <4>1. (starts' = starts + 1 /\ starts < MaxStarts) \/ starts' = starts
        BY <2>5 DEF StartCalled, StopCalled
      <4> QED  BY <1>0, <4>1, SupervisorAssumption
    <3> QED  BY <1>0, <1>1, <2>1, <2>5, <3>1 DEF StartCalled, StopCalled, SupTypeOK, TaskType
  <2>6. CASE StartSpawns
    <3>1. /\ Spawn(MinWorkers) /\ MinWorkers \in Nat
          /\ start' = "reporting" /\ crowded' \in BOOLEAN
          /\ UNCHANGED <<up, starts, stop, aux, hasty>>
      BY <2>6, SupervisorAssumption DEF StartSpawns
    <3>2. pool' \in Seq(Tasks) /\ spawned' \subseteq Tasks
      BY <2>3, <3>1
    <3> QED  BY <1>0, <2>1, <3>1, <3>2 DEF SupTypeOK, TaskType
  <2>7. CASE StartLoops
    BY <1>0, <2>1, <2>7 DEF StartLoops, Loops, SupTypeOK, TaskType
  <2>8. CASE StopWorkers \/ StopCancels
    BY <1>0, <2>1, <2>8 DEF StopWorkers, StopCancels, SupTypeOK, TaskType
  <2>9. CASE StopClears
    <3>1. pool' \in Seq(Tasks)
      BY <2>9, EmptySeq DEF StopClears
    <3> QED  BY <1>0, <2>1, <2>9, <3>1 DEF StopClears, SupTypeOK, TaskType
  <2> QED  BY <1>4, <2>2, <2>4, <2>5, <2>6, <2>7, <2>8, <2>9 DEF OwnStep
<1> QED  BY <1>2, <1>3, <1>4 DEF SupStep, OwnStep

\* A call on the driver keeps its own invariant.
LEMMA MemKept ==
    ASSUME TypeInv, JobStep
    PROVE  MemInv'
<1>0. MemInv /\ SupTypeOK /\ jobs \subseteq Jobs /\ PendingJobs \subseteq Jobs
  BY MemInvParts DEF TypeInv, TypeOK, PendingJobs
<1>1. CASE Aside
  BY <1>0, <1>1 DEF Aside, memVars, MemInv, MemTypeOK
<1>2. ASSUME NEW w \in Tasks, NEW q \in Queues, NEW j \in PendingJobs, Claims(w, q, j) PROVE MemInv'
  BY <1>0, <1>2, PopFacts DEF Claims
<1>3. ASSUME NEW w \in Tasks, CompleteJob(w) \/ ReleaseJob(w) \/ FailJob(w) PROVE MemInv'
  <2>0. task[w].job \in Jobs
    BY <1>3 DEF TypeInv, HeldInv, CompleteJob, ReleaseJob, FailJob
  <2>1. CASE CompleteJob(w) \/ FailJob(w)
    <3>1. PICK st \in Status : SetStatus(task[w].job, st)
      BY <2>1 DEF CompleteJob, FailJob, Complete, Fail, Status
    <3> QED  BY <1>0, <2>0, <3>1, StatusCallFacts
  <2>2. CASE ReleaseJob(w)
    <3>1. PICK d \in RetryDelays : Release(task[w].job, d)
      BY <2>2 DEF ReleaseJob
    <3> QED  BY <1>0, <2>0, <3>1, ReleaseFacts
  <2> QED  BY <1>3, <2>1, <2>2
<1>4. CASE RecoverStuck
  <2>1. PICK q \in Queues : RequeueStuck(q)
    BY <1>4 DEF RecoverStuck
  <2> QED  BY <1>0, <2>1, RequeueStuckFacts
<1>5. CASE RetryFailed
  <2>1. PICK S : Retry(S)
    BY <1>5 DEF RetryFailed
  <2> QED  BY <1>0, <2>1, RetryFacts
<1>6. CASE Call
  <2>1. ASSUME NEW q \in Queues, PopNothing(q) \/ Flush(q) PROVE MemInv'
    BY <1>0, <2>1, PopNothingFacts, FlushFacts
  <2>2. ASSUME NEW S, Prune(S) PROVE MemInv'
    BY <1>0, <2>2, PruneFacts
  <2>3. ASSUME NEW j \in Jobs, NEW d \in Delay, Push(j, d) PROVE MemInv'
    BY <1>0, <2>3, PushFacts
  <2>4. ASSUME NEW j \in Jobs, Promote(j) \/ DelayElapses(j) \/ ClaimAges(j) PROVE MemInv'
    BY <1>0, <2>4, PromoteFacts, ClockFacts
  <2>5. CASE PopDelayed \/ FlushAll
    BY <1>0, <2>5, PopDelayedFacts, FlushAllFacts
  <2> QED  BY <1>6, <2>1, <2>2, <2>3, <2>4, <2>5 DEF Call
<1> QED  BY <1>1, <1>2, <1>3, <1>4, <1>5, <1>6 DEF JobStep

LEMMA GrantFacts ==
    ASSUME grants \in [Jobs -> Nat], NEW S, Grant(S)
    PROVE  /\ grants' \in [Jobs -> Nat]
           /\ \A j \in Jobs : grants'[j] = grants[j] + IF j \in S THEN 1 ELSE 0
BY DEF Grant

LEMMA HeldKept ==
    ASSUME TypeInv, JobStep
    PROVE  HeldInv'
<1>0. /\ \A w \in Tasks : task[w].pc = "running" => task[w].job \in Jobs
      /\ SupTypeOK /\ PendingJobs \subseteq Jobs
  BY MemInvParts DEF TypeInv, TypeOK, HeldInv, PendingJobs
<1>1. CASE StartsNoRun
  BY <1>0, <1>1 DEF StartsNoRun, HeldInv
<1>2. ASSUME NEW w \in Tasks, NEW q \in Queues, NEW j \in PendingJobs, Claims(w, q, j) PROVE HeldInv'
  <2>1. WorkerMoves(w) /\ task'[w].job = j
    BY <1>0, <1>2, TakeMoves DEF Claims
  <2> QED  BY <1>0, <2>1 DEF WorkerMoves, HeldInv
<1>3. ASSUME NEW w \in Tasks, CompleteJob(w) \/ ReleaseJob(w) \/ FailJob(w) PROVE StartsNoRun
  <2>1. PICK p \in {"recorded", "failed"} :
            task[w].pc = "running" /\ Goto(w, [task[w] EXCEPT !.pc = p])
    BY <1>3 DEF CompleteJob, ReleaseJob, FailJob
  <2>2. WorkerMoves(w) /\ task'[w].pc # "running"
    BY <1>0, <2>1, OutcomeMoves
  <2> QED  BY <2>2 DEF WorkerMoves, StartsNoRun
<1>4. ASSUME RecoverStuck \/ RetryFailed \/ UNCHANGED <<supVars, grants, rivals>> PROVE StartsNoRun
  <2>1. UNCHANGED supVars
    BY <1>4 DEF RecoverStuck, RetryFailed
  <2>2. task' = task
    BY <2>1 DEF supVars
  <2> QED  BY <2>2 DEF StartsNoRun
<1>5. StartsNoRun \/ \E w \in Tasks, q \in Queues, j \in PendingJobs : Claims(w, q, j)
  BY <1>3, <1>4 DEF JobStep, Aside
<1> QED  BY <1>1, <1>2, <1>5

\* The types, the places of the ids, and that a worker that runs holds a job.
THEOREM TypeInvariant == Spec => []TypeInv
<1>1. Init => TypeInv
  <2> SUFFICES ASSUME Init PROVE TypeInv
    OBVIOUS
  <2>1. /\ obj = [j \in Jobs |-> NoPayload] /\ jobs = {}
        /\ ready = [q \in Queues |-> <<>>] /\ delayed = <<>>
    BY DEF Init, MemInit
  <2>2. \A S, j : <<>> \in Seq(S) /\ ~In(<<>>, j)
    BY EmptySeq DEF In
  <2>3. obj \in [Jobs -> Payload] /\ IsFiniteSet(jobs)
    BY <2>1, NoFacts, FS_EmptySet
  <2>4. ListsTyped /\ Homes
    BY <2>1, <2>2 DEF ListsTyped, Homes
  <2>5. MemInv
    BY <2>1, <2>3, <2>4, MemInvParts
  <2>6. task = [w \in Tasks |-> Ended] /\ up = FALSE /\ start = "off" /\ stop = "off" /\ starts = 0
        /\ pool = <<>> /\ spawned = {} /\ aux = {} /\ crowded = FALSE /\ hasty = 0
    BY DEF Init, SupInit
  <2>7. SupTypeOK
    <3>1. pool \in Seq(Tasks) /\ task \in [Tasks -> TaskType]
          /\ 0 \in 0..MaxStarts /\ 0 \in 0..MaxHasty
      BY <2>2, <2>6, TaskFacts, SupervisorAssumption
    <3> QED  BY <2>6, <3>1 DEF SupTypeOK, TaskType
  <2>8. grants \in [Jobs -> Nat] /\ rivals \subseteq Jobs /\ broken \subseteq Jobs
    BY DEF Init
  <2>9. HeldInv
    BY <2>6, TaskFacts DEF HeldInv
  <2> QED  BY <2>5, <2>7, <2>8, <2>9 DEF TypeInv, TypeOK, MemInv
<1>2. TypeInv /\ [Next]_vars => TypeInv'
  <2> SUFFICES ASSUME TypeInv, [Next]_vars PROVE TypeInv'
    OBVIOUS
  <2>1. /\ SupStep /\ JobStep /\ (grants' = grants \/ \E S : Grant(S))
        /\ (rivals' = rivals \/ RecoverStuck) /\ broken' = broken
    BY StepCases
  <2>2. MemInv' /\ HeldInv'
    BY <2>1, MemKept, HeldKept
  <2>3. SupTypeOK'
    BY <2>1, SupTypesKept DEF TypeInv, TypeOK
  <2>4. grants' \in [Jobs -> Nat]
    BY <2>1, GrantFacts DEF TypeInv, TypeOK
  <2>5. rivals' \subseteq Jobs
    <3>1. CASE RecoverStuck
      <4>1. PICK q \in Queues :
                rivals' = rivals \cup {j \in Stuck(q) : \E w \in Tasks : Runs(w, j)}
        BY <3>1 DEF RecoverStuck
      <4>2. Stuck(q) \subseteq Jobs
        BY MemInvParts DEF TypeInv, Stuck
      <4> QED  BY <4>1, <4>2 DEF TypeInv, TypeOK
    <3> QED  BY <2>1, <3>1 DEF TypeInv, TypeOK
  <2> QED  BY <2>1, <2>2, <2>3, <2>4, <2>5 DEF TypeInv, TypeOK, MemInv
<1> QED  BY <1>1, <1>2, PTL DEF Spec

-----------------------------------------------------------------------------
(***************************************************************************)
(* Stopping and scaling.                                                   *)
(***************************************************************************)

\* Where stop() is bounds what still runs: who is alive and not late is among
\* the tasks it cancels, and the flag is up only before it is called.
StopInv ==
    /\ \A w \in Tasks : task[w].on => Alive(w)
    /\ \A w \in Tasks : Alive(w) => w \in spawned \/ task[w].late
    /\ stop \in {"tasks", "done"} => \A w \in Tasks : Alive(w) => task[w].late
    /\ stop \in {"loops", "tasks", "done"} =>
          aux = {} \/ (start = "overtaken" /\ aux = {"pruner"})
    /\ up => stop = "off"

\* Tasks may end, be told to stop and begin, and no task is born.
TasksGoOn == \A w \in Tasks : /\ Alive(w)' => Alive(w) /\ task'[w].late = task[w].late
                              /\ task'[w].on => Alive(w)'

LEMMA StopInvKept ==
    ASSUME SupTypeOK, StopInv, SupStep
    PROVE  StopInv'
<1>0. /\ \A w \in Tasks : task[w].on => Alive(w)
      /\ \A w \in Tasks : Alive(w) => w \in spawned \/ task[w].late
      /\ stop \in {"tasks", "done"} => \A w \in Tasks : Alive(w) => task[w].late
      /\ stop \in {"loops", "tasks", "done"} =>
            aux = {} \/ (start = "overtaken" /\ aux = {"pruner"})
      /\ up => stop = "off"
  BY DEF StopInv
<1>1. ASSUME TasksGoOn, UNCHANGED <<up, start, stop, spawned, aux>> PROVE StopInv'
  BY <1>0, <1>1 DEF TasksGoOn, StopInv
<1>2. CASE UNCHANGED supVars
  <2>1. task' = task /\ UNCHANGED <<up, start, stop, spawned, aux>>
    BY <1>2 DEF supVars
  <2> QED  BY <1>0, <1>1, <2>1 DEF TasksGoOn, Alive
<1>3. ASSUME NEW w \in Tasks, WorkerMoves(w) \/ TaskBegins(w) \/ TaskEnds(w) PROVE StopInv'
  <2>1. UNCHANGED <<up, start, stop, spawned, aux>>
    BY <1>3 DEF WorkerMoves, TaskBegins, TaskEnds
  <2>2. CASE WorkerMoves(w)
    BY <1>0, <1>1, <2>1, <2>2 DEF WorkerMoves, TasksGoOn, Alive, SameHistory
  <2>3. CASE TaskBegins(w)
    BY <1>0, <1>1, <2>1, <2>3, BeginsFacts DEF TasksGoOn, Alive, SameHistory
  <2>4. CASE TaskEnds(w)
    BY <1>0, <1>1, <2>1, <2>4, EndsFacts, TaskFacts DEF TasksGoOn, Alive
  <2> QED  BY <1>3, <2>2, <2>3, <2>4
<1>4. ASSUME NEW n \in Nat, Spawn(n)
      PROVE  /\ \A w \in Tasks : task'[w].on => Alive(w)'
             /\ \A w \in Tasks : Alive(w)' => w \in spawned' \/ task'[w].late
             /\ stop \in {"tasks", "done"} => \A w \in Tasks : Alive(w)' => task'[w].late
  <2>1. /\ spawned \subseteq spawned'
        /\ \A w \in Tasks : task'[w] = task[w] \/ (task'[w] = Created /\ w \in spawned')
    BY <1>4, SpawnFacts
  <2> QED  BY <1>0, <2>1, TaskFacts DEF Alive
<1>5. ASSUME NEW c \in Int, Scale(c) PROVE StopInv'
  <2>1. /\ UNCHANGED <<up, start, stop, aux>>
        /\ \E n \in MinWorkers..MaxWorkers :
              \/ n > Len(pool) /\ n - Len(pool) \in Nat /\ Spawn(n - Len(pool))
              \/ n \in Nat /\ n <= Len(pool) /\ Dismiss(n)
    BY <1>5, ScaleFacts
  <2>2. ASSUME NEW n \in Nat, Spawn(n) PROVE StopInv'
    BY <1>0, <1>4, <2>1, <2>2 DEF StopInv
  <2>3. ASSUME NEW n \in Nat, n <= Len(pool), Dismiss(n) PROVE StopInv'
    <3>1. /\ spawned' = spawned
          /\ \A w \in Tasks : /\ task'[w].pc = task[w].pc /\ (task'[w].on => task[w].on)
                              /\ task'[w].late = task[w].late
      BY <2>3, DismissFacts
    <3> QED  BY <1>0, <1>1, <2>1, <3>1 DEF TasksGoOn, Alive
  <2> QED  BY <2>1, <2>2, <2>3
<1>6. CASE StartCalled
  BY <1>0, <1>6 DEF StartCalled, StopInv, Alive
<1>7. CASE StopCalled
  BY <1>0, <1>7 DEF StopCalled, StopInv, Alive
<1>8. CASE StartSpawns
  <2>1. /\ Spawn(MinWorkers) /\ MinWorkers \in Nat /\ start = "emitting"
        /\ UNCHANGED <<up, stop, aux>>
    BY <1>8, SupervisorAssumption DEF StartSpawns
  <2> QED  BY <1>0, <1>4, <2>1 DEF StopInv
<1>9. CASE StartLoops
  <2>1. /\ UNCHANGED <<up, stop, task, spawned>>
        /\ start' = IF stop \in {"off", "reporting"} THEN "on" ELSE "overtaken"
        /\ aux' = IF up THEN Loops ELSE {"pruner"}
    BY <1>9 DEF StartLoops
  <2>2. stop \in {"loops", "tasks", "done"} => start' = "overtaken" /\ aux' = {"pruner"}
    BY <1>0, <2>1
  <2> QED  BY <1>0, <2>1, <2>2 DEF StopInv, Alive
<1>10. CASE StopWorkers
  <2>1. /\ stop = "reporting" /\ stop' = "loops" /\ aux' = {} /\ UNCHANGED <<up, start, spawned>>
    BY <1>10 DEF StopWorkers
  <2>2. \A w \in Tasks : /\ task'[w].pc = task[w].pc /\ (task'[w].on => task[w].on)
                         /\ task'[w].late = task[w].late
    BY <1>10, StopWorkersFacts DEF SameHistory
  <2> QED  BY <1>0, <2>1, <2>2 DEF StopInv, Alive
<1>11. CASE StopCancels
  <2>1. /\ stop = "loops" /\ stop' = "tasks" /\ UNCHANGED <<up, start, spawned, aux>>
    BY <1>11 DEF StopCancels
  <2>2. \A w \in Tasks : (w \notin spawned /\ task'[w] = task[w]) \/ task'[w] = Ended
    BY <1>11, StopCancelsFacts
  <2>3. \A w \in Tasks : /\ Alive(w)' => task'[w].late
                         /\ task'[w].on => Alive(w)'
    BY <1>0, <2>2, TaskFacts DEF Alive
  <2> QED  BY <1>0, <2>1, <2>3 DEF StopInv
<1>12. CASE StopClears
  BY <1>0, <1>12 DEF StopClears, StopInv, Alive
<1> QED  BY <1>2, <1>3, <1>5, <1>6, <1>7, <1>8, <1>9, <1>10, <1>11, <1>12 DEF SupStep

\* A worker that takes jobs or will: it has been given up by nobody.
Works(w) == /\ task[w].pc = "created" \/ task[w].on
            /\ ~task[w].deaf /\ ~task[w].late

\* Who works for the supervisor is in its pool.  Before start() has spawned
\* its own workers only scale() has set the size of the pool, and afterwards
\* scale() brings it back to what is configured.
PoolInv ==
    /\ \A w \in Tasks : Works(w) => w \in ToSet(pool)
    /\ start \in {"off", "emitting"} \/ (start = "on" /\ stop = "done") => Len(pool) <= MaxWorkers
    /\ start \in {"reporting", "on"} /\ stop = "off" =>
          Len(pool) \in MinWorkers..(IF crowded THEN MaxWorkers + MinWorkers ELSE MaxWorkers)

LEMMA PoolInvKept ==
    ASSUME SupTypeOK, StopInv, PoolInv, SupStep
    PROVE  PoolInv'
<1>0. /\ \A w \in Tasks : Works(w) => w \in ToSet(pool)
      /\ start \in {"off", "emitting"} \/ (start = "on" /\ stop = "done")
            => Len(pool) <= MaxWorkers
      /\ start \in {"reporting", "on"} /\ stop = "off" =>
            Len(pool) \in MinWorkers..(IF crowded THEN MaxWorkers + MinWorkers ELSE MaxWorkers)
  BY DEF PoolInv
<1>s. /\ \A w \in Tasks : task[w].on => Alive(w)
      /\ stop \in {"tasks", "done"} => \A w \in Tasks : Alive(w) => task[w].late
  BY DEF StopInv
<1>n. /\ MinWorkers \in Nat /\ MaxWorkers \in Nat /\ MinWorkers <= MaxWorkers
      /\ Len(pool) \in Nat
  BY SupTypes, SupervisorAssumption
<1>1. ASSUME \A w \in Tasks : Works(w)' => Works(w), UNCHANGED <<start, stop, pool, crowded>>
      PROVE  PoolInv'
  BY <1>0, <1>1 DEF PoolInv
<1>2. CASE UNCHANGED supVars
  <2>1. task' = task /\ UNCHANGED <<start, stop, pool, crowded>>
    BY <1>2 DEF supVars
  <2> QED  BY <1>1, <2>1 DEF Works
<1>3. ASSUME NEW w \in Tasks, WorkerMoves(w) \/ TaskBegins(w) \/ TaskEnds(w) PROVE PoolInv'
  <2>1. UNCHANGED <<start, stop, pool, crowded>>
    BY <1>3 DEF WorkerMoves, TaskBegins, TaskEnds
  <2>2. CASE WorkerMoves(w)
    BY <1>1, <2>1, <2>2 DEF WorkerMoves, Works, SameHistory
  <2>3. CASE TaskBegins(w)
    BY <1>1, <2>1, <2>3, BeginsFacts DEF Works, SameHistory
  <2>4. CASE TaskEnds(w)
    BY <1>1, <2>1, <2>4, EndsFacts, TaskFacts DEF Works
  <2> QED  BY <1>3, <2>2, <2>3, <2>4
<1>4. ASSUME NEW n \in Nat, Spawn(n)
      PROVE  /\ Len(pool') = Len(pool) + n
             /\ \A w \in Tasks : Works(w)' => w \in ToSet(pool')
  <2>1. /\ \A w : w \in ToSet(pool) => w \in ToSet(pool')
        /\ Len(pool') = Len(pool) + n
        /\ \A w \in Tasks : task'[w] = task[w] \/ w \in ToSet(pool')
    BY <1>4, SpawnFacts
  <2> QED  BY <1>0, <2>1 DEF Works
<1>5. ASSUME NEW c \in Int, Scale(c) PROVE PoolInv'
  <2>1. PICK n \in MinWorkers..MaxWorkers :
              \/ n > Len(pool) /\ n - Len(pool) \in Nat /\ Spawn(n - Len(pool))
              \/ n \in Nat /\ n <= Len(pool) /\ Dismiss(n)
    BY <1>5, ScaleFacts
  <2>2. UNCHANGED <<start, stop>> /\ crowded' = FALSE
    BY <1>5, ScaleFacts
  <2>4. /\ Len(pool') = n
        /\ \A w \in Tasks : Works(w)' => w \in ToSet(pool')
    <3>1. CASE n > Len(pool) /\ n - Len(pool) \in Nat /\ Spawn(n - Len(pool))
      <4>1. /\ Len(pool') = Len(pool) + (n - Len(pool))
            /\ \A w \in Tasks : Works(w)' => w \in ToSet(pool')
        BY <1>4, <3>1
      <4>2. Len(pool') = n
        BY <1>n, <4>1
      <4> QED  BY <4>1, <4>2
    <3>2. CASE n \in Nat /\ n <= Len(pool) /\ Dismiss(n)
      <4>1. /\ Len(pool') = n
            /\ \A w \in Tasks : \/ /\ task'[w] = task[w]
                                   /\ w \in ToSet(pool) => w \in ToSet(pool')
                                \/ Deafened(w)'
        BY <3>2, DismissFacts
      <4> QED  BY <1>0, <4>1 DEF Works, Deafened
    <3> QED  BY <2>1, <3>1, <3>2
  <2>5. n \in MinWorkers..MaxWorkers /\ n <= MaxWorkers
    BY <1>n
  <2> QED  BY <2>2, <2>4, <2>5 DEF PoolInv
<1>6. CASE StartCalled
  BY <1>0, <1>6 DEF StartCalled, PoolInv, Works
<1>7. CASE StopCalled
  BY <1>0, <1>7 DEF StopCalled, PoolInv, Works
<1>8. CASE StartSpawns
  <2>1. /\ Spawn(MinWorkers) /\ start = "emitting" /\ start' = "reporting"
        /\ crowded' = (pool # <<>>)
    BY <1>8 DEF StartSpawns
  <2>2. /\ Len(pool') = Len(pool) + MinWorkers
        /\ \A w \in Tasks : Works(w)' => w \in ToSet(pool')
    BY <1>4, <1>n, <2>1
  <2>3. pool = <<>> => Len(pool) = 0
    OBVIOUS
  <2>4. Len(pool') \in MinWorkers..(IF crowded' THEN MaxWorkers + MinWorkers ELSE MaxWorkers)
    <3>1. Len(pool) <= MaxWorkers
      BY <1>0, <2>1
    <3>2. CASE crowded'
      BY <1>n, <2>2, <3>1, <3>2
    <3>3. CASE ~crowded'
      <4>1. Len(pool) = 0
        BY <2>1, <2>3, <3>3
      <4>2. Len(pool') = MinWorkers
        BY <1>n, <2>2, <4>1
      <4> QED  BY <1>n, <3>3, <4>2
    <3> QED  BY <3>2, <3>3
  <2> QED  BY <2>1, <2>2, <2>4 DEF PoolInv
<1>9. CASE StartLoops
  <2>1. /\ start = "reporting" /\ UNCHANGED <<stop, pool, task, crowded>>
        /\ start' = IF stop \in {"off", "reporting"} THEN "on" ELSE "overtaken"
    BY <1>9 DEF StartLoops
  <2> QED  BY <1>0, <2>1 DEF PoolInv, Works
<1>10. CASE StopWorkers
  <2>1. stop' = "loops" /\ UNCHANGED <<start, pool>>
    BY <1>10 DEF StopWorkers
  <2>2. \A w \in Tasks : /\ task'[w].pc = task[w].pc /\ (task'[w].on => task[w].on)
                         /\ SameHistory(task'[w], task[w])
    BY <1>10, StopWorkersFacts
  <2> QED  BY <1>0, <2>1, <2>2 DEF PoolInv, Works, SameHistory
<1>11. CASE StopCancels
  <2>1. stop' = "tasks" /\ UNCHANGED <<start, pool>>
    BY <1>11 DEF StopCancels
  <2>2. \A w \in Tasks : task'[w] = task[w] \/ task'[w] = Ended
    BY <1>11, StopCancelsFacts
  <2> QED  BY <1>0, <2>1, <2>2, TaskFacts DEF PoolInv, Works
<1>12. CASE StopClears
  <2>1. stop = "tasks" /\ stop' = "done" /\ pool' = <<>> /\ UNCHANGED <<start, task>>
    BY <1>12 DEF StopClears
  <2>2. \A w \in Tasks : ~Works(w)
    BY <1>s, <2>1 DEF Alive, Works
  <2>3. \A w \in Tasks : ~Works(w)'
    BY <2>1, <2>2 DEF Works
  <2>4. Len(pool') <= MaxWorkers
    BY <1>n, <2>1
  <2> QED  BY <2>1, <2>3, <2>4 DEF PoolInv
<1> QED  BY <1>2, <1>3, <1>5, <1>6, <1>7, <1>8, <1>9, <1>10, <1>11, <1>12 DEF SupStep

LEMMA SupStarts ==
    ASSUME Init
    PROVE  StopInv /\ PoolInv
<1>1. task = [w \in Tasks |-> Ended] /\ up = FALSE /\ start = "off" /\ stop = "off" /\ pool = <<>>
  BY DEF Init, SupInit
<1>2. Len(pool) <= MaxWorkers
  BY <1>1, SupervisorAssumption
<1> QED  BY <1>1, <1>2, TaskFacts DEF StopInv, PoolInv, Alive, Works

\* When stop() has returned, no worker task is left that existed when it
\* cancelled the tasks, those of scaled-away workers in the middle of a job
\* included, and no loop but the pruner of a start() it has overtaken.  scale()
\* and stop() may come at any time, before, while and after start() and stop()
\* run (Supervisor.stop).
THEOREM StopLeavesNothing == Spec => []StopIsFinal
<1>1. Init => StopInv
  BY SupStarts
<1>2. TypeInv /\ StopInv /\ [Next]_vars => StopInv'
  BY StepCases, StopInvKept DEF TypeInv, TypeOK
<1>3. StopInv => StopIsFinal
  BY DEF StopInv, StopIsFinal
<1> QED  BY <1>1, <1>2, <1>3, TypeInvariant, PTL DEF Spec

\* While the supervisor is started and not stopped its pool has between
\* min_workers and max_workers entries, and at most min_workers more from a
\* start() that found workers in it until the next scale(); a worker that goes
\* on taking jobs is one of them, unless it was spawned behind the back of a
\* stop() or told to stop before it ran (Supervisor.scale, Worker.start).
THEOREM ThePoolIsWhatRuns == Spec => []PoolIsWhatRuns
<1>1. Init => StopInv /\ PoolInv
  BY SupStarts
<1>2. TypeInv /\ StopInv /\ PoolInv /\ [Next]_vars => StopInv' /\ PoolInv'
  BY StepCases, StopInvKept, PoolInvKept DEF TypeInv, TypeOK
<1>3. StopInv /\ PoolInv => PoolIsWhatRuns
  BY DEF StopInv, PoolInv, PoolIsWhatRuns, Works
<1> QED  BY <1>1, <1>2, <1>3, TypeInvariant, PTL DEF Spec

-----------------------------------------------------------------------------
(***************************************************************************)
(* The jobs.                                                               *)
(***************************************************************************)

LEMMA ClaimCase ==
    ASSUME TypeInv, NEW w \in Tasks, NEW q \in Queues, NEW j \in PendingJobs, Claims(w, q, j)
    PROVE  /\ MemInv /\ Pop(q, j) /\ UNCHANGED <<grants, rivals>> /\ j \in Jobs
           /\ Runs(w, j)' /\ \A v \in Tasks : v # w => task'[v] = task[v]
<1>1. SupTypeOK /\ MemInv /\ PendingJobs \subseteq Jobs
  BY MemInvParts DEF TypeInv, TypeOK, PendingJobs
<1>2. WorkerMoves(w) /\ task'[w].pc = "running" /\ task'[w].job = j
  BY <1>1, TakeMoves DEF Claims
<1>3. UNCHANGED <<grants, rivals>>
  BY DEF Claims, Goto
<1> QED  BY <1>1, <1>2, <1>3 DEF Claims, WorkerMoves, Runs

\* A worker is through with its job, whose outcome is recorded.
LEMMA OutcomeCase ==
    ASSUME TypeInv, NEW w \in Tasks, CompleteJob(w) \/ ReleaseJob(w) \/ FailJob(w)
    PROVE  /\ MemInv /\ UNCHANGED <<grants, rivals>>
           /\ task'[w].pc # "running" /\ \A v \in Tasks : v # w => task'[v] = task[v]
           /\ \E j \in Jobs :
                 /\ Runs(w, j)
                 /\ \/ \E st \in Terminal : st \in Status /\ SetStatus(j, st)
                    \/ ShouldRetry(obj[j].attempts) /\ \E d \in RetryDelays : Release(j, d)
<1>1. SupTypeOK /\ MemInv
  BY DEF TypeInv, TypeOK
<1>2. PICK p \in {"recorded", "failed"} :
          task[w].pc = "running" /\ Goto(w, [task[w] EXCEPT !.pc = p])
  BY DEF CompleteJob, ReleaseJob, FailJob
<1>3. WorkerMoves(w) /\ task'[w].pc # "running"
  BY <1>1, <1>2, OutcomeMoves
<1>4. UNCHANGED <<grants, rivals>>
  BY <1>2 DEF Goto
<1> DEFINE j == task[w].job
<1>5. j \in Jobs /\ Runs(w, j)
  BY <1>2 DEF TypeInv, HeldInv, Runs
<1>6. \/ \E st \in Terminal : st \in Status /\ SetStatus(j, st)
      \/ ShouldRetry(obj[j].attempts) /\ \E d \in RetryDelays : Release(j, d)
  BY DEF CompleteJob, ReleaseJob, FailJob, Complete, Fail, Terminal, Status
<1> QED  BY <1>1, <1>3, <1>4, <1>5, <1>6 DEF WorkerMoves

LEMMA SupSame ==
    ASSUME UNCHANGED supVars
    PROVE  task' = task /\ \A w, j : Runs(w, j)' <=> Runs(w, j)
BY DEF supVars, Runs

\* Recovery hands out the jobs that are stuck in a queue once more.
LEMMA RecoverCase ==
    ASSUME RecoverStuck
    PROVE  /\ UNCHANGED supVars
           /\ \E q \in Queues :
                 /\ RequeueStuck(q) /\ Grant(Stuck(q))
                 /\ rivals' = rivals \cup {j \in Stuck(q) : \E w \in Tasks : Runs(w, j)}
BY DEF RecoverStuck

LEMMA RetryCase ==
    ASSUME RetryFailed
    PROVE  UNCHANGED <<supVars, rivals>> /\ \E S : Retry(S) /\ Grant(S)
<1>1. PICK S \in SUBSET {j \in Jobs : grants[j] < MaxGrants} : Retry(S) /\ Grant(S)
  BY DEF RetryFailed
<1> QED  BY <1>1 DEF RetryFailed

-----------------------------------------------------------------------------
(* Who runs a job. *)

\* A job that is run is recorded as processing, and one worker runs it.
RunInv ==
    /\ \A w \in Tasks, j \in Jobs \ rivals : Runs(w, j) => obj[j].status = "processing"
    /\ OneRunner

LEMMA CallLeavesClaims ==
    ASSUME MemInv, Call
    PROVE  \A k \in Jobs : obj[k].status = "processing" => obj'[k].status = "processing"
<1>1. ASSUME NEW q \in Queues, PopNothing(q) \/ Flush(q) PROVE obj' = obj
  BY <1>1, PopNothingFacts, FlushFacts
<1>2. ASSUME NEW S, Prune(S) PROVE obj' = obj
  BY <1>2, PruneFacts
<1>3. ASSUME NEW j \in Jobs, NEW d \in Delay, Push(j, d)
      PROVE  \A k \in Jobs : obj[k].status = "processing" => obj'[k].status = "processing"
  BY <1>3, PushFacts
<1>4. ASSUME NEW j \in Jobs, Promote(j) \/ DelayElapses(j) \/ ClaimAges(j)
      PROVE  \A k \in Jobs : obj[k].status = "processing" => obj'[k].status = "processing"
  BY <1>4, PromoteFacts, ClockFacts
<1>5. CASE PopDelayed \/ FlushAll
  BY <1>5, PopDelayedFacts, FlushAllFacts
<1> QED  BY <1>1, <1>2, <1>3, <1>4, <1>5 DEF Call

LEMMA RunInvKept ==
    ASSUME TypeInv, RunInv, JobStep
    PROVE  RunInv'
<1>0. /\ \A w \in Tasks, j \in Jobs \ rivals : Runs(w, j) => obj[j].status = "processing"
      /\ \A v, w \in Tasks : \A j \in Jobs \ rivals : Runs(v, j) /\ Runs(w, j) => v = w
      /\ MemInv
  BY DEF RunInv, OneRunner, TypeInv
<1>1. ASSUME \A w \in Tasks, j \in Jobs : Runs(w, j)' => Runs(w, j),
             \A w \in Tasks, j \in Jobs \ rivals' : Runs(w, j) => obj'[j].status = "processing",
             rivals \subseteq rivals'
      PROVE  RunInv'
  BY <1>0, <1>1 DEF RunInv, OneRunner
<1>2. CASE Aside
  <2>1. obj' = obj /\ rivals' = rivals
    BY <1>2 DEF Aside, memVars
  <2>2. \A w \in Tasks, j \in Jobs : Runs(w, j)' => Runs(w, j)
    BY <1>2 DEF Aside, StartsNoRun, Runs
  <2> QED  BY <1>0, <1>1, <2>1, <2>2
<1>3. ASSUME NEW w \in Tasks, NEW q \in Queues, NEW j \in PendingJobs, Claims(w, q, j) PROVE RunInv'
  <2>1. /\ Pop(q, j) /\ UNCHANGED <<grants, rivals>> /\ j \in Jobs
        /\ Runs(w, j)' /\ \A v \in Tasks : v # w => task'[v] = task[v]
    BY <1>3, ClaimCase
  <2>2. /\ obj[j].status = "pending" /\ obj'[j].status = "processing"
        /\ \A k \in Jobs : k # j => obj'[k] = obj[k]
    BY <1>0, <2>1, PopFacts
  <2>3. j \notin rivals => \A v \in Tasks : ~Runs(v, j)
    BY <1>0, <2>1, <2>2
  <2>4. \A v \in Tasks, k \in Jobs : Runs(v, k)' => (v = w /\ k = j) \/ (v # w /\ Runs(v, k))
    BY <2>1 DEF Runs
  <2> QED  BY <1>0, <2>1, <2>2, <2>3, <2>4 DEF RunInv, OneRunner
<1>4. ASSUME NEW w \in Tasks, CompleteJob(w) \/ ReleaseJob(w) \/ FailJob(w) PROVE RunInv'
  <2>1. /\ UNCHANGED <<grants, rivals>>
        /\ task'[w].pc # "running" /\ \A v \in Tasks : v # w => task'[v] = task[v]
    BY <1>4, OutcomeCase
  <2>2. PICK j \in Jobs :
            /\ Runs(w, j)
            /\ \/ \E st \in Terminal : st \in Status /\ SetStatus(j, st)
               \/ ShouldRetry(obj[j].attempts) /\ \E d \in RetryDelays : Release(j, d)
    BY <1>4, OutcomeCase
  <2>3. \A k \in Jobs : k # j => obj'[k] = obj[k]
    BY <1>0, <2>2, StatusCallFacts, ReleaseFacts
  <2>4. \A v \in Tasks, k \in Jobs : Runs(v, k)' => v # w /\ Runs(v, k)
    BY <2>1 DEF Runs
  <2>5. j \notin rivals => \A v \in Tasks : ~Runs(v, j)'
    BY <1>0, <2>2, <2>4
  <2> QED  BY <1>0, <2>1, <2>3, <2>4, <2>5 DEF RunInv, OneRunner
<1>5. CASE RecoverStuck
  <2>1. PICK q \in Queues :
            /\ RequeueStuck(q)
            /\ rivals' = rivals \cup {j \in Stuck(q) : \E w \in Tasks : Runs(w, j)}
    BY <1>5, RecoverCase
  <2>2. \A k \in Jobs : k \notin Stuck(q) => obj'[k] = obj[k]
    BY <1>0, <2>1, RequeueStuckFacts
  <2>3. \A w, j : Runs(w, j)' <=> Runs(w, j)
    BY <1>5, RecoverCase, SupSame
  <2> QED  BY <1>0, <1>1, <2>1, <2>2, <2>3
<1>6. CASE RetryFailed
  <2>1. PICK S : Retry(S)
    BY <1>6, RetryCase
  <2>2. /\ \A k \in S : obj[k].status = "failed"
        /\ \A k \in Jobs : k \notin S => obj'[k] = obj[k]
    BY <1>0, <2>1, RetryFacts
  <2>3. rivals' = rivals /\ \A w, j : Runs(w, j)' <=> Runs(w, j)
    BY <1>6, RetryCase, SupSame
  <2> QED  BY <1>0, <1>1, <2>2, <2>3
<1>7. CASE Call /\ UNCHANGED <<supVars, grants, rivals>>
  <2>1. \A k \in Jobs : obj[k].status = "processing" => obj'[k].status = "processing"
    BY <1>0, <1>7, CallLeavesClaims
  <2>2. \A w, j : Runs(w, j)' <=> Runs(w, j)
    BY <1>7, SupSame
  <2> QED  BY <1>0, <1>1, <1>7, <2>1, <2>2
<1> QED  BY <1>2, <1>3, <1>4, <1>5, <1>6, <1>7 DEF JobStep

LEMMA RunStarts ==
    ASSUME Init
    PROVE  RunInv
<1>1. task = [w \in Tasks |-> Ended]
  BY DEF Init, SupInit
<1> QED  BY <1>1, TaskFacts DEF RunInv, OneRunner, Runs

\* No two worker tasks run a job at the same time, unless the recovery of
\* stuck jobs took it from a worker that was still running it.
THEOREM OneWorkerRunsAJob == Spec => []OneRunner
<1>1. Init => RunInv
  BY RunStarts
<1>2. TypeInv /\ RunInv /\ [Next]_vars => RunInv'
  BY StepCases, RunInvKept
<1>3. RunInv => OneRunner
  BY DEF RunInv
<1> QED  BY <1>1, <1>2, <1>3, TypeInvariant, PTL DEF Spec

-----------------------------------------------------------------------------
(* Where a pending job is. *)

\* In its queue's list, or among the delayed ids with a delay that brings it back.
Found(j) == InReady(j) \/ (InDelayed(j) /\ obj[j].delay # "none")

FoundInv == \A j \in PendingJobs : Found(j)

LEMMA CallKeepsFound ==
    ASSUME MemInv, FoundInv, Call
    PROVE  FoundInv'
<1>0. /\ \A j \in jobs : obj[j].status = "pending" => Found(j)
      /\ jobs \subseteq Jobs
      /\ \A j \in Jobs : obj[j].delay \in Delay
  BY MemInvParts DEF FoundInv, PendingJobs, Payload
<1>1. ASSUME \A j \in jobs' : obj'[j].status = "pending" => Found(j)' PROVE FoundInv'
  BY <1>1 DEF FoundInv, PendingJobs
<1>2. ASSUME NEW q \in Queues, PopNothing(q) PROVE FoundInv'
  <2>1. /\ obj' = obj /\ jobs' = jobs
        /\ \A k \in Jobs : InDelayed(k)' <=> InDelayed(k)
        /\ \A k \in PendingJobs : InReady(k) => InReady(k)'
    BY <1>2, PopNothingFacts
  <2> QED  BY <1>0, <1>1, <2>1 DEF Found, PendingJobs
<1>3. ASSUME NEW q \in Queues, Flush(q) PROVE FoundInv'
  <2>1. /\ obj' = obj /\ jobs' \subseteq jobs
        /\ \A k \in jobs' : (InReady(k)' <=> InReady(k)) /\ (InDelayed(k)' <=> InDelayed(k))
    BY <1>3, FlushFacts
  <2> QED  BY <1>0, <1>1, <2>1 DEF Found
<1>4. ASSUME NEW S, Prune(S) PROVE FoundInv'
  <2>1. /\ obj' = obj /\ jobs' = jobs \ S
        /\ \A k \in Jobs \ S : (InReady(k)' <=> InReady(k)) /\ (InDelayed(k)' <=> InDelayed(k))
    BY <1>4, PruneFacts
  <2> QED  BY <1>0, <1>1, <2>1 DEF Found
<1>5. ASSUME NEW j \in Jobs, NEW d \in Delay, Push(j, d) PROVE FoundInv'
  <2>1. /\ jobs' = jobs \cup {j} /\ obj'[j].delay = d
        /\ \A k \in Jobs : k # j => obj'[k] = obj[k]
        /\ \A k \in Jobs : InReady(k)' <=> InReady(k) \/ (k = j /\ d # "future")
        /\ \A k \in Jobs : InDelayed(k)' <=> InDelayed(k) \/ (k = j /\ d = "future")
    BY <1>5, PushFacts
  <2>2. Found(j)'
    BY <2>1 DEF Found
  <2> QED  BY <1>0, <1>1, <2>1, <2>2 DEF Found
<1>6. ASSUME NEW j \in Jobs, Promote(j) PROVE FoundInv'
  <2>1. /\ jobs' = jobs
        /\ \A k \in Jobs : k # j => obj'[k] = obj[k]
        /\ \A k \in Jobs : InReady(k)' <=> InReady(k) \/ k = j
        /\ \A k \in Jobs : k # j => (InDelayed(k)' <=> InDelayed(k))
    BY <1>6, PromoteFacts
  <2> QED  BY <1>0, <1>1, <2>1 DEF Found
<1>7. ASSUME NEW j \in Jobs, DelayElapses(j) \/ ClaimAges(j) PROVE FoundInv'
  <2>1. /\ jobs' = jobs
        /\ \A k \in Jobs : /\ obj'[k].status = obj[k].status
                           /\ obj'[k].delay # "none" <=> obj[k].delay # "none"
        /\ \A k \in Jobs : (InReady(k)' <=> InReady(k)) /\ (InDelayed(k)' <=> InDelayed(k))
    BY <1>7, ClockFacts
  <2> QED  BY <1>0, <1>1, <2>1 DEF Found
<1>8. CASE PopDelayed
  <2>1. /\ jobs' = jobs
        /\ \A k \in Jobs : /\ obj'[k].status = obj[k].status
                           /\ obj'[k].delay = "future" <=> obj[k].delay = "future"
        /\ \A k \in Jobs : InReady(k) => InReady(k)'
        /\ \A k \in jobs : InDelayed(k) /\ obj[k].delay = "future" => InDelayed(k)'
        /\ \A k \in jobs : InDelayed(k) /\ obj[k].delay = "due" => InReady(k)'
    BY <1>8, PopDelayedFacts
  <2>2. ASSUME NEW k \in jobs, Found(k) PROVE Found(k)'
    <3>1. CASE InReady(k)
      BY <1>0, <2>1, <3>1 DEF Found
    <3>2. CASE InDelayed(k) /\ obj[k].delay = "future"
      BY <1>0, <2>1, <3>2 DEF Found
    <3>3. CASE InDelayed(k) /\ obj[k].delay = "due"
      BY <2>1, <3>3 DEF Found
    <3> QED  BY <1>0, <2>2, <3>1, <3>2, <3>3 DEF Found, Delay
  <2> QED  BY <1>0, <1>1, <2>1, <2>2
<1>9. CASE FlushAll
  BY <1>1, <1>9, FlushAllFacts
<1> QED  BY <1>2, <1>3, <1>4, <1>5, <1>6, <1>7, <1>8, <1>9 DEF Call

LEMMA FoundKept ==
    ASSUME TypeInv, FoundInv, JobStep
    PROVE  FoundInv'
<1>0. /\ \A j \in jobs : obj[j].status = "pending" => Found(j)
      /\ jobs \subseteq Jobs /\ MemInv
  BY MemInvParts DEF FoundInv, PendingJobs, TypeInv
<1>1. ASSUME \A j \in jobs' : obj'[j].status = "pending" => Found(j)' PROVE FoundInv'
  BY <1>1 DEF FoundInv, PendingJobs
<1>2. CASE Aside
  <2>1. UNCHANGED <<obj, jobs, ready, delayed>>
    BY <1>2 DEF Aside, memVars
  <2>2. \A k \in Jobs : (InReady(k)' <=> InReady(k)) /\ (InDelayed(k)' <=> InDelayed(k))
    BY <1>0, <2>1, SameLists
  <2> QED  BY <1>0, <1>1, <2>1, <2>2 DEF Found
<1>3. ASSUME NEW w \in Tasks, NEW q \in Queues, NEW j \in PendingJobs, Claims(w, q, j) PROVE FoundInv'
  <2>1. Pop(q, j)
    BY <1>3 DEF Claims
  <2>2. /\ jobs' = jobs /\ obj'[j].status = "processing"
        /\ \A k \in Jobs : k # j => obj'[k] = obj[k]
        /\ \A k \in Jobs : InDelayed(k)' <=> InDelayed(k)
        /\ \A k \in PendingJobs : k # j /\ InReady(k) => InReady(k)'
    BY <1>0, <2>1, PopFacts
  <2> QED  BY <1>0, <1>1, <2>2 DEF Found, PendingJobs
<1>4. ASSUME NEW w \in Tasks, CompleteJob(w) \/ ReleaseJob(w) \/ FailJob(w) PROVE FoundInv'
  <2>1. PICK j \in Jobs :
            \/ \E st \in Terminal : st \in Status /\ SetStatus(j, st)
            \/ \E d \in RetryDelays : Release(j, d)
    BY <1>4, OutcomeCase
  <2>2. ASSUME NEW st \in Terminal, st \in Status, SetStatus(j, st) PROVE FoundInv'
    <3>1. /\ jobs' = jobs \cup {j} /\ obj'[j].status = st
          /\ \A k \in Jobs : k # j => obj'[k] = obj[k]
          /\ \A k \in Jobs : (InReady(k)' <=> InReady(k)) /\ (InDelayed(k)' <=> InDelayed(k))
      BY <1>0, <2>2, StatusCallFacts
    <3> QED  BY <1>0, <1>1, <3>1 DEF Found, Terminal
  <2>3. ASSUME NEW d \in RetryDelays, Release(j, d) PROVE FoundInv'
    <3>1. /\ jobs' = jobs \cup {j} /\ (d = "future" => obj'[j].delay = "future")
          /\ \A k \in Jobs : k # j => obj'[k] = obj[k]
          /\ \A k \in Jobs : InReady(k)' <=> InReady(k) \/ (k = j /\ d = "none")
          /\ \A k \in Jobs : InDelayed(k)' <=> InDelayed(k) \/ (k = j /\ d = "future")
      BY <1>0, <2>3, ReleaseFacts
    <3>2. Found(j)'
      BY <3>1 DEF Found, RetryDelays
    <3> QED  BY <1>0, <1>1, <3>1, <3>2 DEF Found
  <2> QED  BY <2>1, <2>2, <2>3
<1>5. CASE RecoverStuck
  <2>1. PICK q \in Queues : RequeueStuck(q)
    BY <1>5, RecoverCase
  <2>2. /\ jobs' = jobs
        /\ \A k \in Jobs : k \notin Stuck(q) => obj'[k] = obj[k]
        /\ \A k \in Jobs : InReady(k)' <=> InReady(k) \/ k \in Stuck(q)
        /\ \A k \in Jobs : InDelayed(k)' <=> InDelayed(k)
    BY <1>0, <2>1, RequeueStuckFacts
  <2> QED  BY <1>0, <1>1, <2>2 DEF Found
<1>6. CASE RetryFailed
  <2>1. PICK S : Retry(S)
    BY <1>6, RetryCase
  <2>2. /\ jobs' = jobs
        /\ \A k \in Jobs : k \notin S => obj'[k] = obj[k]
        /\ \A k \in Jobs : InReady(k)' <=> InReady(k) \/ k \in S
        /\ \A k \in Jobs : InDelayed(k)' <=> InDelayed(k)
    BY <1>0, <2>1, RetryFacts
  <2> QED  BY <1>0, <1>1, <2>2 DEF Found
<1>7. CASE Call
  BY <1>0, <1>7, CallKeepsFound
<1> QED  BY <1>2, <1>3, <1>4, <1>5, <1>6, <1>7 DEF JobStep

LEMMA FoundStarts ==
    ASSUME Init
    PROVE  FoundInv
<1>1. jobs = {}
  BY DEF Init, MemInit
<1> QED  BY <1>1 DEF FoundInv, PendingJobs

LEMMA ContainsIsIn ==
    ASSUME NEW s \in Seq(Jobs), NEW j
    PROVE  Contains(s, j) <=> In(s, j)
<1>1. DOMAIN s = 1..Len(s)
  OBVIOUS
<1> QED  BY <1>1 DEF Contains, In

LEMMA FoundIsNotStranded == TypeInv /\ FoundInv => NotStranded
<1> SUFFICES ASSUME TypeInv, FoundInv, NEW j \in PendingJobs
             PROVE  Contains(ready[QueueOf[j]], j) \/ (Contains(delayed, j) /\ obj[j].delay # "none")
  BY DEF NotStranded
<1>1. j \in Jobs /\ ready \in [Queues -> Seq(Jobs)] /\ delayed \in Seq(Jobs)
  BY MemInvParts DEF TypeInv, ListsTyped, PendingJobs
<1>2. ready[QueueOf[j]] \in Seq(Jobs)
  BY <1>1, MemoryAssumption
<1>3. Found(j)
  BY DEF FoundInv
<1> QED  BY <1>1, <1>2, <1>3, ContainsIsIn DEF Found, InReady, InDelayed

\* A pending job can always be found: by pop() in its queue's list, or by
\* pop_delayed() among the delayed ids, whatever retries, recovery, promotion
\* and pruning did to the lists before.
THEOREM PendingIsInAList == Spec => []NotStranded
<1>1. Init => FoundInv
  BY FoundStarts
<1>2. TypeInv /\ FoundInv /\ [Next]_vars => FoundInv'
  BY StepCases, FoundKept
<1> QED  BY <1>1, <1>2, FoundIsNotStranded, TypeInvariant, PTL DEF Spec

-----------------------------------------------------------------------------
(* A job that waits. *)

\* The lists hold a job once, and only while it is pending; a job whose delay
\* is not over is pending and not in its queue's list.
Ordered(j) ==
    /\ Single(j)
    /\ obj[j].status # "pending" => ~InReady(j) /\ ~InDelayed(j)
    /\ obj[j].delay = "future" => obj[j].status = "pending" /\ ~InReady(j)

BackInv == \A j \in Jobs \ rivals : Ordered(j)

\* A step that adds no entry for a job and does not take it up.
LEMMA Undisturbed ==
    ASSUME NEW j \in Jobs, Ordered(j), Shrinks(j), obj'[j].status = obj[j].status,
           obj'[j].delay = "future" => obj[j].delay = "future"
    PROVE  Ordered(j)'
BY DEF Ordered, Shrinks

LEMMA CallKeepsBack ==
    ASSUME MemInv, BackInv, Call, rivals' = rivals
    PROVE  BackInv'
<1>0. \A j \in Jobs \ rivals : Ordered(j)
  BY DEF BackInv
<1>1. ASSUME obj' = obj, \A k \in Jobs : Shrinks(k) PROVE BackInv'
  BY <1>0, <1>1, Undisturbed DEF BackInv
<1>2. ASSUME NEW q \in Queues, PopNothing(q) \/ Flush(q) PROVE BackInv'
  BY <1>1, <1>2, PopNothingFacts, FlushFacts
<1>3. ASSUME NEW S, Prune(S) PROVE BackInv'
  BY <1>1, <1>3, PruneFacts
<1>4. CASE FlushAll
  BY <1>1, <1>4, FlushAllFacts
<1>5. ASSUME NEW j \in Jobs, DelayElapses(j) \/ ClaimAges(j) PROVE BackInv'
  <2>1. \A k \in Jobs : /\ obj'[k].status = obj[k].status /\ Shrinks(k)
                        /\ obj'[k].delay = "future" => obj[k].delay = "future"
    BY <1>5, ClockFacts
  <2> QED  BY <1>0, <2>1, Undisturbed DEF BackInv
<1>6. ASSUME NEW j \in Jobs, NEW d \in Delay, Push(j, d) PROVE BackInv'
  <2>1. /\ obj[j].status = "absent" /\ obj'[j].status = "pending" /\ obj'[j].delay = d
        /\ \A k \in Jobs : k # j => obj'[k] = obj[k]
        /\ \A k \in Jobs : InReady(k)' <=> InReady(k) \/ (k = j /\ d # "future")
        /\ \A k \in Jobs : InDelayed(k)' <=> InDelayed(k) \/ (k = j /\ d = "future")
        /\ \A k \in Jobs : Single(k) /\ (k = j => ~InReady(k) /\ ~InDelayed(k)) => Single(k)'
    BY <1>6, PushFacts
  <2> QED  BY <1>0, <2>1 DEF BackInv, Ordered
<1>7. ASSUME NEW j \in Jobs, Promote(j) PROVE BackInv'
  <2>1. /\ obj'[j].status = "pending" /\ obj'[j].delay = "none"
        /\ \A k \in Jobs : k # j => obj'[k] = obj[k]
        /\ \A k \in Jobs : InReady(k)' <=> InReady(k) \/ k = j
        /\ \A k \in Jobs : k # j => (InDelayed(k)' <=> InDelayed(k))
        /\ \A k \in Jobs : Single(k) => Single(k)'
    BY <1>7, PromoteFacts
  <2> QED  BY <1>0, <2>1 DEF BackInv, Ordered
<1>8. CASE PopDelayed
  <2>1. /\ \A k \in Jobs : /\ obj'[k].status = obj[k].status
                           /\ obj'[k].delay = "future" <=> obj[k].delay = "future"
        /\ \A k \in Jobs : InReady(k)' => InReady(k) \/ (InDelayed(k) /\ obj[k].delay = "due")
        /\ \A k \in Jobs : InDelayed(k)' => InDelayed(k)
        /\ \A k \in Jobs : Single(k) => Single(k)'
    BY <1>8, PopDelayedFacts
  <2>2. ASSUME NEW k \in Jobs, Ordered(k) PROVE Ordered(k)'
    BY <2>1, <2>2 DEF Ordered
  <2> QED  BY <1>0, <2>2 DEF BackInv
<1> QED  BY <1>2, <1>3, <1>4, <1>5, <1>6, <1>7, <1>8 DEF Call

LEMMA BackKept ==
    ASSUME TypeInv, RunInv, BackInv, JobStep, rivals' = rivals \/ RecoverStuck
    PROVE  BackInv'
<1>0. /\ \A j \in Jobs \ rivals : Ordered(j)
      /\ MemInv
  BY DEF BackInv, TypeInv
<1>2. CASE Aside
  <2>1. UNCHANGED <<obj, jobs, ready, delayed, rivals>>
    BY <1>2 DEF Aside, memVars
  <2>2. \A k \in Jobs : Shrinks(k)
    BY <1>0, <2>1, SameLists
  <2> QED  BY <1>0, <2>1, <2>2, Undisturbed DEF BackInv
<1>3. ASSUME NEW w \in Tasks, NEW q \in Queues, NEW j \in PendingJobs, Claims(w, q, j) PROVE BackInv'
  <2>1. Pop(q, j) /\ j \in Jobs /\ rivals' = rivals
    BY <1>3, ClaimCase
  <2>2. /\ InReady(j) /\ obj'[j].status = "processing" /\ obj'[j].delay = obj[j].delay
        /\ \A k \in Jobs : k # j => obj'[k] = obj[k]
        /\ \A k \in Jobs : Shrinks(k)
        /\ Single(j) => ~InReady(j)' /\ ~InDelayed(j)'
    BY <1>0, <2>1, PopFacts
  <2>3. Ordered(j) => Ordered(j)'
    BY <2>1, <2>2 DEF Ordered, Shrinks
  <2>4. \A k \in Jobs : k # j /\ Ordered(k) => Ordered(k)'
    BY <2>2, Undisturbed
  <2> QED  BY <1>0, <2>1, <2>3, <2>4 DEF BackInv
<1>4. ASSUME NEW w \in Tasks, CompleteJob(w) \/ ReleaseJob(w) \/ FailJob(w) PROVE BackInv'
  <2>0. rivals' = rivals
    BY <1>4, OutcomeCase
  <2>1. PICK j \in Jobs :
            /\ Runs(w, j)
            /\ \/ \E st \in Terminal : st \in Status /\ SetStatus(j, st)
               \/ \E d \in RetryDelays : Release(j, d)
    BY <1>4, OutcomeCase
  <2>2. j \notin rivals => Ordered(j) /\ obj[j].status = "processing"
    BY <1>0, <2>1 DEF RunInv
  <2>3. ASSUME NEW st \in Terminal, st \in Status, SetStatus(j, st) PROVE BackInv'
    <3>1. /\ obj'[j].status = st /\ obj'[j].delay = obj[j].delay
          /\ \A k \in Jobs : k # j => obj'[k] = obj[k]
          /\ \A k \in Jobs : (InReady(k)' <=> InReady(k)) /\ (InDelayed(k)' <=> InDelayed(k)) /\ Shrinks(k)
      BY <1>0, <2>3, StatusCallFacts
    <3>2. j \notin rivals => Ordered(j)'
      BY <2>2, <3>1 DEF Ordered, Shrinks, Terminal
    <3>3. \A k \in Jobs : k # j /\ Ordered(k) => Ordered(k)'
      BY <3>1, Undisturbed
    <3> QED  BY <1>0, <2>0, <3>2, <3>3 DEF BackInv
  <2>4. ASSUME NEW d \in RetryDelays, Release(j, d) PROVE BackInv'
    <3>1. /\ obj'[j].status = "pending"
          /\ (d = "future" => obj'[j].delay = "future")
          /\ (d = "none" => obj'[j].delay = obj[j].delay)
          /\ \A k \in Jobs : k # j => obj'[k] = obj[k]
          /\ \A k \in Jobs : InReady(k)' <=> InReady(k) \/ (k = j /\ d = "none")
          /\ \A k \in Jobs : InDelayed(k)' <=> InDelayed(k) \/ (k = j /\ d = "future")
          /\ \A k \in Jobs : Single(k) /\ (k = j => ~InReady(k) /\ ~InDelayed(k)) => Single(k)'
      BY <1>0, <2>4, ReleaseFacts
    <3>2. j \notin rivals => Ordered(j)'
      BY <2>2, <3>1 DEF Ordered, RetryDelays
    <3>3. \A k \in Jobs : k # j /\ Ordered(k) => Ordered(k)'
      BY <3>1 DEF Ordered
    <3> QED  BY <1>0, <2>0, <3>2, <3>3 DEF BackInv
  <2> QED  BY <2>1, <2>3, <2>4
<1>5. CASE RecoverStuck
  <2>1. PICK q \in Queues :
            /\ RequeueStuck(q)
            /\ rivals' = rivals \cup {j \in Stuck(q) : \E w \in Tasks : Runs(w, j)}
    BY <1>5, RecoverCase
  <2>2. /\ \A k \in Stuck(q) : obj[k].status = "processing"
        /\ \A k \in Stuck(q) : obj'[k].status = "pending" /\ obj'[k].delay = "none"
        /\ \A k \in Jobs : k \notin Stuck(q) => obj'[k] = obj[k]
        /\ \A k \in Jobs : InReady(k)' <=> InReady(k) \/ k \in Stuck(q)
        /\ \A k \in Jobs : InDelayed(k)' <=> InDelayed(k)
        /\ \A k \in Jobs : Single(k) /\ (k \in Stuck(q) => ~InReady(k) /\ ~InDelayed(k)) => Single(k)'
    BY <1>0, <2>1, RequeueStuckFacts
  <2>3. \A k \in Jobs : Ordered(k) => Ordered(k)'
    BY <2>2 DEF Ordered
  <2> QED  BY <1>0, <2>1, <2>3 DEF BackInv
<1>6. CASE RetryFailed
  <2>1. PICK S : Retry(S)
    BY <1>6, RetryCase
  <2>2. /\ \A k \in S : obj[k].status = "failed"
        /\ \A k \in S : obj'[k].status = "pending" /\ obj'[k].delay = obj[k].delay
        /\ \A k \in Jobs : k \notin S => obj'[k] = obj[k]
        /\ \A k \in Jobs : InReady(k)' <=> InReady(k) \/ k \in S
        /\ \A k \in Jobs : InDelayed(k)' <=> InDelayed(k)
        /\ \A k \in Jobs : Single(k) /\ (k \in S => ~InReady(k) /\ ~InDelayed(k)) => Single(k)'
    BY <1>0, <2>1, RetryFacts
  <2>3. \A k \in Jobs : Ordered(k) => Ordered(k)'
    BY <2>2 DEF Ordered
  <2> QED  BY <1>0, <1>6, <2>3, RetryCase DEF BackInv
<1>7. CASE Call /\ UNCHANGED <<supVars, grants, rivals>>
  BY <1>0, <1>7, CallKeepsBack
<1> QED  BY <1>2, <1>3, <1>4, <1>5, <1>6, <1>7 DEF JobStep

LEMMA BackStarts ==
    ASSUME Init
    PROVE  BackInv
<1>1. /\ obj = [j \in Jobs |-> NoPayload]
      /\ ready = [q \in Queues |-> <<>>] /\ delayed = <<>>
  BY DEF Init, MemInit
<1>2. ASSUME NEW j \in Jobs PROVE Ordered(j)
  <2>1. ready[QueueOf[j]] = <<>>
    BY <1>1, MemoryAssumption
  <2> QED  BY <1>1, <2>1, NoFacts DEF Ordered, Single, InReady, InDelayed, In, AtMostOnce
<1> QED  BY <1>2 DEF BackInv

\* Only a claim makes a pending job a running one, and it takes a job that is
\* in its queue's list.
LEMMA ClaimsOnly ==
    ASSUME TypeInv, JobStep, NEW j \in Jobs,
           obj[j].status = "pending", obj'[j].status = "processing"
    PROVE  InReady(j)
<1>0. MemInv
  BY DEF TypeInv
<1>1. CASE Aside
  BY <1>1 DEF Aside, memVars
<1>2. ASSUME NEW w \in Tasks, NEW q \in Queues, NEW k \in PendingJobs, Claims(w, q, k) PROVE InReady(j)
  <2>1. Pop(q, k) /\ k \in Jobs
    BY <1>2, ClaimCase
  <2> QED  BY <1>0, <2>1, PopFacts
<1>3. ASSUME NEW w \in Tasks, CompleteJob(w) \/ ReleaseJob(w) \/ FailJob(w) PROVE FALSE
  <2>1. PICK k \in Jobs :
            \/ \E st \in Terminal : st \in Status /\ SetStatus(k, st)
            \/ \E d \in RetryDelays : Release(k, d)
    BY <1>3, OutcomeCase
  <2> QED  BY <1>0, <2>1, StatusCallFacts, ReleaseFacts DEF Terminal
<1>4. CASE RecoverStuck
  <2>1. PICK q \in Queues : RequeueStuck(q)
    BY <1>4, RecoverCase
  <2> QED  BY <1>0, <2>1, RequeueStuckFacts
<1>5. CASE RetryFailed
  <2>1. PICK S : Retry(S)
    BY <1>5, RetryCase
  <2> QED  BY <1>0, <2>1, RetryFacts
<1>6. CASE Call
  <2>1. ASSUME NEW q \in Queues, PopNothing(q) \/ Flush(q) PROVE obj' = obj
    BY <1>0, <2>1, PopNothingFacts, FlushFacts
  <2>2. ASSUME NEW S, Prune(S) PROVE obj' = obj
    BY <1>0, <2>2, PruneFacts
  <2>3. ASSUME NEW k \in Jobs, NEW d \in Delay, Push(k, d) PROVE FALSE
    BY <1>0, <2>3, PushFacts
  <2>4. ASSUME NEW k \in Jobs, Promote(k) \/ DelayElapses(k) \/ ClaimAges(k) PROVE FALSE
    BY <1>0, <2>4, PromoteFacts, ClockFacts
  <2>5. CASE PopDelayed \/ FlushAll
    BY <1>0, <2>5, PopDelayedFacts, FlushAllFacts
  <2> QED  BY <1>6, <2>1, <2>2, <2>3, <2>4, <2>5 DEF Call
<1> QED  BY <1>1, <1>2, <1>3, <1>4, <1>5, <1>6 DEF JobStep

\* A job that was dispatched with a delay, or that waits out the delay of its
\* retry, is not claimed before that delay is over.
THEOREM DelaysAreServed == Spec => BackoffRespected
<1>1. Init => RunInv /\ BackInv
  BY RunStarts, BackStarts
<1>2. TypeInv /\ RunInv /\ BackInv /\ [Next]_vars => RunInv' /\ BackInv'
  BY StepCases, RunInvKept, BackKept
<1>3. TypeInv /\ BackInv /\ [Next]_vars =>
         [\A j \in jobs \ rivals :
             obj[j].status = "pending" /\ obj[j].delay = "future"
                => obj'[j].status # "processing"]_vars
  <2> SUFFICES ASSUME TypeInv, BackInv, [Next]_vars, NEW j \in jobs \ rivals,
                      obj[j].status = "pending", obj[j].delay = "future",
                      obj'[j].status = "processing"
               PROVE  FALSE
    OBVIOUS
  <2>1. j \in Jobs \ rivals
    BY MemInvParts DEF TypeInv
  <2>2. InReady(j)
    BY <2>1, StepCases, ClaimsOnly
  <2> QED  BY <2>1, <2>2 DEF BackInv, Ordered
<1> QED  BY <1>1, <1>2, <1>3, TypeInvariant, PTL DEF Spec, BackoffRespected

-----------------------------------------------------------------------------
(* The attempts. *)

\* Claims are counted against what the job was allowed; a pending job has one left.
Allowed(j) ==
    /\ obj[j].attempts <= MaxAttempts + grants[j]
    /\ obj[j].status = "pending" => obj[j].attempts < MaxAttempts + grants[j]

BudgetInv == \A j \in Jobs : Allowed(j)

LEMMA Numbers ==
    ASSUME TypeInv
    PROVE  /\ MaxAttempts \in Nat /\ MaxAttempts > 0
           /\ \A j \in Jobs : obj[j].attempts \in Nat /\ grants[j] \in Nat
BY MemInvParts, MaxAttemptsAssumption DEF TypeInv, TypeOK, Payload

\* Whoever gets a job back is granted a run for it.
LEMMA GivenBack ==
    ASSUME TypeInv, BudgetInv, NEW S, Grant(S),
           \A k \in Jobs : k \in S => obj'[k].attempts = obj[k].attempts,
           \A k \in Jobs : k \notin S => obj'[k] = obj[k]
    PROVE  BudgetInv'
<1>1. \A k \in Jobs : grants'[k] = grants[k] + IF k \in S THEN 1 ELSE 0
  BY GrantFacts DEF TypeInv, TypeOK
<1>2. ASSUME NEW k \in Jobs, k \in S PROVE Allowed(k)'
  <2>1. grants'[k] = grants[k] + 1 /\ obj'[k].attempts = obj[k].attempts
    BY <1>1, <1>2
  <2>2. obj[k].attempts <= MaxAttempts + grants[k]
    BY DEF BudgetInv, Allowed
  <2> QED  BY <2>1, <2>2, Numbers DEF Allowed
<1>3. ASSUME NEW k \in Jobs, k \notin S PROVE Allowed(k)'
  <2>1. grants'[k] = grants[k] /\ obj'[k] = obj[k]
    BY <1>1, <1>3, Numbers
  <2> QED  BY <2>1 DEF BudgetInv, Allowed
<1> QED  BY <1>2, <1>3 DEF BudgetInv

LEMMA BudgetKept ==
    ASSUME TypeInv, BudgetInv, JobStep
    PROVE  BudgetInv'
<1>0. MemInv /\ \A j \in Jobs : Allowed(j)
  BY DEF TypeInv, BudgetInv
<1>1. ASSUME grants' = grants,
             \A k \in Jobs : /\ obj'[k].attempts = obj[k].attempts
                             /\ obj'[k].status = "pending" => obj[k].status = "pending"
      PROVE  BudgetInv'
  BY <1>0, <1>1 DEF BudgetInv, Allowed
<1>2. CASE Aside
  BY <1>1, <1>2 DEF Aside, memVars
<1>3. ASSUME NEW w \in Tasks, NEW q \in Queues, NEW j \in PendingJobs, Claims(w, q, j) PROVE BudgetInv'
  <2>1. Pop(q, j) /\ j \in Jobs /\ grants' = grants
    BY <1>3, ClaimCase
  <2>2. /\ obj[j].status = "pending" /\ obj'[j].status = "processing"
        /\ obj'[j].attempts = obj[j].attempts + 1
        /\ \A k \in Jobs : k # j => obj'[k] = obj[k]
    BY <1>0, <2>1, PopFacts
  <2>3. Allowed(j)'
    BY <1>0, <2>1, <2>2, Numbers DEF Allowed
  <2> QED  BY <1>0, <2>1, <2>2, <2>3 DEF BudgetInv, Allowed
<1>4. ASSUME NEW w \in Tasks, CompleteJob(w) \/ ReleaseJob(w) \/ FailJob(w) PROVE BudgetInv'
  <2>0. grants' = grants
    BY <1>4, OutcomeCase
  <2>1. PICK j \in Jobs :
            \/ \E st \in Terminal : st \in Status /\ SetStatus(j, st)
            \/ ShouldRetry(obj[j].attempts) /\ \E d \in RetryDelays : Release(j, d)
    BY <1>4, OutcomeCase
  <2>2. ASSUME NEW st \in Terminal, st \in Status, SetStatus(j, st) PROVE BudgetInv'
    <3>1. /\ obj'[j].status = st /\ obj'[j].attempts = obj[j].attempts
          /\ \A k \in Jobs : k # j => obj'[k] = obj[k]
      BY <1>0, <2>2, StatusCallFacts
    <3> QED  BY <1>1, <2>0, <3>1 DEF Terminal
  <2>3. ASSUME NEW d \in RetryDelays, ShouldRetry(obj[j].attempts), Release(j, d) PROVE BudgetInv'
    <3>1. /\ obj'[j].attempts = obj[j].attempts
          /\ \A k \in Jobs : k # j => obj'[k] = obj[k]
      BY <1>0, <2>3, ReleaseFacts
    <3>2. Allowed(j)'
      BY <1>0, <2>0, <2>3, <3>1, Numbers DEF Allowed, ShouldRetry
    <3> QED  BY <1>0, <2>0, <3>1, <3>2 DEF BudgetInv, Allowed
  <2> QED  BY <2>1, <2>2, <2>3
<1>5. CASE RecoverStuck
  <2>1. PICK q \in Queues : RequeueStuck(q) /\ Grant(Stuck(q))
    BY <1>5, RecoverCase
  <2>2. /\ \A k \in Stuck(q) : obj'[k].attempts = obj[k].attempts
        /\ \A k \in Jobs : k \notin Stuck(q) => obj'[k] = obj[k]
    BY <1>0, <2>1, RequeueStuckFacts
  <2> QED  BY <2>1, <2>2, GivenBack
<1>6. CASE RetryFailed
  <2>1. PICK S : Retry(S) /\ Grant(S)
    BY <1>6, RetryCase
  <2>2. /\ \A k \in S : obj'[k].attempts = obj[k].attempts
        /\ \A k \in Jobs : k \notin S => obj'[k] = obj[k]
    BY <1>0, <2>1, RetryFacts
  <2> QED  BY <2>1, <2>2, GivenBack
<1>7. CASE Call /\ UNCHANGED <<supVars, grants, rivals>>
  <2>0. grants' = grants
    BY <1>7
  <2>1. ASSUME NEW q \in Queues, PopNothing(q) \/ Flush(q) PROVE BudgetInv'
    BY <1>0, <1>1, <2>0, <2>1, PopNothingFacts, FlushFacts
  <2>2. ASSUME NEW S, Prune(S) PROVE BudgetInv'
    BY <1>0, <1>1, <2>0, <2>2, PruneFacts
  <2>3. ASSUME NEW j \in Jobs, NEW d \in Delay, Push(j, d) PROVE BudgetInv'
    <3>1. /\ obj'[j].attempts = 0
          /\ \A k \in Jobs : k # j => obj'[k] = obj[k]
      BY <1>0, <2>3, PushFacts
    <3>2. Allowed(j)'
      <4>1. grants'[j] \in Nat /\ MaxAttempts \in Nat /\ MaxAttempts > 0
        BY <2>0, Numbers
      <4> QED  BY <3>1, <4>1 DEF Allowed
    <3> QED  BY <1>0, <2>0, <3>1, <3>2 DEF BudgetInv, Allowed
  <2>4. ASSUME NEW j \in Jobs, Promote(j) \/ DelayElapses(j) \/ ClaimAges(j) PROVE BudgetInv'
    BY <1>0, <1>1, <2>0, <2>4, PromoteFacts, ClockFacts
  <2>5. CASE PopDelayed \/ FlushAll
    BY <1>0, <1>1, <2>0, <2>5, PopDelayedFacts, FlushAllFacts
  <2> QED  BY <1>7, <2>1, <2>2, <2>3, <2>4, <2>5 DEF Call
<1> QED  BY <1>2, <1>3, <1>4, <1>5, <1>6, <1>7 DEF JobStep

LEMMA BudgetStarts ==
    ASSUME Init
    PROVE  BudgetInv
<1>1. obj = [j \in Jobs |-> NoPayload] /\ grants = [j \in Jobs |-> 0]
  BY DEF Init, MemInit
<1>2. \A j \in Jobs : obj[j].attempts = 0 /\ grants[j] = 0
  BY <1>1, NoFacts
<1>3. MaxAttempts \in Nat /\ MaxAttempts > 0
  BY MaxAttemptsAssumption
<1>4. ASSUME NEW j \in Jobs PROVE Allowed(j)
  <2>1. 0 <= MaxAttempts + 0 /\ 0 < MaxAttempts + 0
    BY <1>3
  <2> QED  BY <1>2, <2>1 DEF Allowed
<1> QED  BY <1>4 DEF BudgetInv

\* A job is claimed at most max_attempts times, plus once for every retry and
\* every recovery it was given.
THEOREM ClaimsAreCounted == Spec => []AttemptBudget
<1>1. Init => BudgetInv
  BY BudgetStarts
<1>2. TypeInv /\ BudgetInv /\ [Next]_vars => BudgetInv'
  BY StepCases, BudgetKept
<1>3. BudgetInv => AttemptBudget
  BY DEF BudgetInv, Allowed, AttemptBudget
<1> QED  BY <1>1, <1>2, <1>3, TypeInvariant, PTL DEF Spec

=============================================================================
