------------------------- MODULE RedisWorkersProofs -------------------------
(***************************************************************************)
(* Theorems about RedisWorkers, for any number of jobs, queues, workers    *)
(* and operators.                                                          *)
(***************************************************************************)
EXTENDS RedisWorkers, ListProofs, FiniteSetTheorems, SequenceTheorems, TLAPS

(***************************************************************************)
(* The ready lists: what LREM, RPUSH and LPOP do to the ids in a list.     *)
(***************************************************************************)

LEMMA WithoutFacts ==
    ASSUME NEW s \in Seq(Jobs), NEW j
    PROVE  /\ Without(s, j) \in Seq(Jobs)
           /\ ~In(Without(s, j), j)
           /\ \A k : k # j => (In(s, k) <=> In(Without(s, j), k))
           /\ \A k : AtMostOnce(s, k) => AtMostOnce(Without(s, j), k)
<1> DEFINE kept == {i \in DOMAIN s : s[i] # j}
           t == Only(s, kept)
<1>1. kept \in SUBSET (DOMAIN s)
  OBVIOUS
<1>2. /\ \A i \in kept : i \in DOMAIN s /\ s[i] # j
      /\ \A i \in DOMAIN s : s[i] # j => i \in kept
  OBVIOUS
<1>3. Without(s, j) = t
  BY DEF Without
<1>4. /\ t \in Seq(Jobs)
      /\ \A k : In(t, k) <=> \E i \in kept : s[i] = k
      /\ \A k : (\A i, n \in kept : s[i] = k /\ s[n] = k => i = n) => AtMostOnce(t, k)
  <2> HIDE DEF kept
  <2> QED  BY <1>1, OnlyFacts
<1> HIDE DEF kept, t
<1>5. ~In(t, j) /\ \A k : k # j => (In(s, k) <=> In(t, k))
  BY <1>2, <1>4 DEF In
<1>6. \A k : AtMostOnce(s, k) => AtMostOnce(t, k)
  BY <1>2, <1>4 DEF AtMostOnce
<1> QED  BY <1>3, <1>4, <1>5, <1>6

LEMMA AppendFacts ==
    ASSUME NEW s \in Seq(Jobs), NEW j \in Jobs
    PROVE  /\ Append(s, j) \in Seq(Jobs)
           /\ \A k : In(Append(s, j), k) <=> In(s, k) \/ k = j
           /\ \A k : AtMostOnce(s, k) /\ (k = j => ~In(s, j)) => AtMostOnce(Append(s, j), k)
<1> DEFINE t == Append(s, j)
<1>1. /\ t \in Seq(Jobs) /\ Len(s) \in Nat /\ DOMAIN s = 1..Len(s)
      /\ DOMAIN t = 1..(Len(s) + 1) /\ t[Len(s) + 1] = j
      /\ \A i \in DOMAIN s : i \in DOMAIN t /\ t[i] = s[i]
  OBVIOUS
<1> HIDE DEF t
<1>2. \A i \in DOMAIN t : i \in DOMAIN s \/ i = Len(s) + 1
  BY <1>1
<1>3. Len(s) + 1 \in DOMAIN t
  BY <1>1
<1>4. \A k : In(t, k) <=> In(s, k) \/ k = j
  BY <1>1, <1>2, <1>3 DEF In
<1>5. ASSUME NEW k, AtMostOnce(s, k), k = j => ~In(s, j) PROVE AtMostOnce(t, k)
  BY <1>1, <1>2, <1>5 DEF In, AtMostOnce
<1> QED  BY <1>1, <1>4, <1>5 DEF t

LEMMA TailFacts ==
    ASSUME NEW s \in Seq(Jobs), s # <<>>
    PROVE  /\ Tail(s) \in Seq(Jobs) /\ Head(s) \in Jobs
           /\ In(s, Head(s))
           /\ \A k : In(s, k) <=> k = Head(s) \/ In(Tail(s), k)
           /\ \A k : AtMostOnce(s, k) => AtMostOnce(Tail(s), k)
<1> DEFINE t == Tail(s)
<1>1. /\ t \in Seq(Jobs) /\ Head(s) \in Jobs /\ Len(s) \in Nat /\ Len(s) # 0
      /\ Head(s) = s[1] /\ DOMAIN s = 1..Len(s)
      /\ Len(t) = Len(s) - 1 /\ DOMAIN t = 1..Len(t)
      /\ \A i \in DOMAIN t : t[i] = s[i + 1]
  BY HeadTailProperties
<1> HIDE DEF t
<1>2. \A i \in DOMAIN t : i + 1 \in DOMAIN s
  BY <1>1
<1>3. \A i \in DOMAIN s : i = 1 \/ (i - 1 \in DOMAIN t /\ t[i - 1] = s[i])
  BY <1>1
<1>4. 1 \in DOMAIN s
  BY <1>1
<1>5. \A k : In(s, k) <=> k = Head(s) \/ In(t, k)
  BY <1>1, <1>2, <1>3, <1>4 DEF In
<1>6. \A k : AtMostOnce(s, k) => AtMostOnce(t, k)
  BY <1>1, <1>2 DEF AtMostOnce
<1> QED  BY <1>1, <1>4, <1>5, <1>6 DEF t, In


OnceReady(j) == AtMostOnce(ready[QueueOf[j]], j)

\* A ready list holds ids of its own queue only.
OwnQueue == \A q \in Queues, j \in Jobs : In(ready[q], j) => QueueOf[j] = q

\* One list is replaced.
LEMMA ListChange ==
    ASSUME ready \in [Queues -> Seq(Jobs)], OwnQueue,
           NEW q \in Queues, NEW t \in Seq(Jobs), ready' = [ready EXCEPT ![q] = t],
           \A k \in Jobs : In(t, k) => QueueOf[k] = q
    PROVE  /\ ready' \in [Queues -> Seq(Jobs)] /\ OwnQueue'
           /\ \A k \in Jobs : IF QueueOf[k] = q
                              THEN (InReady(k)' <=> In(t, k)) /\ (OnceReady(k)' <=> AtMostOnce(t, k))
                              ELSE (InReady(k)' <=> InReady(k)) /\ (OnceReady(k)' <=> OnceReady(k))
<1>1. ready' \in [Queues -> Seq(Jobs)] /\ \A r \in Queues : ready'[r] = IF r = q THEN t ELSE ready[r]
  OBVIOUS
<1>2. \A k \in Jobs : QueueOf[k] \in Queues
  BY RedisQueueAssumption
<1> QED  BY <1>1, <1>2 DEF OwnQueue, InReady, OnceReady, In

\* What the three commands on a list do to the ids.
LEMMA RequeueFacts ==
    ASSUME ready \in [Queues -> Seq(Jobs)], OwnQueue, NEW j \in Jobs, Requeue(j)
    PROVE  /\ ready' \in [Queues -> Seq(Jobs)] /\ OwnQueue'
           /\ \A k \in Jobs : InReady(k)' <=> InReady(k) \/ k = j
           /\ \A k \in Jobs : OnceReady(k) \/ k = j => OnceReady(k)'
<1> DEFINE q == QueueOf[j]
           s == ready[q]
           u == Without(s, j)
           t == Append(u, j)
<1>1. q \in Queues /\ s \in Seq(Jobs)
  BY RedisQueueAssumption
<1>2. /\ u \in Seq(Jobs) /\ ~In(u, j)
      /\ \A k : k # j => (In(s, k) <=> In(u, k))
      /\ \A k : AtMostOnce(s, k) => AtMostOnce(u, k)
  BY <1>1, WithoutFacts
<1>3. ready' = [ready EXCEPT ![q] = t]
  BY DEF Requeue
<1>4. \A k \in Jobs : QueueOf[k] = q => (InReady(k) <=> In(s, k)) /\ (OnceReady(k) <=> AtMostOnce(s, k))
  BY DEF InReady, In, OnceReady
<1>5. \A k \in Jobs : In(s, k) => QueueOf[k] = q
  BY <1>1 DEF OwnQueue
<1> HIDE DEF u
<1>6. /\ t \in Seq(Jobs)
      /\ \A k : In(t, k) <=> In(u, k) \/ k = j
      /\ \A k : AtMostOnce(u, k) /\ (k = j => ~In(u, j)) => AtMostOnce(t, k)
  BY <1>2, AppendFacts
<1>7. AtMostOnce(u, j)
  BY <1>2 DEF In, AtMostOnce
<1> HIDE DEF q, s, t
<1>8. q = QueueOf[j]
  BY DEF q
<1>9. \A k \in Jobs : In(t, k) => QueueOf[k] = q
  BY <1>2, <1>5, <1>6, <1>8
<1>10. /\ ready' \in [Queues -> Seq(Jobs)] /\ OwnQueue'
       /\ \A k \in Jobs : IF QueueOf[k] = q
                          THEN (InReady(k)' <=> In(t, k)) /\ (OnceReady(k)' <=> AtMostOnce(t, k))
                          ELSE (InReady(k)' <=> InReady(k)) /\ (OnceReady(k)' <=> OnceReady(k))
  BY <1>1, <1>3, <1>6, <1>9, ListChange
<1> QED  BY <1>2, <1>4, <1>6, <1>7, <1>8, <1>10

LEMMA RemovalFacts ==
    ASSUME ready \in [Queues -> Seq(Jobs)], OwnQueue, NEW j \in Jobs,
           ready' = [ready EXCEPT ![QueueOf[j]] = Without(@, j)]
    PROVE  /\ ready' \in [Queues -> Seq(Jobs)] /\ OwnQueue'
           /\ \A k \in Jobs : InReady(k)' <=> InReady(k) /\ k # j
           /\ \A k \in Jobs : OnceReady(k) \/ k = j => OnceReady(k)'
<1> DEFINE q == QueueOf[j]
           s == ready[q]
           u == Without(s, j)
<1>1. q \in Queues /\ s \in Seq(Jobs)
  BY RedisQueueAssumption
<1>2. /\ u \in Seq(Jobs) /\ ~In(u, j)
      /\ \A k : k # j => (In(s, k) <=> In(u, k))
      /\ \A k : AtMostOnce(s, k) => AtMostOnce(u, k)
  BY <1>1, WithoutFacts
<1>3. ready' = [ready EXCEPT ![q] = u]
  OBVIOUS
<1>4. \A k \in Jobs : QueueOf[k] = q => (InReady(k) <=> In(s, k)) /\ (OnceReady(k) <=> AtMostOnce(s, k))
  BY DEF InReady, In, OnceReady
<1>5. \A k \in Jobs : In(s, k) => QueueOf[k] = q
  BY <1>1 DEF OwnQueue
<1>7. AtMostOnce(u, j)
  BY <1>2 DEF In, AtMostOnce
<1> HIDE DEF q, s, u
<1>8. q = QueueOf[j]
  BY DEF q
<1>9. \A k \in Jobs : In(u, k) => QueueOf[k] = q
  BY <1>2, <1>5
<1>10. /\ ready' \in [Queues -> Seq(Jobs)] /\ OwnQueue'
       /\ \A k \in Jobs : IF QueueOf[k] = q
                          THEN (InReady(k)' <=> In(u, k)) /\ (OnceReady(k)' <=> AtMostOnce(u, k))
                          ELSE (InReady(k)' <=> InReady(k)) /\ (OnceReady(k)' <=> OnceReady(k))
  BY <1>1, <1>2, <1>3, <1>9, ListChange
<1> QED  BY <1>2, <1>4, <1>7, <1>8, <1>10

LEMMA RPushFacts ==
    ASSUME ready \in [Queues -> Seq(Jobs)], OwnQueue, NEW j \in Jobs,
           ready' = [ready EXCEPT ![QueueOf[j]] = Append(@, j)]
    PROVE  /\ ready' \in [Queues -> Seq(Jobs)] /\ OwnQueue'
           /\ \A k \in Jobs : InReady(k)' <=> InReady(k) \/ k = j
           /\ \A k \in Jobs : OnceReady(k) /\ (k # j \/ ~InReady(j)) => OnceReady(k)'
<1> DEFINE q == QueueOf[j]
           s == ready[q]
           t == Append(s, j)
<1>1. q \in Queues /\ s \in Seq(Jobs)
  BY RedisQueueAssumption
<1>3. ready' = [ready EXCEPT ![q] = t]
  OBVIOUS
<1>4. \A k \in Jobs : QueueOf[k] = q => (InReady(k) <=> In(s, k)) /\ (OnceReady(k) <=> AtMostOnce(s, k))
  BY DEF InReady, In, OnceReady
<1>5. \A k \in Jobs : In(s, k) => QueueOf[k] = q
  BY <1>1 DEF OwnQueue
<1>6. /\ t \in Seq(Jobs)
      /\ \A k : In(t, k) <=> In(s, k) \/ k = j
      /\ \A k : AtMostOnce(s, k) /\ (k = j => ~In(s, j)) => AtMostOnce(t, k)
  BY <1>1, AppendFacts
<1> HIDE DEF q, s, t
<1>8. q = QueueOf[j]
  BY DEF q
<1>9. \A k \in Jobs : In(t, k) => QueueOf[k] = q
  BY <1>5, <1>6, <1>8
<1>10. /\ ready' \in [Queues -> Seq(Jobs)] /\ OwnQueue'
       /\ \A k \in Jobs : IF QueueOf[k] = q
                          THEN (InReady(k)' <=> In(t, k)) /\ (OnceReady(k)' <=> AtMostOnce(t, k))
                          ELSE (InReady(k)' <=> InReady(k)) /\ (OnceReady(k)' <=> OnceReady(k))
  BY <1>1, <1>3, <1>6, <1>9, ListChange
<1> QED  BY <1>4, <1>6, <1>8, <1>10

LEMMA LPopFacts ==
    ASSUME ready \in [Queues -> Seq(Jobs)], OwnQueue, NEW q \in Queues, LPop(q)
    PROVE  /\ ready' \in [Queues -> Seq(Jobs)] /\ OwnQueue'
           /\ Head(ready[q]) \in Jobs /\ InReady(Head(ready[q]))
           /\ \A k \in Jobs : InReady(k) <=> InReady(k)' \/ k = Head(ready[q])
           /\ \A k \in Jobs : OnceReady(k) => OnceReady(k)'
<1> DEFINE s == ready[q]
           t == Tail(s)
<1>1. s \in Seq(Jobs) /\ s # <<>>
  BY DEF LPop
<1>2. /\ t \in Seq(Jobs) /\ Head(s) \in Jobs
      /\ In(s, Head(s))
      /\ \A k : In(s, k) <=> k = Head(s) \/ In(t, k)
      /\ \A k : AtMostOnce(s, k) => AtMostOnce(t, k)
  BY <1>1, TailFacts
<1>3. ready' = [ready EXCEPT ![q] = t]
  BY DEF LPop
<1>4. \A k \in Jobs : QueueOf[k] = q => (InReady(k) <=> In(s, k)) /\ (OnceReady(k) <=> AtMostOnce(s, k))
  BY DEF InReady, In, OnceReady
<1>5. \A k \in Jobs : In(s, k) => QueueOf[k] = q
  BY <1>1 DEF OwnQueue
<1> HIDE DEF t
<1>9. \A k \in Jobs : In(t, k) => QueueOf[k] = q
  BY <1>2, <1>5
<1>10. /\ ready' \in [Queues -> Seq(Jobs)] /\ OwnQueue'
       /\ \A k \in Jobs : IF QueueOf[k] = q
                          THEN (InReady(k)' <=> In(t, k)) /\ (OnceReady(k)' <=> AtMostOnce(t, k))
                          ELSE (InReady(k)' <=> InReady(k)) /\ (OnceReady(k)' <=> OnceReady(k))
  BY <1>2, <1>3, <1>9, ListChange
<1> HIDE DEF s
<1>11. Head(ready[q]) = Head(s)
  BY DEF s
<1> QED  BY <1>2, <1>4, <1>5, <1>10, <1>11


(***************************************************************************)
(* What each driver call does.  All but push touch one job, which they     *)
(* name, and leave every other record, score and list entry alone.         *)
(***************************************************************************)

LEMMA PayloadTypes ==
    /\ NoPayload \in Payload
    /\ \A d \in Delay : NewPayload(d) \in Payload
    /\ \A p \in Payload :
          /\ Claimed(p) \in Payload
          /\ Requeued(p) \in Payload
          /\ \A s \in Status : [p EXCEPT !.status = s] \in Payload
          /\ \A d \in Delay : [p EXCEPT !.delay = d] \in Payload
          /\ \A d \in Delay : [p EXCEPT !.status = "pending", !.delay = d] \in Payload
          /\ [p EXCEPT !.started = "stale"] \in Payload
<1>1. NoPayload \in Payload
  BY DEF NoPayload, Payload, Delay, Started
<1>2. \A d \in Delay : NewPayload(d) \in Payload
  BY DEF NoPayload, NewPayload, Payload, Status, Delay, Started
<1> SUFFICES ASSUME NEW p \in Payload
             PROVE  /\ Claimed(p) \in Payload
                    /\ Requeued(p) \in Payload
                    /\ \A s \in Status : [p EXCEPT !.status = s] \in Payload
                    /\ \A d \in Delay : [p EXCEPT !.delay = d] \in Payload
                    /\ \A d \in Delay : [p EXCEPT !.status = "pending", !.delay = d] \in Payload
                    /\ [p EXCEPT !.started = "stale"] \in Payload
  BY <1>1, <1>2
<1>3. Claimed(p) \in Payload
  <2>1. p.attempts + 1 \in Nat
    BY DEF Payload
  <2> QED  BY <2>1 DEF Claimed, Payload, Status, Delay, Started
<1>4. Requeued(p) \in Payload
  BY DEF Requeued, Payload, Status, Delay, Started
<1>5. \A s \in Status : [p EXCEPT !.status = s] \in Payload
  BY DEF Payload, Status
<1>6. \A d \in Delay : [p EXCEPT !.delay = d] \in Payload
  BY DEF Payload
<1>7. \A d \in Delay : [p EXCEPT !.status = "pending", !.delay = d] \in Payload
  BY DEF Payload, Status
<1>8. [p EXCEPT !.started = "stale"] \in Payload
  BY DEF Payload, Started
<1> QED  BY <1>3, <1>4, <1>5, <1>6, <1>7, <1>8

LEMMA IdleType ==
    {Idle, Dead} \subseteq [pc : Points, job : Jobs \cup {NoJob}, payload : Payload]
<1>1. Idle \in [pc : Points, job : Jobs \cup {NoJob}, payload : Payload]
  BY PayloadTypes DEF Idle, Points
<1>2. [Idle EXCEPT !.pc = "dead"] \in [pc : Points, job : Jobs \cup {NoJob}, payload : Payload]
  BY <1>1 DEF Points
<1> QED  BY <1>1, <1>2 DEF Dead

Spared(j) ==
    \A k \in Jobs \ {j} :
        /\ hash'[k] = hash[k] /\ delayed'[k] = delayed[k]
        /\ InReady(k)' <=> InReady(k)
        /\ OnceReady(k) => OnceReady(k)'

LEMMA IndexTypes ==
    ASSUME idxStatus \in [Status -> SUBSET Jobs], idxAll \subseteq Jobs,
           NEW j \in Jobs, NEW old, NEW new, IndexChange(j, old, new)
    PROVE  idxStatus' \in [Status -> SUBSET Jobs] /\ idxAll' \subseteq Jobs
BY DEF IndexChange

LEMMA PushEffect ==
    ASSUME RedisTypeOK, OwnQueue, NEW j \in Jobs, NEW d \in {"none", "future"}, Push(j, d)
    PROVE  /\ RedisTypeOK' /\ OwnQueue' /\ Spared(j)
           /\ j \notin pushed /\ pushed' = pushed \cup {j}
           /\ hash'[j].status = "pending" /\ hash'[j].delay = d
           /\ InReady(j)' <=> InReady(j) \/ d = "none"
           /\ d = "future" => delayed'[j] = "future"
           /\ OnceReady(j) /\ ~InReady(j) => OnceReady(j)'
<1>1. /\ hash' = [hash EXCEPT ![j] = NewPayload(d)] /\ NewPayload(d) \in Payload
      /\ NewPayload(d).status = "pending" /\ NewPayload(d).delay = d
      /\ j \notin pushed /\ pushed' = pushed \cup {j}
      /\ idxAll' \subseteq Jobs /\ idxStatus' \in [Status -> SUBSET Jobs]
  BY PayloadTypes DEF Push, HSet, RedisTypeOK, NewPayload, NoPayload, Delay, Status
<1>2. CASE d = "future"
  <2>1. delayed' = [delayed EXCEPT ![j] = d] /\ ready' = ready
    BY <1>2 DEF Push
  <2> QED
    BY <1>1, <1>2, <2>1 DEF RedisTypeOK, OwnQueue, Spared, InReady, OnceReady, Delay
<1>3. CASE d = "none"
  <2>1. delayed' = delayed /\ ready' = [ready EXCEPT ![QueueOf[j]] = Append(@, j)]
    BY <1>3 DEF Push
  <2>2. /\ ready' \in [Queues -> Seq(Jobs)] /\ OwnQueue'
        /\ \A k \in Jobs : InReady(k)' <=> InReady(k) \/ k = j
        /\ \A k \in Jobs : OnceReady(k) /\ (k # j \/ ~InReady(j)) => OnceReady(k)'
    BY <2>1, RPushFacts DEF RedisTypeOK
  <2> QED  BY <1>1, <1>3, <2>1, <2>2 DEF RedisTypeOK, Spared
<1> QED  BY <1>2, <1>3

LEMMA ClaimEffect ==
    ASSUME RedisTypeOK, OwnQueue, NEW j \in Jobs, ClaimPending(j)
    PROVE  /\ RedisTypeOK' /\ OwnQueue' /\ Spared(j) /\ pushed' = pushed
           /\ Claimable(j) /\ Claimed(hash[j]) \in Payload /\ hash'[j] = Claimed(hash[j])
           /\ Claimed(hash[j]).status = "processing" /\ Claimed(hash[j]).started = "fresh"
           /\ Claimed(hash[j]).delay = hash[j].delay
           /\ InReady(j)' <=> InReady(j)
           /\ OnceReady(j)' <=> OnceReady(j)
<1>1. /\ hash[j] \in Payload /\ Claimed(hash[j]) \in Payload
      /\ Claimed(hash[j]).status = "processing" /\ Claimed(hash[j]).started = "fresh"
      /\ Claimed(hash[j]).delay = hash[j].delay
  <2>1. hash[j] \in Payload
    BY DEF RedisTypeOK
  <2> QED  BY <2>1, PayloadTypes DEF Claimed, Payload
<1>2. /\ hash' = [hash EXCEPT ![j] = Claimed(hash[j])] /\ ready' = ready
      /\ delayed' = delayed /\ pushed' = pushed
      /\ idxStatus' \in [Status -> SUBSET Jobs] /\ idxAll' \subseteq Jobs
  BY IndexTypes DEF ClaimPending, HSet, RedisTypeOK
<1> QED
  BY <1>1, <1>2 DEF ClaimPending, RedisTypeOK, OwnQueue, Spared, InReady, OnceReady

LEMMA TransitionEffect ==
    ASSUME RedisTypeOK, OwnQueue, NEW j \in Jobs, NEW p \in Payload, NEW new \in Status,
           Transition(j, p, new)
    PROVE  /\ RedisTypeOK' /\ OwnQueue' /\ Spared(j) /\ pushed' = pushed
           /\ hash'[j].status = new /\ hash'[j].delay = p.delay
           /\ hash'[j].started = p.started
           /\ InReady(j)' <=> InReady(j)
           /\ OnceReady(j)' <=> OnceReady(j)
<1> DEFINE n == [p EXCEPT !.status = new]
<1>1. n \in Payload /\ n.status = new /\ n.delay = p.delay /\ n.started = p.started
  BY PayloadTypes DEF Payload
<1>2. /\ hash' = [hash EXCEPT ![j] = n] /\ ready' = ready
      /\ delayed' = delayed /\ pushed' = pushed
      /\ idxStatus' \in [Status -> SUBSET Jobs] /\ idxAll' \subseteq Jobs
  BY IndexTypes DEF Transition, HSet, RedisTypeOK
<1> HIDE DEF n
<1> QED
  BY <1>1, <1>2 DEF RedisTypeOK, OwnQueue, Spared, InReady, OnceReady

LEMMA ReleaseEffect ==
    ASSUME RedisTypeOK, OwnQueue, NEW j \in Jobs, NEW p \in Payload, NEW d, Release(j, p, d)
    PROVE  /\ RedisTypeOK' /\ OwnQueue' /\ Spared(j) /\ pushed' = pushed
           /\ hash'[j].status = "pending"
           /\ OnceReady(j)'
           /\ \/ d = "future" /\ hash'[j].delay = "future" /\ delayed'[j] = "future" /\ ~InReady(j)'
              \/ d = "none" /\ hash'[j].delay = p.delay /\ InReady(j)'
<1>0. /\ pushed' = pushed
      /\ idxStatus' \in [Status -> SUBSET Jobs] /\ idxAll' \subseteq Jobs
  BY IndexTypes DEF Release, RedisTypeOK
<1>1. CASE d = "future"
  <2> DEFINE n == [p EXCEPT !.status = "pending", !.delay = d]
  <2>1. n \in Payload /\ n.status = "pending" /\ n.delay = d
    <3>1. n \in Payload
      BY <1>1, PayloadTypes DEF Delay
    <3>2. n.status = "pending" /\ n.delay = d
      BY DEF Payload
    <3> QED  BY <3>1, <3>2
  <2>2. /\ hash' = [hash EXCEPT ![j] = n] /\ delayed' = [delayed EXCEPT ![j] = d]
        /\ ready' = [ready EXCEPT ![QueueOf[j]] = Without(@, j)]
    BY <1>1 DEF Release, HSet
  <2>3. /\ ready' \in [Queues -> Seq(Jobs)] /\ OwnQueue'
        /\ \A k \in Jobs : InReady(k)' <=> InReady(k) /\ k # j
        /\ \A k \in Jobs : OnceReady(k) \/ k = j => OnceReady(k)'
    BY <2>2, RemovalFacts DEF RedisTypeOK
  <2> HIDE DEF n
  <2> QED  BY <1>0, <1>1, <2>1, <2>2, <2>3 DEF RedisTypeOK, Spared, Delay
<1>2. CASE d = "none"
  <2> DEFINE n == [p EXCEPT !.status = "pending"]
  <2>1. n \in Payload /\ n.status = "pending" /\ n.delay = p.delay
    BY PayloadTypes DEF Payload, Status
  <2>2. /\ hash' = [hash EXCEPT ![j] = n] /\ delayed' = delayed /\ Requeue(j)
    BY <1>2 DEF Release, HSet
  <2>3. /\ ready' \in [Queues -> Seq(Jobs)] /\ OwnQueue'
        /\ \A k \in Jobs : InReady(k)' <=> InReady(k) \/ k = j
        /\ \A k \in Jobs : OnceReady(k) \/ k = j => OnceReady(k)'
    BY <2>2, RequeueFacts DEF RedisTypeOK
  <2> HIDE DEF n
  <2> QED  BY <1>0, <1>2, <2>1, <2>2, <2>3 DEF RedisTypeOK, Spared
<1> QED  BY <1>1, <1>2 DEF Release

LEMMA StuckEffect ==
    ASSUME RedisTypeOK, OwnQueue, NEW j \in Jobs, RequeueStuck(j)
    PROVE  /\ RedisTypeOK' /\ OwnQueue' /\ Spared(j) /\ pushed' = pushed
           /\ hash[j].status = "processing" /\ hash[j].started = "stale"
           /\ hash'[j].status = "pending" /\ hash'[j].delay = "none"
           /\ OnceReady(j)' /\ InReady(j)'
<1>0. /\ pushed' = pushed
      /\ idxStatus' \in [Status -> SUBSET Jobs] /\ idxAll' \subseteq Jobs
      /\ hash[j].status = "processing" /\ hash[j].started = "stale"
  BY IndexTypes DEF RequeueStuck, RedisTypeOK
<1> DEFINE n == Requeued(hash[j])
<1>1. n \in Payload /\ n.status = "pending" /\ n.delay = "none"
  <2>1. hash[j] \in Payload
    BY DEF RedisTypeOK
  <2> QED  BY <2>1, PayloadTypes DEF Requeued, Payload
<1>2. /\ hash' = [hash EXCEPT ![j] = n] /\ delayed' = [delayed EXCEPT ![j] = "none"]
      /\ Requeue(j)
  BY DEF RequeueStuck, HSet
<1>3. /\ ready' \in [Queues -> Seq(Jobs)] /\ OwnQueue'
      /\ \A k \in Jobs : InReady(k)' <=> InReady(k) \/ k = j
      /\ \A k \in Jobs : OnceReady(k) \/ k = j => OnceReady(k)'
  BY <1>2, RequeueFacts DEF RedisTypeOK
<1> HIDE DEF n
<1> QED  BY <1>0, <1>1, <1>2, <1>3 DEF RedisTypeOK, Spared, Delay

LEMMA PollEffect ==
    ASSUME RedisTypeOK, OwnQueue, NEW j \in Jobs, PromoteDelayed(j)
    PROVE  /\ RedisTypeOK' /\ OwnQueue' /\ Spared(j) /\ pushed' = pushed
           /\ hash'[j].status = hash[j].status
           /\ OnceReady(j) => OnceReady(j)'
           /\ \/ /\ hash[j].status # "pending" \/ hash[j].delay = "none"
                 /\ hash' = hash /\ (InReady(j)' <=> InReady(j))
              \/ /\ hash[j].status = "pending" /\ hash[j].delay = "future"
                 /\ delayed'[j] = "future" /\ hash' = hash /\ (InReady(j)' <=> InReady(j))
              \/ /\ hash[j].status = "pending" /\ hash[j].delay = "due"
                 /\ hash'[j].delay = "none" /\ InReady(j)'
<1>0. /\ pushed' = pushed /\ idxAll' = idxAll /\ idxStatus' = idxStatus
  BY DEF PromoteDelayed
<1>1. CASE /\ hash[j].status # "pending" \/ hash[j].delay = "none"
           /\ delayed' = [delayed EXCEPT ![j] = "none"]
           /\ UNCHANGED <<hash, ready>>
  BY <1>0, <1>1 DEF RedisTypeOK, OwnQueue, Spared, InReady, OnceReady, Delay
<1>3. CASE /\ hash[j].status = "pending" /\ hash[j].delay = "future"
           /\ delayed' = [delayed EXCEPT ![j] = "future"]
           /\ UNCHANGED <<hash, ready>>
  BY <1>0, <1>3 DEF RedisTypeOK, OwnQueue, Spared, InReady, OnceReady, Delay
<1>2. CASE /\ hash[j].status = "pending" /\ hash[j].delay = "due"
           /\ delayed' = [delayed EXCEPT ![j] = "none"]
           /\ HSet(j, [hash[j] EXCEPT !.delay = "none"])
           /\ Requeue(j)
  <2> DEFINE n == [hash[j] EXCEPT !.delay = "none"]
  <2>1. n \in Payload /\ n.status = "pending" /\ n.delay = "none"
    <3>1. hash[j] \in Payload
      BY DEF RedisTypeOK
    <3>2. n \in Payload
      BY <3>1, PayloadTypes DEF Delay
    <3>3. n.status = "pending" /\ n.delay = "none"
      BY <1>2, <3>1 DEF Payload
    <3> QED  BY <3>2, <3>3
  <2>2. hash' = [hash EXCEPT ![j] = n]
    BY <1>2 DEF HSet
  <2>3. /\ ready' \in [Queues -> Seq(Jobs)] /\ OwnQueue'
        /\ \A k \in Jobs : InReady(k)' <=> InReady(k) \/ k = j
        /\ \A k \in Jobs : OnceReady(k) \/ k = j => OnceReady(k)'
    BY <1>2, RequeueFacts DEF RedisTypeOK
  <2> HIDE DEF n
  <2> QED  BY <1>0, <1>2, <2>1, <2>2, <2>3 DEF RedisTypeOK, Spared, Delay
<1> QED  BY <1>1, <1>2, <1>3 DEF PromoteDelayed

LEMMA PromoteEffect ==
    ASSUME RedisTypeOK, OwnQueue, NEW j \in Jobs, NEW p \in Payload, Promote(j, p)
    PROVE  /\ RedisTypeOK' /\ OwnQueue' /\ Spared(j) /\ pushed' = pushed
           /\ hash'[j].status = "pending" /\ hash'[j].delay = "none"
<1>0. /\ pushed' = pushed /\ idxAll' = idxAll /\ idxStatus' = idxStatus
  BY DEF Promote
<1> DEFINE n == [p EXCEPT !.delay = "none"]
<1>1. n \in Payload /\ n.status = "pending" /\ n.delay = "none"
  <2>1. n \in Payload
    BY PayloadTypes DEF Delay
  <2>2. n.status = "pending" /\ n.delay = "none"
    BY DEF Promote, Payload
  <2> QED  BY <2>1, <2>2
<1>2. hash' = [hash EXCEPT ![j] = n]
  BY DEF Promote, HSet
<1>3. CASE UNCHANGED <<delayed, ready>>
  <2> HIDE DEF n
  <2> QED  BY <1>0, <1>1, <1>2, <1>3 DEF RedisTypeOK, OwnQueue, Spared, InReady, OnceReady
<1>4. CASE /\ delayed' = [delayed EXCEPT ![j] = "none"]
           /\ ready' = [ready EXCEPT ![QueueOf[j]] = Append(@, j)]
  <2>1. /\ ready' \in [Queues -> Seq(Jobs)] /\ OwnQueue'
        /\ \A k \in Jobs : InReady(k)' <=> InReady(k) \/ k = j
        /\ \A k \in Jobs : OnceReady(k) /\ (k # j \/ ~InReady(j)) => OnceReady(k)'
    BY <1>4, RPushFacts DEF RedisTypeOK
  <2> HIDE DEF n
  <2> QED  BY <1>0, <1>1, <1>2, <1>4, <2>1 DEF RedisTypeOK, Spared, Delay
<1> QED  BY <1>3, <1>4 DEF Promote

LEMMA DeleteEffect ==
    ASSUME RedisTypeOK, OwnQueue, NEW j \in Jobs, NEW p \in Payload, Delete(j, p) \/ Reap(j, p)
    PROVE  /\ RedisTypeOK' /\ OwnQueue' /\ Spared(j) /\ pushed' = pushed
           /\ OnceReady(j) => OnceReady(j)'
           /\ InReady(j)' => InReady(j)
           /\ \/ hash'[j] = NoPayload
              \/ hash'[j] = hash[j] /\ delayed'[j] = delayed[j] /\ (InReady(j)' <=> InReady(j))
<1>1. CASE Delete(j, p)
  <2>0. /\ pushed' = pushed /\ hash' = [hash EXCEPT ![j] = NoPayload]
        /\ delayed' = [delayed EXCEPT ![j] = "none"]
        /\ NoPayload \in Payload
    BY <1>1, PayloadTypes DEF Delete, HSet
  <2>1. CASE p.status # "absent" /\ ready' = [ready EXCEPT ![QueueOf[j]] = Without(@, j)]
    <3>1. /\ ready' \in [Queues -> Seq(Jobs)] /\ OwnQueue'
          /\ \A k \in Jobs : InReady(k)' <=> InReady(k) /\ k # j
          /\ \A k \in Jobs : OnceReady(k) \/ k = j => OnceReady(k)'
      BY <2>1, RemovalFacts DEF RedisTypeOK
    <3>2. idxAll' \subseteq Jobs /\ idxStatus' \in [Status -> SUBSET Jobs]
      BY <1>1, <2>1 DEF Delete, RedisTypeOK, Payload
    <3> QED  BY <2>0, <2>1, <3>1, <3>2 DEF RedisTypeOK, Spared, Delay
  <2>2. CASE UNCHANGED <<ready, idxAll, idxStatus>>
    BY <2>0, <2>2 DEF RedisTypeOK, OwnQueue, Spared, InReady, OnceReady, Delay
  <2> QED  BY <1>1, <2>1, <2>2 DEF Delete
<1>2. CASE Reap(j, p) /\ ~Delete(j, p)
  BY <1>2 DEF Reap, RedisTypeOK, OwnQueue, Spared, InReady, OnceReady
<1> QED  BY <1>1, <1>2

LEMMA ClockEffect ==
    ASSUME RedisTypeOK, OwnQueue, NEW j \in Jobs, DelayElapses(j) \/ ClaimAges(j)
    PROVE  /\ RedisTypeOK' /\ OwnQueue' /\ Spared(j) /\ pushed' = pushed /\ ready' = ready
           /\ hash'[j].status = hash[j].status
           /\ \/ /\ hash'[j].delay = Elapsed(hash[j].delay) /\ delayed'[j] = Elapsed(delayed[j])
                 /\ hash'[j].started = hash[j].started
              \/ /\ ClaimAges(j)
                 /\ hash'[j].delay = hash[j].delay /\ delayed'[j] = delayed[j]
<1>0. /\ pushed' = pushed /\ idxAll' = idxAll /\ idxStatus' = idxStatus /\ ready' = ready
      /\ hash[j] \in Payload /\ delayed[j] \in Delay
  BY DEF DelayElapses, ClaimAges, RedisTypeOK
<1>1. CASE DelayElapses(j)
  <2> DEFINE n == [hash[j] EXCEPT !.delay = Elapsed(@)]
             e == Elapsed(delayed[j])
  <2>1. Elapsed(hash[j].delay) \in Delay /\ e \in Delay
    BY <1>0 DEF Elapsed, Delay, Payload
  <2>2. /\ n \in Payload /\ n.status = hash[j].status /\ n.started = hash[j].started
        /\ n.delay = Elapsed(hash[j].delay)
    BY <1>0, <2>1 DEF Payload
  <2>3. hash' = [hash EXCEPT ![j] = n] /\ delayed' = [delayed EXCEPT ![j] = e]
    BY <1>1 DEF DelayElapses, HSet
  <2> HIDE DEF n, e
  <2>4. e = Elapsed(delayed[j])
    BY DEF e
  <2> QED
    BY <1>0, <2>1, <2>2, <2>3, <2>4 DEF RedisTypeOK, OwnQueue, Spared, InReady, OnceReady
<1>2. CASE ClaimAges(j)
  <2> DEFINE n == [hash[j] EXCEPT !.started = "stale"]
  <2>1. n \in Payload /\ n.status = hash[j].status /\ n.delay = hash[j].delay
    BY <1>0, PayloadTypes DEF Payload
  <2>2. hash' = [hash EXCEPT ![j] = n] /\ delayed' = delayed
    BY <1>2 DEF ClaimAges, HSet
  <2> HIDE DEF n
  <2> QED
    BY <1>0, <1>2, <2>1, <2>2 DEF RedisTypeOK, OwnQueue, Spared, InReady, OnceReady
<1> QED  BY <1>1, <1>2


(***************************************************************************)
(* Every pending job has a way to a worker, whatever the environment does. *)
(***************************************************************************)

\* The ways to a pending job.  The delayed set counts only when the record
\* itself is waiting: the poller drops members whose record is not.
Reach(j) ==
    \/ InReady(j)
    \/ \E w \in Workers : worker[w].pc = "popping" /\ worker[w].job = j
    \/ hash[j].delay = "due" /\ delayed[j] # "none"
    \/ hash[j].delay = "future"

Traced(j) ==
    /\ Present(j) \/ InReady(j) => j \in pushed
    /\ hash[j].delay = "future" => hash[j].status = "pending" /\ delayed[j] = "future"
    /\ j \notin lost => OnceReady(j) /\ (hash[j].status = "pending" => Reach(j))

\* No copy in a worker's hands has a delay that is still to elapse, so no
\* release without a delay brings one back.
WorkersHold ==
    \A w \in Workers :
        /\ worker[w].payload.delay # "future"
        /\ worker[w].pc \notin {"idle", "dead"} => worker[w].job \in pushed

AdminsHold ==
    \A a \in Admins :
        /\ admin[a].op # "none" => admin[a].job \in Jobs
        /\ admin[a].op \in {"retry", "promote"} => admin[a].job \in pushed
        /\ admin[a].op = "retry" => admin[a].copy.delay # "future"

PathInv == OwnQueue /\ WorkersHold /\ AdminsHold /\ \A j \in Jobs : Traced(j)

WorkerState == [pc : Points, job : Jobs \cup {NoJob}, payload : Payload]

\* A step about one job keeps every other job's way open.
LEMMA OthersTraced ==
    ASSUME PathInv, NEW j \in Jobs, Spared(j), pushed \subseteq pushed', lost \subseteq lost',
           \A w \in Workers : worker[w].pc = "popping" /\ worker[w].job # j
              => worker'[w].pc = "popping" /\ worker'[w].job = worker[w].job
    PROVE  \A k \in Jobs \ {j} : Traced(k)'
<1> SUFFICES ASSUME NEW k \in Jobs \ {j} PROVE Traced(k)'
  OBVIOUS
<1>1. /\ hash'[k] = hash[k] /\ delayed'[k] = delayed[k]
      /\ InReady(k)' <=> InReady(k)
      /\ OnceReady(k) => OnceReady(k)'
  BY DEF Spared
<1>2. Traced(k)
  BY DEF PathInv
<1>3. Reach(k) => Reach(k)'
  BY <1>1 DEF Reach
<1> QED  BY <1>1, <1>2, <1>3 DEF Traced, Present

LEMMA JobStep ==
    ASSUME TypeOK, PathInv, NEW j \in Jobs, Spared(j), OwnQueue',
           pushed \subseteq pushed', lost \subseteq lost',
           \A w \in Workers : worker[w].pc = "popping" /\ worker[w].job # j
              => worker'[w].pc = "popping" /\ worker'[w].job = worker[w].job,
           WorkersHold', AdminsHold', Traced(j)'
    PROVE  PathInv'
BY OthersTraced DEF PathInv

\* A step of one worker: its new state is to be looked at, no other is.
LEMMA WorkerMoves ==
    ASSUME TypeOK, PathInv, NEW w \in Workers, NEW x \in WorkerState,
           worker' = [worker EXCEPT ![w] = x], pushed \subseteq pushed',
           x.payload.delay # "future",
           x.pc \notin {"idle", "dead"} => x.job \in pushed'
    PROVE  /\ WorkerTypeOK' /\ WorkersHold'
           /\ worker'[w] = x /\ \A v \in Workers \ {w} : worker'[v] = worker[v]
<1>1. worker \in [Workers -> WorkerState]
  BY DEF TypeOK, WorkerTypeOK, WorkerState
<1>2. worker'[w] = x /\ \A v \in Workers \ {w} : worker'[v] = worker[v]
  BY <1>1
<1>3. WorkerTypeOK'
  BY <1>1 DEF WorkerTypeOK, WorkerState
<1> QED  BY <1>2, <1>3 DEF WorkersHold, PathInv

\* Operators keep what they hold while jobs are only added.
LEMMA AdminsKept ==
    ASSUME TypeOK, PathInv, admin' = admin, pushed \subseteq pushed'
    PROVE  AdminsHold'
BY DEF PathInv, AdminsHold

LEMMA WorkersKept ==
    ASSUME TypeOK, PathInv, worker' = worker, pushed \subseteq pushed'
    PROVE  WorkersHold' /\ WorkerTypeOK'
BY DEF PathInv, WorkersHold, TypeOK, WorkerTypeOK

LEMMA IdleFacts ==
    /\ Idle \in WorkerState /\ Dead \in WorkerState
    /\ Idle.pc = "idle" /\ Dead.pc = "dead"
    /\ Idle.payload.delay # "future" /\ Dead.payload.delay # "future"
<1>1. Idle \in WorkerState /\ Dead \in WorkerState
  BY IdleType DEF WorkerState
<1> QED  BY <1>1 DEF Idle, Dead, NoPayload

LEMMA PathStep == TypeOK /\ PathInv /\ [Next]_vars => TypeOK' /\ PathInv'
<1> SUFFICES ASSUME TypeOK, PathInv, [Next]_vars PROVE TypeOK' /\ PathInv'
  OBVIOUS
<1>a. /\ RedisTypeOK /\ OwnQueue
      /\ hash \in [Jobs -> Payload] /\ pushed \subseteq Jobs
      /\ worker \in [Workers -> WorkerState]
      /\ admin \in [Admins -> [op : AdminOps \cup {"none"}, job : Jobs \cup {NoJob},
                               copy : Payload]]
      /\ poll \subseteq Jobs /\ lost \subseteq Jobs /\ faults \in 0..MaxFaults
  BY DEF TypeOK, RedisTypeOK, PathInv, WorkerTypeOK, WorkerState
<1>b. \A j \in Jobs : Traced(j)
  BY DEF PathInv
<1>1. CASE Dispatch
  <2>1. PICK j \in Jobs, d \in {"none", "future"} : Push(j, d)
    BY <1>1 DEF Dispatch
  <2>2. UNCHANGED <<worker, poll, admin, lost, faults>>
    BY <1>1 DEF Dispatch
  <2>3. /\ RedisTypeOK' /\ OwnQueue' /\ Spared(j)
        /\ j \notin pushed /\ pushed' = pushed \cup {j}
        /\ hash'[j].status = "pending" /\ hash'[j].delay = d
        /\ InReady(j)' <=> InReady(j) \/ d = "none"
        /\ d = "future" => delayed'[j] = "future"
        /\ OnceReady(j) /\ ~InReady(j) => OnceReady(j)'
    BY <1>a, <2>1, PushEffect
  <2>4. ~InReady(j)
    BY <1>b, <2>3 DEF Traced
  <2>5. Traced(j)'
    <3>1. OnceReady(j)
      BY <2>4 DEF OnceReady, AtMostOnce, InReady
    <3> QED  BY <2>3, <2>4, <3>1 DEF Traced, Reach
  <2>6. WorkersHold' /\ WorkerTypeOK' /\ AdminsHold'
    BY <2>2, <2>3, WorkersKept, AdminsKept
  <2>7. PathInv'
    BY <2>2, <2>3, <2>5, <2>6, JobStep
  <2> QED  BY <1>a, <2>2, <2>3, <2>6, <2>7 DEF TypeOK
<1>2. ASSUME NEW w \in Workers, NEW q \in Queues, PopId(w, q) PROVE TypeOK' /\ PathInv'
  <2>a. PICK j : j = Head(ready[q])
    OBVIOUS
  <2> DEFINE x == [pc |-> "popping", job |-> j, payload |-> NoPayload]
  <2>1. LPop(q) /\ worker[w].pc = "idle" /\ worker' = [worker EXCEPT ![w] = x] /\ Aside
    BY <1>2, <2>a DEF PopId, BeginPop
  <2>2. /\ ready' \in [Queues -> Seq(Jobs)] /\ OwnQueue'
        /\ j \in Jobs /\ InReady(j)
        /\ \A k \in Jobs : InReady(k) <=> InReady(k)' \/ k = j
        /\ \A k \in Jobs : OnceReady(k) => OnceReady(k)'
    BY <1>a, <2>a, <2>1, LPopFacts DEF RedisTypeOK
  <2>3. UNCHANGED <<hash, delayed, idxAll, idxStatus, pushed>>
    BY <2>1 DEF LPop
  <2>4. j \in pushed
    BY <1>b, <2>2 DEF Traced
  <2>5. x \in WorkerState /\ x.payload.delay # "future" /\ x.pc = "popping" /\ x.job = j
    BY <2>2, PayloadTypes DEF WorkerState, Points, NoPayload
  <2> HIDE DEF x
  <2>6. /\ WorkerTypeOK' /\ WorkersHold'
        /\ worker'[w] = x /\ \A v \in Workers \ {w} : worker'[v] = worker[v]
    BY <2>1, <2>3, <2>4, <2>5, WorkerMoves
  <2>7. AdminsHold'
    BY <2>1, <2>3, AdminsKept DEF Aside
  <2>8. Spared(j)
    BY <2>2, <2>3 DEF Spared
  <2>9. Reach(j)'
    BY <2>5, <2>6 DEF Reach
  <2>10. Traced(j)'
    BY <1>b, <2>1, <2>2, <2>3, <2>4, <2>9 DEF Traced, Present, Aside
  <2>11. PathInv'
    BY <2>1, <2>2, <2>3, <2>6, <2>7, <2>8, <2>10, JobStep DEF Aside
  <2> QED  BY <1>a, <2>1, <2>2, <2>3, <2>6, <2>11 DEF TypeOK, RedisTypeOK, Aside
<1>3. ASSUME NEW w \in Workers, PopClaim(w) PROVE TypeOK' /\ PathInv'
  <2>a. PICK j : j = worker[w].job
    OBVIOUS
  <2> DEFINE x == [pc |-> "running", job |-> j, payload |-> Claimed(hash[j])]
  <2>1. /\ worker[w].pc = "popping" /\ ClaimPending(j)
        /\ worker' = [worker EXCEPT ![w] = x] /\ Aside
    BY <1>3, <2>a DEF PopClaim, StartJob
  <2>2. j \in pushed /\ j \in Jobs
    BY <1>a, <2>a, <2>1 DEF PathInv, WorkersHold
  <2>3. /\ RedisTypeOK' /\ OwnQueue' /\ Spared(j) /\ pushed' = pushed
        /\ Claimable(j) /\ Claimed(hash[j]) \in Payload /\ hash'[j] = Claimed(hash[j])
        /\ Claimed(hash[j]).status = "processing"
        /\ Claimed(hash[j]).delay = hash[j].delay
        /\ OnceReady(j)' <=> OnceReady(j)
    BY <1>a, <2>1, <2>2, ClaimEffect
  <2>4. x \in WorkerState /\ x.payload.delay # "future" /\ x.pc = "running" /\ x.job = j
    BY <2>2, <2>3 DEF WorkerState, Points, Claimable
  <2> HIDE DEF x
  <2>5. /\ WorkerTypeOK' /\ WorkersHold'
        /\ worker'[w] = x /\ \A v \in Workers \ {w} : worker'[v] = worker[v]
    BY <2>1, <2>2, <2>3, <2>4, WorkerMoves
  <2>6. AdminsHold'
    BY <2>1, <2>3, AdminsKept DEF Aside
  <2>7. Traced(j)'
    BY <1>b, <2>1, <2>2, <2>3 DEF Traced, Claimable, Aside
  <2>8. PathInv'
    BY <2>a, <2>1, <2>2, <2>3, <2>5, <2>6, <2>7, JobStep DEF Aside
  <2> QED  BY <1>a, <2>1, <2>3, <2>5, <2>8 DEF TypeOK, Aside
<1>4. ASSUME NEW w \in Workers, PopStale(w) \/ WorkerDies(w) PROVE TypeOK' /\ PathInv'
  <2>1. PICK x \in {Idle, Dead} : worker' = [worker EXCEPT ![w] = x]
    BY <1>4 DEF PopStale, WorkerDies, EmptyPop, Crash
  <2>2. UNCHANGED redisVars /\ UNCHANGED <<poll, admin, faults>> /\ lost \subseteq lost'
        /\ lost' \subseteq lost \cup {worker[w].job}
    BY <1>4 DEF PopStale, WorkerDies, Aside
  <2>3. /\ WorkerTypeOK' /\ WorkersHold'
        /\ worker'[w] = x /\ \A v \in Workers \ {w} : worker'[v] = worker[v]
    BY <2>1, <2>2, IdleFacts, WorkerMoves DEF redisVars
  <2>4. RedisTypeOK' /\ OwnQueue' /\ AdminsHold'
    BY <1>a, <2>2, AdminsKept DEF redisVars, RedisTypeOK, OwnQueue
  <2>5. \A k \in Jobs : Traced(k)'
    <3> SUFFICES ASSUME NEW k \in Jobs PROVE Traced(k)'
      OBVIOUS
    <3>1. Traced(k) /\ (InReady(k)' <=> InReady(k)) /\ (OnceReady(k)' <=> OnceReady(k))
          /\ hash'[k] = hash[k] /\ delayed'[k] = delayed[k] /\ pushed' = pushed
      BY <1>b, <2>2 DEF redisVars, InReady, OnceReady
    <3>2. CASE worker[w].pc = "popping" /\ worker[w].job = k
      <4>1. CASE WorkerDies(w)
        BY <3>1, <3>2, <4>1 DEF Traced, Present, WorkerDies
      <4>2. CASE PopStale(w)
        BY <2>2, <3>1, <3>2, <4>2 DEF Traced, Present, Reach, PopStale, Claimable, Aside
      <4> QED  BY <1>4, <4>1, <4>2
    <3>3. CASE ~(worker[w].pc = "popping" /\ worker[w].job = k)
      BY <2>2, <2>3, <3>1, <3>3 DEF Traced, Present, Reach
    <3> QED  BY <3>2, <3>3
  <2>6. lost' \subseteq Jobs
    <3>1. CASE worker[w].pc = "popping"
      BY <1>a, <2>2, <3>1 DEF PathInv, WorkersHold
    <3>2. CASE worker[w].pc # "popping"
      BY <1>a, <1>4, <3>2 DEF PopStale, WorkerDies, Aside
    <3> QED  BY <3>1, <3>2
  <2> QED  BY <1>a, <2>2, <2>3, <2>4, <2>5, <2>6 DEF TypeOK, PathInv
<1>5. ASSUME NEW w \in Workers, Handle(w) \/ EndJob(w) \/ DriverError(w)
      PROVE  TypeOK' /\ PathInv'
  <2>1. UNCHANGED redisVars /\ Aside /\ worker[w].pc # "popping"
    BY <1>5
    DEF Handle, EndJob, DriverError, HandleReturns, HandleRaises, FinishJob, DriverRaises
  <2>2. \E x \in WorkerState : /\ worker' = [worker EXCEPT ![w] = x]
                               /\ x.payload.delay # "future" /\ x.pc # "popping"
                               /\ x.pc \notin {"idle", "dead"} => x.job \in pushed
    <3>0. /\ worker[w] \in WorkerState /\ worker[w].payload.delay # "future"
          /\ worker[w].pc \notin {"idle", "dead"} => worker[w].job \in pushed
      BY <1>a DEF PathInv, WorkersHold
    <3>1. CASE EndJob(w)
      BY <3>1, IdleFacts DEF EndJob, FinishJob
    <3>2. CASE Handle(w)
      <4>1. PICK pc \in {"succeeded", "raised"} :
               worker[w].pc = "running" /\ worker' = [worker EXCEPT ![w].pc = pc]
        BY <3>2 DEF Handle, HandleReturns, HandleRaises
      <4> DEFINE x == [worker[w] EXCEPT !.pc = pc]
      <4>2. x \in WorkerState /\ x.pc = pc /\ x.job = worker[w].job
            /\ x.payload = worker[w].payload
        BY <3>0 DEF WorkerState, Points
      <4>3. worker' = [worker EXCEPT ![w] = x]
        BY <4>1
      <4> HIDE DEF x
      <4> QED  BY <3>0, <4>1, <4>2, <4>3
    <3>3. CASE DriverError(w)
      <4> DEFINE p == [worker[w].payload EXCEPT !.status = "completed"]
                 x == [worker[w] EXCEPT !.pc = "raised", !.payload = p]
      <4>1. p \in Payload /\ p.delay = worker[w].payload.delay
        BY <3>0, PayloadTypes DEF WorkerState, Status, Payload
      <4>2. worker' = [worker EXCEPT ![w] = x] /\ worker[w].pc \in {"succeeded", "completed"}
        BY <3>3 DEF DriverError, DriverRaises
      <4> HIDE DEF p
      <4>3. x \in WorkerState /\ x.pc = "raised" /\ x.job = worker[w].job /\ x.payload = p
        BY <3>0, <4>1 DEF WorkerState, Points
      <4> HIDE DEF x
      <4> QED  BY <3>0, <4>1, <4>2, <4>3
    <3> QED  BY <1>5, <3>1, <3>2, <3>3
  <2>3. /\ WorkerTypeOK' /\ WorkersHold'
        /\ worker'[w].pc # "popping" /\ \A v \in Workers \ {w} : worker'[v] = worker[v]
    BY <2>1, <2>2, WorkerMoves DEF redisVars
  <2>4. RedisTypeOK' /\ OwnQueue' /\ AdminsHold'
    BY <1>a, <2>1, AdminsKept DEF redisVars, RedisTypeOK, OwnQueue, Aside
  <2>5. \A k \in Jobs : Traced(k)'
    BY <1>b, <2>1, <2>3 DEF redisVars, InReady, OnceReady, Traced, Present, Reach, Aside
  <2> QED  BY <1>a, <2>1, <2>3, <2>4, <2>5 DEF TypeOK, PathInv, Aside
<1>6. ASSUME NEW w \in Workers, CompleteJob(w) \/ ReleaseJob(w) \/ FailJob(w)
      PROVE  TypeOK' /\ PathInv'
  <2>a. PICK j, p : j = worker[w].job /\ p = worker[w].payload
    OBVIOUS
  <2>0. /\ worker[w] \in WorkerState /\ p \in Payload /\ p.delay # "future" /\ Aside
        /\ worker[w].pc \in {"succeeded", "raised"} /\ j \in pushed /\ j \in Jobs
    BY <1>a, <1>6, <2>a
    DEF CompleteJob, ReleaseJob, FailJob, RecordCompletion, RecordFailure, PathInv, WorkersHold,
        WorkerState
  <2>1. /\ RedisTypeOK' /\ OwnQueue' /\ Spared(j) /\ pushed' = pushed
        /\ Traced(j)'
    <3>1. CASE CompleteJob(w) \/ FailJob(w)
      <4>1. PICK new \in {"completed", "failed"} : Transition(j, p, new)
        BY <2>a, <3>1 DEF CompleteJob, Complete, FailJob, Fail
      <4>2. /\ RedisTypeOK' /\ OwnQueue' /\ Spared(j) /\ pushed' = pushed
            /\ hash'[j].status = new /\ hash'[j].delay = p.delay
            /\ OnceReady(j)' <=> OnceReady(j)
        <5>1. new \in Status
          BY DEF Status
        <5> QED  BY <1>a, <2>0, <4>1, <5>1, TransitionEffect
      <4> QED  BY <1>b, <2>0, <4>2 DEF Traced, Aside
    <3>2. CASE ReleaseJob(w)
      <4>1. PICK d \in RetryDelays : Release(j, p, d)
        BY <2>a, <3>2 DEF ReleaseJob
      <4>2. /\ RedisTypeOK' /\ OwnQueue' /\ Spared(j) /\ pushed' = pushed
            /\ hash'[j].status = "pending"
            /\ OnceReady(j)'
            /\ \/ hash'[j].delay = "future" /\ delayed'[j] = "future"
               \/ hash'[j].delay = p.delay /\ InReady(j)'
        BY <1>a, <2>0, <4>1, ReleaseEffect
      <4> QED  BY <2>0, <4>2 DEF Traced, Reach
    <3> QED  BY <1>6, <3>1, <3>2
  <2>2. \E x \in WorkerState : /\ worker' = [worker EXCEPT ![w] = x]
                               /\ x.payload.delay # "future"
                               /\ x.pc \notin {"idle", "dead"} => x.job \in pushed'
    <3>1. CASE ReleaseJob(w) \/ FailJob(w)
      BY <3>1, IdleFacts DEF ReleaseJob, FailJob, RecordFailure
    <3>2. CASE CompleteJob(w)
      <4> DEFINE c == [p EXCEPT !.status = "completed"]
                 x == [worker[w] EXCEPT !.pc = "completed", !.payload = c]
      <4>1. c \in Payload /\ c.delay = p.delay
        <5>1. c \in Payload
          BY <2>0, PayloadTypes DEF Status
        <5> QED  BY <2>0, <5>1 DEF Payload
      <4>2. worker' = [worker EXCEPT ![w] = x]
        BY <2>a, <3>2 DEF CompleteJob, RecordCompletion
      <4> HIDE DEF c
      <4>3. x \in WorkerState /\ x.pc = "completed" /\ x.job = j /\ x.payload = c
        BY <2>a, <2>0, <4>1 DEF WorkerState, Points
      <4> HIDE DEF x
      <4> QED  BY <2>0, <2>1, <4>1, <4>2, <4>3
    <3> QED  BY <1>6, <3>1, <3>2
  <2>3. /\ WorkerTypeOK' /\ WorkersHold' /\ \A v \in Workers \ {w} : worker'[v] = worker[v]
    BY <2>1, <2>2, WorkerMoves
  <2>4. AdminsHold'
    BY <2>0, <2>1, AdminsKept DEF Aside
  <2>5. PathInv'
    BY <2>0, <2>1, <2>3, <2>4, JobStep DEF Aside
  <2> QED  BY <1>a, <2>0, <2>1, <2>3, <2>5 DEF TypeOK, Aside
<1>7. CASE PollRead
  <2>1. UNCHANGED <<redisVars, worker, admin, lost, faults>> /\ poll' \subseteq Jobs
    BY <1>7 DEF PollRead
  <2>2. WorkersHold' /\ WorkerTypeOK' /\ AdminsHold' /\ RedisTypeOK' /\ OwnQueue'
    BY <1>a, <2>1, WorkersKept, AdminsKept DEF redisVars, RedisTypeOK, OwnQueue
  <2>3. \A k \in Jobs : Traced(k)'
    BY <1>b, <2>1 DEF redisVars, InReady, OnceReady, Traced, Present, Reach
  <2> QED  BY <1>a, <2>1, <2>2, <2>3 DEF TypeOK, PathInv
<1>8. ASSUME NEW j \in Jobs, PollPromote(j) PROVE TypeOK' /\ PathInv'
  <2>1. PromoteDelayed(j) /\ poll' \subseteq poll /\ UNCHANGED <<worker, admin, lost, faults>>
    BY <1>8 DEF PollPromote
  <2>2. /\ RedisTypeOK' /\ OwnQueue' /\ Spared(j) /\ pushed' = pushed
        /\ hash'[j].status = hash[j].status
        /\ OnceReady(j) => OnceReady(j)'
        /\ \/ /\ hash[j].status # "pending" \/ hash[j].delay = "none"
              /\ hash' = hash /\ (InReady(j)' <=> InReady(j))
           \/ /\ hash[j].status = "pending" /\ hash[j].delay = "future"
              /\ delayed'[j] = "future" /\ hash' = hash /\ (InReady(j)' <=> InReady(j))
           \/ /\ hash[j].status = "pending" /\ hash[j].delay = "due"
              /\ hash'[j].delay = "none" /\ InReady(j)'
    BY <1>a, <2>1, PollEffect
  <2>3. Traced(j)'
    BY <1>b, <2>1, <2>2 DEF Traced, Present, Reach
  <2>4. WorkersHold' /\ WorkerTypeOK' /\ AdminsHold'
    BY <2>1, <2>2, WorkersKept, AdminsKept
  <2>5. PathInv'
    BY <2>1, <2>2, <2>3, <2>4, JobStep
  <2> QED  BY <1>a, <2>1, <2>2, <2>4, <2>5 DEF TypeOK
<1>9. ASSUME NEW j \in Jobs, RecoverStuck(j) PROVE TypeOK' /\ PathInv'
  <2>1. RequeueStuck(j) /\ UNCHANGED <<worker, poll, admin, lost, faults>>
    BY <1>9 DEF RecoverStuck
  <2>2. /\ RedisTypeOK' /\ OwnQueue' /\ Spared(j) /\ pushed' = pushed
        /\ hash[j].status = "processing"
        /\ hash'[j].status = "pending" /\ hash'[j].delay = "none"
        /\ OnceReady(j)' /\ InReady(j)'
    BY <1>a, <2>1, StuckEffect
  <2>3. Traced(j)'
    BY <1>b, <2>1, <2>2 DEF Traced, Present, Reach
  <2>4. WorkersHold' /\ WorkerTypeOK' /\ AdminsHold'
    BY <2>1, <2>2, WorkersKept, AdminsKept
  <2>5. PathInv'
    BY <2>1, <2>2, <2>3, <2>4, JobStep
  <2> QED  BY <1>a, <2>1, <2>2, <2>4, <2>5 DEF TypeOK
<1>10. ASSUME NEW a \in Admins, AdminRead(a) PROVE TypeOK' /\ PathInv'
  <2>1. PICK op \in AdminOps, j \in Jobs :
           /\ Applies(op, j)
           /\ admin' = [admin EXCEPT ![a] = [op |-> op, job |-> j, copy |-> hash[j]]]
    BY <1>10 DEF AdminRead
  <2>2. UNCHANGED <<redisVars, worker, poll, lost>> /\ faults' \in 0..MaxFaults
    BY <1>10, RedisWorkersAssumption DEF AdminRead, Fault, TypeOK
  <2>3. /\ op = "retry" => j \in pushed /\ hash[j].delay # "future"
        /\ op = "promote" => j \in pushed
    BY <1>b, <2>1 DEF Applies, Traced, Present
  <2>4. /\ AdminsHold' /\ admin' \in [Admins -> [op : AdminOps \cup {"none"},
                                                job : Jobs \cup {NoJob}, copy : Payload]]
    BY <1>a, <2>1, <2>2, <2>3 DEF PathInv, AdminsHold, redisVars
  <2>5. WorkersHold' /\ WorkerTypeOK' /\ RedisTypeOK' /\ OwnQueue'
    BY <1>a, <2>2, WorkersKept DEF redisVars, RedisTypeOK, OwnQueue
  <2>6. \A k \in Jobs : Traced(k)'
    BY <1>b, <2>2 DEF redisVars, InReady, OnceReady, Traced, Present, Reach
  <2> QED  BY <1>a, <2>2, <2>4, <2>5, <2>6 DEF TypeOK, PathInv
<1>11. ASSUME NEW a \in Admins, AdminWrite(a) PROVE TypeOK' /\ PathInv'
  <2>a. PICK c, j : c = admin[a] /\ j = c.job
    OBVIOUS
  <2>1. /\ \/ c.op = "retry" /\ Release(j, c.copy, "none")
           \/ c.op = "promote" /\ Promote(j, c.copy)
           \/ c.op = "delete" /\ Delete(j, c.copy)
           \/ c.op = "prune" /\ Reap(j, c.copy)
        /\ admin' = [admin EXCEPT ![a] = NoCall]
        /\ lost' = IF c.op = "promote" THEN lost \cup {j} ELSE lost
        /\ UNCHANGED <<worker, poll, faults>>
    BY <1>11, <2>a DEF AdminWrite
  <2>2. /\ c.copy \in Payload /\ j \in Jobs
        /\ c.op \in {"retry", "promote"} => j \in pushed
        /\ c.op = "retry" => c.copy.delay # "future"
    BY <1>a, <2>a, <2>1 DEF PathInv, AdminsHold
  <2>3. lost \subseteq lost' /\ lost' \subseteq Jobs
    BY <1>a, <2>1, <2>2
  <2>4. /\ RedisTypeOK' /\ OwnQueue' /\ Spared(j) /\ pushed' = pushed /\ Traced(j)'
    <3>1. CASE c.op = "retry" /\ Release(j, c.copy, "none")
      <4>1. /\ RedisTypeOK' /\ OwnQueue' /\ Spared(j) /\ pushed' = pushed
            /\ hash'[j].status = "pending" /\ OnceReady(j)'
            /\ hash'[j].delay = c.copy.delay /\ InReady(j)'
        BY <1>a, <2>2, <3>1, ReleaseEffect
      <4> QED  BY <2>2, <3>1, <4>1 DEF Traced, Reach
    <3>2. CASE c.op = "promote" /\ Promote(j, c.copy)
      <4>1. /\ RedisTypeOK' /\ OwnQueue' /\ Spared(j) /\ pushed' = pushed
            /\ hash'[j].status = "pending" /\ hash'[j].delay = "none"
        BY <1>a, <2>2, <3>2, PromoteEffect
      <4> QED  BY <2>1, <2>2, <3>2, <4>1 DEF Traced
    <3>3. CASE c.op \in {"delete", "prune"} /\ (Delete(j, c.copy) \/ Reap(j, c.copy))
      <4>1. /\ RedisTypeOK' /\ OwnQueue' /\ Spared(j) /\ pushed' = pushed
            /\ OnceReady(j) => OnceReady(j)'
            /\ InReady(j)' => InReady(j)
            /\ \/ hash'[j] = NoPayload
               \/ hash'[j] = hash[j] /\ delayed'[j] = delayed[j] /\ (InReady(j)' <=> InReady(j))
        BY <1>a, <2>2, <3>3, DeleteEffect
      <4>2. Traced(j)
        BY <1>b, <2>2
      <4>3. CASE hash'[j] = NoPayload
        BY <2>3, <4>1, <4>2, <4>3 DEF Traced, Present, NoPayload
      <4>4. CASE hash'[j] = hash[j] /\ delayed'[j] = delayed[j] /\ (InReady(j)' <=> InReady(j))
        BY <2>1, <2>3, <4>1, <4>2, <4>4 DEF Traced, Present, Reach
      <4> QED  BY <4>1, <4>3, <4>4
    <3> QED  BY <2>1, <3>1, <3>2, <3>3
  <2>5. /\ WorkersHold' /\ WorkerTypeOK'
    BY <2>1, <2>4, WorkersKept
  <2>6. /\ AdminsHold' /\ admin' \in [Admins -> [op : AdminOps \cup {"none"},
                                                job : Jobs \cup {NoJob}, copy : Payload]]
    BY <1>a, <2>1, <2>4, PayloadTypes DEF PathInv, AdminsHold, NoCall
  <2>7. PathInv'
    BY <2>1, <2>2, <2>3, <2>4, <2>5, <2>6, JobStep
  <2> QED  BY <1>a, <2>1, <2>3, <2>4, <2>5, <2>6, <2>7 DEF TypeOK
<1>12. CASE TimePasses
  <2>1. PICK j \in Jobs : DelayElapses(j) \/ ClaimAges(j)
    BY <1>12 DEF TimePasses
  <2>2. UNCHANGED <<worker, poll, admin, lost>> /\ faults' \in 0..MaxFaults
    BY <1>12, RedisWorkersAssumption DEF TimePasses, Fault, TypeOK
  <2>3. /\ RedisTypeOK' /\ OwnQueue' /\ Spared(j) /\ pushed' = pushed /\ ready' = ready
        /\ hash'[j].status = hash[j].status
        /\ \/ hash'[j].delay = Elapsed(hash[j].delay) /\ delayed'[j] = Elapsed(delayed[j])
           \/ hash'[j].delay = hash[j].delay /\ delayed'[j] = delayed[j]
    BY <1>a, <2>1, ClockEffect
  <2>4. Traced(j)'
    BY <1>b, <2>2, <2>3 DEF Traced, Present, Reach, Elapsed, InReady, OnceReady
  <2>5. WorkersHold' /\ WorkerTypeOK' /\ AdminsHold'
    BY <2>2, <2>3, WorkersKept, AdminsKept
  <2>6. PathInv'
    BY <2>2, <2>3, <2>4, <2>5, JobStep
  <2> QED  BY <1>a, <2>2, <2>3, <2>5, <2>6 DEF TypeOK
<1>13. CASE UNCHANGED vars
  <2>1. UNCHANGED <<redisVars, worker, poll, admin, lost, faults>>
    BY <1>13 DEF vars
  <2>2. WorkersHold' /\ WorkerTypeOK' /\ AdminsHold' /\ RedisTypeOK' /\ OwnQueue'
    BY <1>a, <2>1, WorkersKept, AdminsKept DEF redisVars, RedisTypeOK, OwnQueue
  <2>3. \A k \in Jobs : Traced(k)'
    BY <1>b, <2>1 DEF redisVars, InReady, OnceReady, Traced, Present, Reach
  <2> QED  BY <1>a, <2>1, <2>2, <2>3 DEF TypeOK, PathInv
<1> QED
  BY <1>1, <1>2, <1>3, <1>4, <1>5, <1>6, <1>7, <1>8, <1>9, <1>10, <1>11, <1>12, <1>13
  DEF Next, WorkerStep, Poller, Recovery

\* Records, lists, scores, indexes, workers and operators' calls are always
\* well formed, and every pending job is traced.
THEOREM PathInvariant == Spec => [](TypeOK /\ PathInv)
<1>1. ASSUME Init PROVE TypeOK /\ PathInv
  <2>1. /\ hash = [j \in Jobs |-> NoPayload] /\ ready = [q \in Queues |-> <<>>]
        /\ delayed = [j \in Jobs |-> "none"] /\ idxAll = {} /\ pushed = {}
        /\ idxStatus = [s \in Status |-> {}] /\ worker = [w \in Workers |-> Idle]
        /\ poll = {} /\ admin = [a \in Admins |-> NoCall] /\ lost = {} /\ faults = 0
    BY <1>1 DEF Init, RedisInit, WorkerInit
  <2>2. RedisTypeOK
    <3>1. \A q \in Queues : ready[q] \in Seq(Jobs)
      BY <2>1
    <3>2. ready \in [Queues -> Seq(Jobs)]
      BY <2>1, <3>1
    <3> QED  BY <2>1, <3>2, PayloadTypes DEF RedisTypeOK, Delay
  <2>3. WorkerTypeOK /\ WorkersHold
    BY <2>1, IdleFacts DEF WorkerTypeOK, WorkersHold, WorkerState
  <2>4. AdminsHold /\ admin \in [Admins -> [op : AdminOps \cup {"none"},
                                            job : Jobs \cup {NoJob}, copy : Payload]]
    BY <2>1, PayloadTypes DEF AdminsHold, NoCall
  <2>5. \A q \in Queues : \A k : ~In(ready[q], k)
    BY <2>1 DEF In
  <2>6. \A j \in Jobs : Traced(j)
    <3> SUFFICES ASSUME NEW j \in Jobs PROVE Traced(j)
      OBVIOUS
    <3>1. QueueOf[j] \in Queues
      BY RedisQueueAssumption
    <3> QED
      BY <2>1, <2>5, <3>1
      DEF Traced, Present, InReady, In, OnceReady, AtMostOnce, NoPayload
  <2>7. faults \in 0..MaxFaults
    BY <2>1, RedisWorkersAssumption
  <2> QED  BY <2>1, <2>2, <2>3, <2>4, <2>5, <2>6, <2>7 DEF TypeOK, PathInv, OwnQueue
<1> QED  BY <1>1, PathStep, PTL DEF Spec

\* A pending job can be found by a worker or by the poller, whatever crashes,
\* recoveries, retries, deletes and late outcomes do, unless promote() was
\* called on it or its id was in the hands of a worker that died in pop.
THEOREM PendingIsFindable == Spec => []NotStranded
<1>1. TypeOK /\ PathInv => NotStranded
  BY DEF PathInv, Traced, Reach, NotStranded, Findable
<1> QED  BY <1>1, PathInvariant, PTL

\* No id is twice in a ready list, unless promote() was called on it.
THEOREM IdsAreListedOnce == Spec => []ReadyOnce
<1>1. ASSUME TypeOK, PathInv, NEW j \in Jobs \ lost
      PROVE  Cardinality({i \in DOMAIN ready[QueueOf[j]] : ready[QueueOf[j]][i] = j}) <= 1
  <2> DEFINE S == {i \in DOMAIN ready[QueueOf[j]] : ready[QueueOf[j]][i] = j}
  <2>1. \A i, k \in S : i = k
    BY <1>1 DEF PathInv, Traced, OnceReady, AtMostOnce
  <2> HIDE DEF S
  <2>2. S = {} \/ \E i : S = {i}
    BY <2>1
  <2>3. Cardinality(S) <= 1
    <3>1. CASE S = {}
      BY <3>1, FS_EmptySet
    <3>2. ASSUME NEW i, S = {i} PROVE Cardinality(S) <= 1
      <4>1. Cardinality(S) = 1
        BY <3>2, FS_Singleton
      <4> QED  BY <4>1
    <3> QED  BY <2>2, <3>1, <3>2
  <2> QED  BY <2>3 DEF S
<1>2. TypeOK /\ PathInv => ReadyOnce
  BY <1>1 DEF ReadyOnce
<1> QED  BY <1>2, PathInvariant, PTL


(***************************************************************************)
(* A delay is waited out.                                                  *)
(***************************************************************************)

Backoff ==
    \A j \in Jobs :
        hash[j].status = "pending" /\ hash[j].delay = "future"
           => hash'[j].status # "processing"

\* What the steps that are no claim write.
LEMMA OnlyClaimsStart ==
    ASSUME TypeOK, PathInv, Next
    PROVE  \/ \E w \in Workers : PopClaim(w)
           \/ \A j \in Jobs : hash'[j].status \in {hash[j].status, "pending", "completed",
                                                   "failed", "absent"}
<1> DEFINE Outcomes == {"pending", "completed", "failed", "absent"}
           Starts == \E w \in Workers : PopClaim(w)
           Kept == \A j \in Jobs : hash'[j].status \in {hash[j].status} \cup Outcomes
<1>a. /\ RedisTypeOK /\ OwnQueue
      /\ worker \in [Workers -> WorkerState]
      /\ admin \in [Admins -> [op : AdminOps \cup {"none"}, job : Jobs \cup {NoJob},
                               copy : Payload]]
  BY DEF TypeOK, PathInv, WorkerTypeOK, WorkerState
<1>b. ASSUME NEW j \in Jobs, Spared(j), hash'[j].status \in {hash[j].status} \cup Outcomes
      PROVE  Kept
  BY <1>b DEF Spared
<1>c. CASE hash' = hash
  BY <1>c
<1>1. CASE Dispatch
  <2>1. PICK j \in Jobs, d \in {"none", "future"} : Push(j, d)
    BY <1>1 DEF Dispatch
  <2> QED  BY <1>a, <1>b, <2>1, PushEffect
<1>2. ASSUME NEW w \in Workers, WorkerStep(w) \/ WorkerDies(w), ~PopClaim(w) PROVE Kept
  <2>1. CASE \/ \E q \in Queues : PopId(w, q)
             \/ PopStale(w) \/ Handle(w) \/ EndJob(w) \/ DriverError(w) \/ WorkerDies(w)
    BY <1>c, <2>1 DEF PopId, LPop, PopStale, Handle, EndJob, DriverError, WorkerDies, redisVars
  <2>2. CASE CompleteJob(w) \/ ReleaseJob(w) \/ FailJob(w)
    <3>1. /\ worker[w].job \in pushed /\ worker[w].job \in Jobs
          /\ worker[w].payload \in Payload
      BY <1>a, <2>2
      DEF CompleteJob, ReleaseJob, FailJob, RecordCompletion, RecordFailure, PathInv,
          WorkersHold, WorkerState, RedisTypeOK
    <3>2. CASE CompleteJob(w) \/ FailJob(w)
      <4>1. PICK new \in {"completed", "failed"} :
               Transition(worker[w].job, worker[w].payload, new) /\ new \in Status
        BY <3>2 DEF CompleteJob, Complete, FailJob, Fail, Status
      <4>2. Spared(worker[w].job) /\ hash'[worker[w].job].status = new
        BY <1>a, <3>1, <4>1, TransitionEffect
      <4> QED  BY <1>b, <3>1, <4>2
    <3>3. CASE ReleaseJob(w)
      <4>1. PICK d : Release(worker[w].job, worker[w].payload, d)
        BY <3>3 DEF ReleaseJob
      <4>2. Spared(worker[w].job) /\ hash'[worker[w].job].status = "pending"
        BY <1>a, <3>1, <4>1, ReleaseEffect
      <4> QED  BY <1>b, <3>1, <4>2
    <3> QED  BY <2>2, <3>2, <3>3
  <2> QED  BY <1>2, <2>1, <2>2 DEF WorkerStep
<1>3. CASE Poller \/ Recovery
  <2>1. CASE PollRead
    BY <1>c, <2>1 DEF PollRead, redisVars
  <2>2. ASSUME NEW j \in Jobs, PollPromote(j) \/ RecoverStuck(j) PROVE Kept
    BY <1>a, <1>b, <2>2, PollEffect, StuckEffect DEF PollPromote, RecoverStuck
  <2> QED  BY <1>3, <2>1, <2>2 DEF Poller, Recovery
<1>4. ASSUME NEW a \in Admins, AdminRead(a) \/ AdminWrite(a) PROVE Kept
  <2>1. CASE AdminRead(a)
    BY <1>c, <2>1 DEF AdminRead, redisVars
  <2>2. CASE AdminWrite(a)
    <3>1. PICK j, c : j = admin[a].job /\ c = admin[a].copy
      OBVIOUS
    <3>2. /\ \/ Release(j, c, "none") \/ Promote(j, c) \/ Delete(j, c) \/ Reap(j, c)
          /\ j \in Jobs /\ c \in Payload
      BY <1>a, <2>2, <3>1 DEF AdminWrite, PathInv, AdminsHold
    <3>3. CASE Release(j, c, "none")
      BY <1>a, <1>b, <3>2, <3>3, ReleaseEffect
    <3>4. CASE Promote(j, c)
      BY <1>a, <1>b, <3>2, <3>4, PromoteEffect
    <3>5. CASE Delete(j, c) \/ Reap(j, c)
      BY <1>a, <1>b, <3>2, <3>5, DeleteEffect DEF NoPayload
    <3> QED  BY <3>2, <3>3, <3>4, <3>5
  <2> QED  BY <1>4, <2>1, <2>2
<1>5. CASE TimePasses
  <2>1. PICK j \in Jobs : DelayElapses(j) \/ ClaimAges(j)
    BY <1>5 DEF TimePasses
  <2> QED  BY <1>a, <1>b, <2>1, ClockEffect
<1>6. Starts \/ Kept
  BY <1>1, <1>2, <1>3, <1>4, <1>5 DEF Next
<1> QED  BY <1>6

\* A job waiting out a delay is not claimed, whatever ids of it the ready
\* lists hold and whoever wrote its record last.
THEOREM DelaysAreWaitedOut == Spec => BackoffRespected
<1>1. TypeOK /\ PathInv /\ [Next]_vars => [Backoff]_vars
  <2> SUFFICES ASSUME TypeOK, PathInv, Next, NEW j \in Jobs,
                      hash[j].status = "pending", hash[j].delay = "future"
               PROVE  hash'[j].status # "processing"
    BY DEF Backoff
  <2>1. CASE \E w \in Workers : PopClaim(w)
    <3>1. PICK w \in Workers : ClaimPending(worker[w].job) /\ worker[w].pc = "popping"
      BY <2>1 DEF PopClaim
    <3>2. worker[w].job \in Jobs
      BY <3>1 DEF PathInv, WorkersHold, TypeOK, RedisTypeOK
    <3>3. Spared(worker[w].job) /\ Claimable(worker[w].job)
      BY <3>1, <3>2, ClaimEffect DEF TypeOK, PathInv
    <3> QED  BY <3>3 DEF Spared, Claimable
  <2>2. CASE \A k \in Jobs : hash'[k].status \in {hash[k].status, "pending", "completed",
                                                  "failed", "absent"}
    BY <2>2
  <2> QED  BY <2>1, <2>2, OnlyClaimsStart
<1>2. BackoffRespected <=> [][Backoff]_vars
  BY PTL DEF BackoffRespected, Backoff
<1> QED  BY <1>1, <1>2, PathInvariant, PTL DEF Spec


(***************************************************************************)
(* The lease: with timely recovery, no failing driver call after complete  *)
(* and one operator who only retries, a record says what its holder knows. *)
(***************************************************************************)

Benign ==
    /\ ~PrematureRecovery /\ ~DriverMayFail
    /\ AdminOps \subseteq {"retry"}
    /\ \A a, b \in Admins : a = b

Lease ==
    \A w \in Workers, j \in Jobs : Holds(w, j) =>
        /\ hash[j].status = worker[w].payload.status
        /\ hash[j].status = IF Executing(w) THEN "processing" ELSE "completed"
        /\ Executing(w) => hash[j].started = "fresh"
        /\ \A v \in Workers : Holds(v, j) => v = w

\* What an operator read still stands when the write comes.
Retrying ==
    \A a \in Admins : admin[a].op # "none" =>
        /\ admin[a].op = "retry"
        /\ admin[a].copy.status = "failed"
        /\ hash[admin[a].job].status = "failed"

LeaseInv == Lease /\ Retrying /\ IndexesMatch

\* A change of status that moves the index entry with it.
LEMMA IndexMoved ==
    ASSUME TypeOK, IndexesMatch, NEW j \in Jobs, NEW old \in Status, NEW new \in Status,
           Spared(j), hash[j].status = old, hash'[j].status = new, IndexChange(j, old, new)
    PROVE  IndexesMatch'
<1>1. idxAll' = idxAll /\ \A k \in Jobs : Present(k)' <=> Present(k)
  BY DEF IndexChange, Spared, Present, Status
<1>2. ASSUME NEW s \in Status
      PROVE  idxStatus'[s] = IF old = new THEN idxStatus[s]
                             ELSE IF s = new THEN idxStatus[s] \cup {j}
                             ELSE IF s = old THEN idxStatus[s] \ {j}
                             ELSE idxStatus[s]
  BY DEF IndexChange
<1>3. ASSUME NEW s \in Status PROVE idxStatus'[s] = {k \in Jobs : hash'[k].status = s}
  <2>1. idxStatus[s] = {k \in Jobs : hash[k].status = s}
    BY DEF IndexesMatch
  <2>2. \A k \in Jobs : k # j => hash'[k].status = hash[k].status
    BY DEF Spared
  <2>3. idxStatus'[s] \subseteq Jobs
    BY <1>2, <2>1
  <2>4. \A k \in Jobs : k \in idxStatus'[s] <=> hash'[k].status = s
    <3>1. \A k \in Jobs : k \in idxStatus[s] <=> hash[k].status = s
      BY <2>1
    <3>2. CASE old = new
      BY <1>2, <2>2, <3>1, <3>2
    <3>3. CASE old # new
      <4>1. CASE s = new
        <5>1. idxStatus'[s] = idxStatus[s] \cup {j}
          BY <1>2, <3>3, <4>1
        <5>2. hash'[j].status = s
          BY <4>1
        <5> QED  BY <2>2, <3>1, <5>1, <5>2
      <4>2. CASE s = old
        <5>1. idxStatus'[s] = idxStatus[s] \ {j}
          BY <1>2, <3>3, <4>2
        <5>2. hash'[j].status # s
          BY <3>3, <4>2
        <5> QED  BY <2>2, <3>1, <5>1, <5>2
      <4>3. CASE s \notin {old, new}
        BY <1>2, <2>2, <3>1, <3>3, <4>3
      <4> QED  BY <4>1, <4>2, <4>3
    <3> QED  BY <3>2, <3>3
  <2> QED  BY <2>3, <2>4
<1> QED  BY <1>1, <1>3 DEF IndexesMatch

\* Every step on a record that changes no status leaves the indexes alone.
LEMMA IndexKept ==
    ASSUME IndexesMatch, NEW j \in Jobs, Spared(j), hash'[j].status = hash[j].status,
           UNCHANGED <<idxAll, idxStatus>>
    PROVE  IndexesMatch'
<1>1. \A k \in Jobs : hash'[k].status = hash[k].status
  BY DEF Spared
<1> QED  BY <1>1 DEF IndexesMatch, Present

LEMMA RetryingKept ==
    ASSUME PathInv, Retrying, admin' = admin,
           \A k \in Jobs : hash[k].status = "failed" => hash'[k].status = "failed"
    PROVE  Retrying'
BY DEF PathInv, AdminsHold, Retrying

\* A step in which no worker moves and no held record changes.
LEMMA LeaseKept ==
    ASSUME Lease, worker' = worker,
           \A k \in Jobs, v \in Workers : Holds(v, k) =>
              hash'[k].status = hash[k].status /\ hash'[k].started = hash[k].started
    PROVE  Lease'
BY DEF Lease, Holds, Executing

\* A worker lets go, or takes an id it has not claimed.
LEMMA LeaseDropped ==
    ASSUME Lease, NEW w \in Workers, \A v \in Workers \ {w} : worker'[v] = worker[v],
           worker'[w].pc \in {"idle", "popping", "dead"},
           \A k \in Jobs, v \in Workers \ {w} : Holds(v, k) =>
              hash'[k].status = hash[k].status /\ hash'[k].started = hash[k].started
    PROVE  Lease'
BY DEF Lease, Holds, Executing

LEMMA LeaseStep ==
    ASSUME Benign, TypeOK, PathInv, LeaseInv, [Next]_vars
    PROVE  LeaseInv'
<1>a. /\ RedisTypeOK /\ OwnQueue /\ hash \in [Jobs -> Payload]
      /\ worker \in [Workers -> WorkerState]
      /\ admin \in [Admins -> [op : AdminOps \cup {"none"}, job : Jobs \cup {NoJob},
                               copy : Payload]]
      /\ Lease /\ Retrying /\ IndexesMatch
  BY DEF TypeOK, RedisTypeOK, PathInv, WorkerTypeOK, WorkerState, LeaseInv
<1>b. CASE UNCHANGED <<redisVars, worker, admin>>
  <2>1. Lease'
    BY <1>a, <1>b, LeaseKept DEF redisVars
  <2>2. Retrying'
    BY <1>a, <1>b, RetryingKept DEF redisVars
  <2> QED  BY <1>a, <1>b, <2>1, <2>2 DEF LeaseInv, IndexesMatch, Present, redisVars
<1>1. CASE Dispatch
  <2>1. PICK j \in Jobs, d \in {"none", "future"} : Push(j, d)
    BY <1>1 DEF Dispatch
  <2>2. UNCHANGED <<worker, admin>>
    BY <1>1 DEF Dispatch
  <2>3. Spared(j) /\ j \notin pushed /\ hash'[j].status = "pending"
    BY <1>a, <2>1, PushEffect
  <2>4. hash[j].status = "absent"
    BY <2>3 DEF PathInv, Traced, Present
  <2>5. Lease'
    BY <1>a, <2>2, <2>3, <2>4, LeaseKept DEF Spared, Lease
  <2>6. Retrying'
    BY <1>a, <2>2, <2>3, <2>4, RetryingKept DEF Spared
  <2>7. IndexesMatch'
    <3>1. /\ idxAll' = idxAll \cup {j}
          /\ \A s \in Status : idxStatus'[s] = IF s = "pending" THEN idxStatus[s] \cup {j}
                                               ELSE idxStatus[s]
      BY <1>a, <2>1 DEF Push, RedisTypeOK
    <3>2. \A k \in Jobs : k # j => hash'[k] = hash[k]
      BY <2>3 DEF Spared
    <3>3. \A s \in Status : s # "absent"
      BY DEF Status
    <3>4. idxAll' = {k \in Jobs : hash'[k].status # "absent"}
      <4>1. idxAll = {k \in Jobs : hash[k].status # "absent"}
        BY <1>a DEF IndexesMatch, Present
      <4> QED  BY <2>3, <3>1, <3>2, <4>1
    <3>5. ASSUME NEW s \in Status PROVE idxStatus'[s] = {k \in Jobs : hash'[k].status = s}
      <4>1. idxStatus[s] = {k \in Jobs : hash[k].status = s}
        BY <1>a DEF IndexesMatch
      <4> QED  BY <2>3, <2>4, <3>1, <3>2, <3>3, <4>1
    <3> QED  BY <3>4, <3>5 DEF IndexesMatch, Present
  <2> QED  BY <2>5, <2>6, <2>7 DEF LeaseInv
<1>2. ASSUME NEW w \in Workers,
             \/ \E q \in Queues : PopId(w, q)
             \/ PopStale(w) \/ WorkerDies(w) \/ EndJob(w)
      PROVE  LeaseInv'
  <2>1. UNCHANGED <<hash, idxAll, idxStatus, pushed, admin>>
    BY <1>2 DEF PopId, LPop, PopStale, WorkerDies, EndJob, Aside, redisVars
  <2>2. worker'[w].pc \in {"idle", "popping", "dead"} /\ \A v \in Workers \ {w} : worker'[v] = worker[v]
    BY <1>a, <1>2
    DEF PopId, BeginPop, PopStale, EmptyPop, WorkerDies, Crash, EndJob, FinishJob, Idle, Dead
  <2>3. Lease'
    BY <1>a, <2>1, <2>2, LeaseDropped
  <2>4. Retrying'
    BY <1>a, <2>1, RetryingKept
  <2> QED  BY <1>a, <2>1, <2>3, <2>4 DEF LeaseInv, IndexesMatch, Present
<1>3. ASSUME NEW w \in Workers, PopClaim(w) PROVE LeaseInv'
  <2>1. PICK j : j = worker[w].job
    OBVIOUS
  <2>2. /\ worker[w].pc = "popping" /\ ClaimPending(j) /\ admin' = admin
        /\ worker' = [worker EXCEPT ![w] = [pc |-> "running", job |-> j,
                                            payload |-> Claimed(hash[j])]]
    BY <1>3, <2>1 DEF PopClaim, StartJob, Aside
  <2>3. j \in Jobs
    BY <1>a, <2>1, <2>2 DEF PathInv, WorkersHold, RedisTypeOK
  <2>4. /\ Spared(j) /\ hash[j].status = "pending" /\ hash'[j] = Claimed(hash[j])
        /\ Claimed(hash[j]).status = "processing" /\ Claimed(hash[j]).started = "fresh"
    BY <1>a, <2>2, <2>3, ClaimEffect DEF Claimable
  <2>5. /\ worker'[w].pc = "running" /\ worker'[w].job = j
        /\ worker'[w].payload = Claimed(hash[j])
        /\ \A v \in Workers \ {w} : worker'[v] = worker[v]
    BY <1>a, <2>2
  <2>6. \A v \in Workers : ~Holds(v, j)
    BY <1>a, <2>3, <2>4 DEF Lease
  <2>7. Lease'
    <3> SUFFICES ASSUME NEW v \in Workers, NEW k \in Jobs, Holds(v, k)'
                 PROVE  /\ hash'[k].status = worker'[v].payload.status
                        /\ hash'[k].status = IF Executing(v)' THEN "processing" ELSE "completed"
                        /\ Executing(v)' => hash'[k].started = "fresh"
                        /\ \A u \in Workers : Holds(u, k)' => u = v
      BY DEF Lease
    <3>1. CASE v = w
      BY <2>4, <2>5, <2>6, <3>1 DEF Holds, Executing
    <3>2. CASE v # w
      <4>1. k # j /\ Holds(v, k)
        BY <2>5, <2>6, <3>2 DEF Holds
      <4> QED  BY <1>a, <2>4, <2>5, <3>2, <4>1 DEF Lease, Holds, Executing, Spared
    <3> QED  BY <3>1, <3>2
  <2>8. Retrying'
    BY <1>a, <2>2, <2>3, <2>4, RetryingKept DEF Spared
  <2>9. IndexesMatch'
    BY <1>a, <2>2, <2>3, <2>4, IndexMoved DEF ClaimPending, Status
  <2> QED  BY <2>7, <2>8, <2>9 DEF LeaseInv
<1>4. ASSUME NEW w \in Workers, Handle(w) PROVE LeaseInv'
  <2>1. UNCHANGED redisVars /\ admin' = admin
    BY <1>4 DEF Handle, Aside
  <2>2. /\ worker[w].pc = "running" /\ worker'[w].pc \in {"succeeded", "raised"}
        /\ worker'[w].job = worker[w].job /\ worker'[w].payload = worker[w].payload
        /\ \A v \in Workers \ {w} : worker'[v] = worker[v]
    BY <1>a, <1>4 DEF Handle, HandleReturns, HandleRaises, WorkerState
  <2>3. Lease'
    BY <1>a, <2>1, <2>2 DEF Lease, Holds, Executing, redisVars
  <2>4. Retrying'
    BY <1>a, <2>1, RetryingKept DEF redisVars
  <2> QED  BY <1>a, <2>1, <2>3, <2>4 DEF LeaseInv, IndexesMatch, Present, redisVars
<1>5. ASSUME NEW w \in Workers, CompleteJob(w) \/ ReleaseJob(w) \/ FailJob(w)
      PROVE  LeaseInv'
  <2>1. PICK j, p : j = worker[w].job /\ p = worker[w].payload
    OBVIOUS
  <2>2. worker[w].pc \in {"succeeded", "raised"} /\ j \in Jobs /\ p \in Payload /\ admin' = admin
    BY <1>a, <1>5, <2>1
    DEF CompleteJob, ReleaseJob, FailJob, RecordCompletion, RecordFailure, PathInv, WorkersHold,
        WorkerState, RedisTypeOK, Aside
  <2>3. /\ hash[j].status = "processing" /\ p.status = "processing"
        /\ \A v \in Workers : Holds(v, j) => v = w
    BY <1>a, <2>1, <2>2 DEF Lease, Holds, Executing
  <2>4. PICK new \in {"completed", "failed", "pending"} :
           /\ Spared(j) /\ hash'[j].status = new
           /\ IndexChange(j, p.status, new)
           /\ CompleteJob(w) => new = "completed"
    <3>1. CASE CompleteJob(w) \/ FailJob(w)
      <4>1. PICK new \in {"completed", "failed"} :
               Transition(j, p, new) /\ new \in Status /\ (CompleteJob(w) => new = "completed")
        BY <2>1, <3>1
        DEF CompleteJob, Complete, FailJob, Fail, Status, RecordCompletion, RecordFailure
      <4> QED  BY <1>a, <2>2, <4>1, TransitionEffect DEF Transition
    <3>2. CASE ReleaseJob(w)
      <4>1. (\E d : Release(j, p, d)) /\ ~CompleteJob(w)
        BY <2>1, <3>2 DEF ReleaseJob, CompleteJob, RecordCompletion, RecordFailure
      <4> QED  BY <1>a, <2>2, <4>1, ReleaseEffect DEF Release
    <3> QED  BY <1>5, <3>1, <3>2
  <2>5. IndexesMatch'
    BY <1>a, <2>2, <2>3, <2>4, IndexMoved DEF Status
  <2>6. Retrying'
    BY <1>a, <2>2, <2>3, <2>4, RetryingKept DEF Spared
  <2>7. \A k \in Jobs, v \in Workers \ {w} : Holds(v, k) => hash'[k] = hash[k]
    BY <2>3, <2>4 DEF Spared
  <2>8. Lease'
    <3>1. CASE ReleaseJob(w) \/ FailJob(w)
      <4>1. worker'[w].pc = "idle" /\ \A v \in Workers \ {w} : worker'[v] = worker[v]
        BY <1>a, <3>1 DEF ReleaseJob, FailJob, RecordFailure, Idle
      <4> QED  BY <1>a, <2>7, <4>1, LeaseDropped
    <3>2. CASE CompleteJob(w)
      <4>1. /\ worker'[w].pc = "completed" /\ worker'[w].job = j
            /\ worker'[w].payload = [p EXCEPT !.status = "completed"]
            /\ \A v \in Workers \ {w} : worker'[v] = worker[v]
        BY <1>a, <2>1, <3>2 DEF CompleteJob, RecordCompletion, WorkerState
      <4>2. worker'[w].payload.status = "completed"
        BY <2>2, <4>1 DEF Payload
      <4> SUFFICES ASSUME NEW v \in Workers, NEW k \in Jobs, Holds(v, k)'
                   PROVE  /\ hash'[k].status = worker'[v].payload.status
                          /\ hash'[k].status = IF Executing(v)' THEN "processing" ELSE "completed"
                          /\ Executing(v)' => hash'[k].started = "fresh"
                          /\ \A u \in Workers : Holds(u, k)' => u = v
        BY DEF Lease
      <4>3. \A u \in Workers : Holds(u, j)' => u = w
        BY <2>3, <4>1 DEF Holds
      <4>4. CASE v = w
        BY <2>4, <3>2, <4>1, <4>2, <4>3, <4>4 DEF Holds, Executing
      <4>5. CASE v # w
        <5>1. k # j /\ Holds(v, k) /\ hash'[k] = hash[k]
          BY <2>7, <4>1, <4>3, <4>5 DEF Holds
        <5> QED  BY <1>a, <4>1, <4>5, <5>1 DEF Lease, Holds, Executing
      <4> QED  BY <4>4, <4>5
    <3> QED  BY <1>5, <3>1, <3>2
  <2> QED  BY <2>5, <2>6, <2>8 DEF LeaseInv
<1>6. ASSUME NEW j \in Jobs, PollPromote(j) \/ RecoverStuck(j) PROVE LeaseInv'
  <2>1. UNCHANGED <<worker, admin>>
    BY <1>6 DEF PollPromote, RecoverStuck
  <2>2. CASE PollPromote(j)
    <3>1. Spared(j) /\ hash'[j].status = hash[j].status /\ UNCHANGED <<idxAll, idxStatus>>
      BY <1>a, <2>2, PollEffect DEF PollPromote, PromoteDelayed
    <3>2. hash[j].status = "processing" => hash' = hash
      BY <1>a, <2>2, PollEffect DEF PollPromote
    <3>3. Lease'
      <4>1. ASSUME NEW k \in Jobs, NEW v \in Workers, Holds(v, k)
            PROVE  hash'[k].status = hash[k].status /\ hash'[k].started = hash[k].started
        <5>1. hash[k].status # "pending"
          BY <1>a, <4>1 DEF Lease
        <5>2. k = j => hash' = hash
          BY <1>a, <2>2, <5>1, PollEffect DEF PollPromote
        <5> QED  BY <3>1, <5>2 DEF Spared
      <4> QED  BY <1>a, <2>1, <4>1, LeaseKept
    <3>4. Retrying'
      BY <1>a, <2>1, <3>1, RetryingKept DEF Spared
    <3> QED  BY <1>a, <3>1, <3>3, <3>4, IndexKept DEF LeaseInv
  <2>3. CASE RecoverStuck(j)
    <3>1. /\ Spared(j) /\ hash[j].status = "processing" /\ hash[j].started = "stale"
          /\ hash'[j].status = "pending" /\ IndexChange(j, "processing", "pending")
      BY <1>a, <2>3, StuckEffect DEF RecoverStuck, RequeueStuck
    <3>2. \A v \in Workers : ~Holds(v, j)
      BY <1>a, <3>1 DEF Lease
    <3>3. Lease'
      BY <1>a, <2>1, <3>1, <3>2, LeaseKept DEF Spared
    <3>4. Retrying'
      BY <1>a, <2>1, <3>1, RetryingKept DEF Spared
    <3>5. IndexesMatch'
      BY <1>a, <3>1, IndexMoved DEF Status
    <3> QED  BY <3>3, <3>4, <3>5 DEF LeaseInv
  <2> QED  BY <1>6, <2>2, <2>3
<1>7. ASSUME NEW a \in Admins, AdminRead(a) PROVE LeaseInv'
  <2>1. PICK op \in AdminOps, j \in Jobs :
           /\ Applies(op, j)
           /\ admin' = [admin EXCEPT ![a] = [op |-> op, job |-> j, copy |-> hash[j]]]
    BY <1>7 DEF AdminRead
  <2>2. UNCHANGED <<redisVars, worker>>
    BY <1>7 DEF AdminRead
  <2>3. op = "retry" /\ hash[j].status = "failed"
    BY <2>1 DEF Benign, Applies
  <2>4. Retrying'
    BY <1>a, <2>1, <2>2, <2>3 DEF Retrying, redisVars
  <2>5. Lease'
    BY <1>a, <2>2, LeaseKept DEF redisVars
  <2> QED  BY <1>a, <2>2, <2>4, <2>5 DEF LeaseInv, IndexesMatch, Present, redisVars
<1>8. ASSUME NEW a \in Admins, AdminWrite(a) PROVE LeaseInv'
  <2>1. PICK j, c : j = admin[a].job /\ c = admin[a].copy
    OBVIOUS
  <2>2. /\ admin[a].op = "retry" /\ c.status = "failed" /\ hash[j].status = "failed"
        /\ j \in Jobs /\ c \in Payload
    BY <1>a, <1>8, <2>1 DEF AdminWrite, Retrying, PathInv, AdminsHold
  <2>3. Release(j, c, "none") /\ worker' = worker /\ admin' = [admin EXCEPT ![a] = NoCall]
    BY <1>8, <2>1, <2>2 DEF AdminWrite
  <2>4. Spared(j) /\ hash'[j].status = "pending" /\ IndexChange(j, "failed", "pending")
    BY <1>a, <2>2, <2>3, ReleaseEffect DEF Release
  <2>5. \A v \in Workers : ~Holds(v, j)
    BY <1>a, <2>2 DEF Lease
  <2>6. Lease'
    BY <1>a, <2>3, <2>4, <2>5, LeaseKept DEF Spared
  <2>7. Retrying'
    BY <1>a, <2>3 DEF Benign, Retrying, NoCall
  <2>8. IndexesMatch'
    BY <1>a, <2>2, <2>4, IndexMoved DEF Status
  <2> QED  BY <2>6, <2>7, <2>8 DEF LeaseInv
<1>9. CASE TimePasses
  <2>1. PICK j \in Jobs :
           \/ DelayElapses(j)
           \/ ClaimAges(j) /\ \A w \in Workers : ~Holds(w, j)
    BY <1>9 DEF TimePasses, Benign
  <2>2. UNCHANGED <<worker, admin>>
    BY <1>9 DEF TimePasses
  <2>3. /\ Spared(j) /\ hash'[j].status = hash[j].status
        /\ hash'[j].started = hash[j].started \/ \A w \in Workers : ~Holds(w, j)
    <3>1. Spared(j) /\ hash'[j].status = hash[j].status
      BY <1>a, <2>1, ClockEffect
    <3>2. DelayElapses(j) => hash'[j].started = hash[j].started
      BY <1>a DEF DelayElapses, HSet, Payload
    <3> QED  BY <2>1, <3>1, <3>2
  <2>4. UNCHANGED <<idxAll, idxStatus>>
    BY <2>1 DEF DelayElapses, ClaimAges
  <2>5. Lease'
    BY <1>a, <2>2, <2>3, LeaseKept DEF Spared
  <2>6. Retrying'
    BY <1>a, <2>2, <2>3, RetryingKept DEF Spared
  <2> QED  BY <1>a, <2>3, <2>4, <2>5, <2>6, IndexKept DEF LeaseInv
<1>10. CASE PollRead
  BY <1>b, <1>10 DEF PollRead
<1>11. CASE UNCHANGED vars
  BY <1>b, <1>11 DEF vars
<1>12. ASSUME NEW w \in Workers, WorkerStep(w) PROVE LeaseInv'
  <2>1. ~DriverError(w)
    BY DEF DriverError, Benign
  <2> QED  BY <1>2, <1>3, <1>4, <1>5, <1>12, <2>1 DEF WorkerStep
<1> QED
  BY <1>1, <1>2, <1>6, <1>7, <1>8, <1>9, <1>10, <1>11, <1>12 DEF Next, Poller, Recovery

THEOREM LeaseInvariant ==
    ASSUME Benign
    PROVE  Spec => []LeaseInv
<1>1. Init => LeaseInv
  <2> SUFFICES ASSUME Init PROVE LeaseInv
    OBVIOUS
  <2>1. /\ hash = [j \in Jobs |-> NoPayload] /\ idxAll = {}
        /\ idxStatus = [s \in Status |-> {}]
        /\ worker = [w \in Workers |-> Idle] /\ admin = [a \in Admins |-> NoCall]
    BY DEF Init, RedisInit, WorkerInit
  <2>2. Lease /\ Retrying
    BY <2>1 DEF Lease, Retrying, Holds, Idle, NoCall
  <2>3. IndexesMatch
    BY <2>1 DEF IndexesMatch, Present, NoPayload, Status
  <2> QED  BY <2>2, <2>3 DEF LeaseInv
<1>2. TypeOK /\ PathInv /\ LeaseInv /\ [Next]_vars => LeaseInv'
  BY LeaseStep
<1> QED  BY <1>1, <1>2, PathInvariant, PTL DEF Spec

\* The indexes list exactly the jobs there are, each under its status.
THEOREM IndexesFollow ==
    ASSUME Benign
    PROVE  Spec => []IndexesMatch
<1>1. LeaseInv => IndexesMatch
  BY DEF LeaseInv
<1> QED  BY <1>1, LeaseInvariant, PTL

\* No two workers run the same job.
THEOREM RunsAreExclusive ==
    ASSUME Benign
    PROVE  Spec => []OneRunner
<1>1. TypeOK /\ PathInv /\ LeaseInv => OneRunner
  <2> SUFFICES ASSUME TypeOK, PathInv, LeaseInv, NEW v \in Workers, NEW w \in Workers,
                      Executing(v), Executing(w), worker[v].job = worker[w].job
               PROVE  v = w
    BY DEF OneRunner
  <2>1. worker[w].job \in Jobs
    BY DEF PathInv, WorkersHold, Executing, TypeOK, RedisTypeOK
  <2> QED  BY <2>1 DEF LeaseInv, Lease, Holds, Executing
<1> QED  BY <1>1, PathInvariant, LeaseInvariant, PTL


(***************************************************************************)
(* The life cycle: records, lists and workers together do to a job only    *)
(* what JobLifecycle allows.                                               *)
(***************************************************************************)

\* The job a worker runs, once the lease makes that worker the only one.
HolderMatches ==
    \A j \in Jobs :
        /\ Holder(j) \in Workers \cup {NoJob}
        /\ \A w \in Workers : Holder(j) = w <=> Executing(w) /\ worker[w].job = j

LEMMA HolderIs == Lease => HolderMatches
<1> SUFFICES ASSUME Lease, NEW j \in Jobs
             PROVE  /\ Holder(j) \in Workers \cup {NoJob}
                    /\ \A w \in Workers :
                          Holder(j) = w <=> Executing(w) /\ worker[w].job = j
  BY DEF HolderMatches
<1> DEFINE H(w) == Executing(w) /\ worker[w].job = j
<1>1. \A v, w \in Workers : H(v) /\ H(w) => v = w
  BY DEF Lease, Holds, Executing
<1>2. CASE \E w \in Workers : H(w)
  <2>1. Holder(j) = CHOOSE w \in Workers : H(w)
    BY <1>2 DEF Holder
  <2>2. Holder(j) \in Workers /\ H(Holder(j))
    BY <1>2, <2>1
  <2> QED  BY <1>1, <2>2
<1>3. CASE ~\E w \in Workers : H(w)
  <2>1. Holder(j) = NoJob
    BY <1>3 DEF Holder
  <2> QED  BY <1>3, <2>1, RedisWorkersAssumption
<1> QED  BY <1>2, <1>3

LEMMA HolderIsNext == Lease' => HolderMatches'
BY HolderIs, PTL

\* A step in which no worker takes or drops a job leaves the holders alone.
LEMMA HoldersKept ==
    ASSUME HolderMatches, HolderMatches', NEW j \in Jobs,
           \A w \in Workers : (Executing(w) /\ worker[w].job = j)'
                                 <=> Executing(w) /\ worker[w].job = j
    PROVE  Holder(j)' = Holder(j)
<1>1. /\ Holder(j) \in Workers \cup {NoJob} /\ Holder(j)' \in Workers \cup {NoJob}
      /\ \A w \in Workers : Holder(j) = w <=> Holder(j)' = w
  BY DEF HolderMatches
<1> QED  BY <1>1, RedisWorkersAssumption

\* Calls that change no status, and nobody's hands, map to stutters.
LEMMA SameLife ==
    ASSUME HolderMatches, HolderMatches', pushed' = pushed,
           \A k \in Jobs : hash'[k].status = hash[k].status,
           \A v \in Workers : /\ Executing(v)' <=> Executing(v)
                              /\ Executing(v) => worker'[v].job = worker[v].job
    PROVE  UNCHANGED Life!lifeVars
<1>1. \A k \in Jobs : Holder(k)' = Holder(k)
  BY HoldersKept
<1>2. \A k \in Jobs : LifeState(k)' = LifeState(k)
  BY DEF LifeState, Present
<1> QED  BY <1>1, <1>2 DEF Life!lifeVars

\* A claim is the start of a run nobody else has going.
LEMMA ClaimTakes ==
    ASSUME TypeOK, PathInv, Lease, HolderMatches, HolderMatches', NEW w \in Workers, PopClaim(w)
    PROVE  \E j \in Jobs : Life!Take(w, j)
<1>1. PICK j : j = worker[w].job
  OBVIOUS
<1>2. /\ worker[w].pc = "popping" /\ ClaimPending(j)
      /\ worker' = [worker EXCEPT ![w] = [pc |-> "running", job |-> j,
                                          payload |-> Claimed(hash[j])]]
  BY <1>1 DEF PopClaim, StartJob
<1>3. /\ j \in Jobs /\ RedisTypeOK /\ OwnQueue
      /\ worker \in [Workers -> WorkerState]
  BY <1>1, <1>2 DEF PathInv, WorkersHold, TypeOK, RedisTypeOK, WorkerTypeOK, WorkerState
<1>4. /\ Spared(j) /\ pushed' = pushed
      /\ hash[j].status = "pending" /\ hash'[j].status = "processing"
  BY <1>2, <1>3, ClaimEffect DEF Claimable
<1>5. /\ ~Executing(w) /\ worker'[w].pc = "running" /\ worker'[w].job = j
      /\ \A v \in Workers \ {w} : worker'[v] = worker[v]
  BY <1>2, <1>3 DEF Executing
<1>6. \A k \in Jobs : Holder(k) # w
  BY <1>5 DEF HolderMatches
<1>7. Holder(j) = NoJob
  <2>1. \A v \in Workers : ~(Executing(v) /\ worker[v].job = j)
    BY <1>3, <1>4 DEF Lease, Holds, Executing
  <2> QED  BY <1>3, <2>1 DEF HolderMatches
<1>8. Holder(j)' = w
  BY <1>3, <1>5 DEF HolderMatches, Executing
<1>9. \A k \in Jobs \ {j} : Holder(k)' = Holder(k)
  BY <1>5, HoldersKept DEF Executing
<1>10. /\ LifeState(j) = "pending" /\ LifeState(j)' = "processing"
       /\ \A k \in Jobs \ {j} : LifeState(k)' = LifeState(k)
  BY <1>4 DEF LifeState, Present, Spared
<1>11. Life!Take(w, j)
  BY <1>3, <1>6, <1>7, <1>8, <1>9, <1>10 DEF Life!Take
<1> QED  BY <1>3, <1>11

\* The call that records an outcome ends the run and settles the job.
LEMMA OutcomeSettles ==
    ASSUME Lease, HolderMatches, HolderMatches',
           NEW w \in Workers, NEW j \in Jobs, NEW s \in Status,
           Executing(w), worker[w].job = j, ~Executing(w)',
           \A v \in Workers \ {w} : worker'[v] = worker[v],
           pushed' = pushed, Spared(j), hash'[j].status = s
    PROVE  Life!Settle(w, j, s)
<1>1. Holder(j) = w
  BY DEF HolderMatches
<1>2. Holder(j)' = NoJob
  <2>1. \A v \in Workers : ~(Executing(v) /\ worker[v].job = j)'
    BY DEF Lease, Holds, Executing
  <2>2. Holder(j)' \in Workers \cup {NoJob}
    BY DEF HolderMatches
  <2>3. \A v \in Workers : Holder(j)' # v
    BY <2>1 DEF HolderMatches
  <2> QED  BY <2>2, <2>3
<1>3. \A k \in Jobs \ {j} : Holder(k)' = Holder(k)
  BY HoldersKept DEF Executing
<1>4. \A k \in Jobs \ {j} : LifeState(k)' = LifeState(k)
  BY DEF LifeState, Present, Spared
<1>5. LifeState(j) = "processing" /\ LifeState(j)' = s
  BY DEF LifeState, Present, Lease, Holds, Executing, Status
<1> QED  BY <1>1, <1>2, <1>3, <1>4, <1>5 DEF Life!Settle

LEMMA LifeStep ==
    ASSUME Benign, TypeOK, PathInv, LeaseInv, LeaseInv', [Next]_vars
    PROVE  [Life!LifeNext]_(Life!lifeVars)
<1>a. /\ RedisTypeOK /\ OwnQueue /\ Lease /\ Lease' /\ Retrying
      /\ worker \in [Workers -> WorkerState]
  BY DEF TypeOK, PathInv, LeaseInv, WorkerTypeOK, WorkerState
<1>b. HolderMatches /\ HolderMatches'
  BY <1>a, HolderIs, HolderIsNext
\* One record goes from one status to another while nobody's hands move.
<1>c. ASSUME worker' = worker PROVE \A k \in Jobs : Holder(k)' = Holder(k)
  BY <1>b, <1>c, HoldersKept DEF Executing
<1>1. CASE Dispatch
  <2>1. PICK j \in Jobs, d \in {"none", "future"} : Push(j, d)
    BY <1>1 DEF Dispatch
  <2>2. Spared(j) /\ j \notin pushed /\ pushed' = pushed \cup {j} /\ hash'[j].status = "pending"
    BY <1>a, <2>1, PushEffect
  <2>3. LifeState(j) = "new"
    BY <2>2 DEF LifeState, PathInv, Traced
  <2>4. \A k \in Jobs : LifeState(k)' = IF k \in {j} THEN "pending" ELSE LifeState(k)
    BY <2>2 DEF LifeState, Present, Spared
  <2>5. \A k \in Jobs : Holder(k)' = Holder(k)
    BY <1>1, <1>c DEF Dispatch
  <2>6. {j} \in SUBSET {k \in Jobs : LifeState(k) = "new"}
    BY <2>3
  <2>7. Life!Dispatch
    BY <2>4, <2>5, <2>6 DEF Life!Dispatch
  <2> QED  BY <2>7 DEF Life!LifeNext
<1>2. ASSUME NEW w \in Workers,
             \/ \E q \in Queues : PopId(w, q)
             \/ PopStale(w) \/ Handle(w) \/ EndJob(w)
      PROVE  UNCHANGED Life!lifeVars
  <2>1. /\ hash' = hash /\ pushed' = pushed
        /\ \A v \in Workers \ {w} : worker'[v] = worker[v]
        /\ Executing(w)' <=> Executing(w)
        /\ Executing(w) => worker'[w].job = worker[w].job
    BY <1>a, <1>2
    DEF PopId, LPop, PopStale, Handle, EndJob, BeginPop, EmptyPop, HandleReturns, HandleRaises,
        FinishJob, Executing, Idle, redisVars, WorkerState
  <2>2. \A v \in Workers : /\ Executing(v)' <=> Executing(v)
                           /\ Executing(v) => worker'[v].job = worker[v].job
    BY <2>1 DEF Executing
  <2> QED  BY <1>b, <2>1, <2>2, SameLife
<1>3. ASSUME NEW w \in Workers, PopClaim(w) PROVE \E j \in Jobs : Life!Take(w, j)
  BY <1>a, <1>b, <1>3, ClaimTakes
<1>4. ASSUME NEW w \in Workers, CompleteJob(w) \/ ReleaseJob(w) \/ FailJob(w)
      PROVE  \E j \in Jobs, s \in {"completed", "pending", "failed"} : Life!Settle(w, j, s)
  <2>1. PICK j, p : j = worker[w].job /\ p = worker[w].payload
    OBVIOUS
  <2>2. Executing(w) /\ ~Executing(w)' /\ \A v \in Workers \ {w} : worker'[v] = worker[v]
    BY <1>a, <1>4
    DEF CompleteJob, ReleaseJob, FailJob, RecordCompletion, RecordFailure, Executing, Idle,
        WorkerState
  <2>3. j \in Jobs /\ p \in Payload
    BY <1>a, <2>1, <2>2 DEF PathInv, WorkersHold, Executing, WorkerState, RedisTypeOK
  <2>4. PICK s \in {"completed", "pending", "failed"} :
           s \in Status /\ Spared(j) /\ pushed' = pushed /\ hash'[j].status = s
    <3>1. CASE CompleteJob(w) \/ FailJob(w)
      <4>1. PICK s \in {"completed", "failed"} : Transition(j, p, s) /\ s \in Status
        BY <2>1, <3>1 DEF CompleteJob, Complete, FailJob, Fail, Status
      <4> QED  BY <1>a, <2>3, <4>1, TransitionEffect
    <3>2. CASE ReleaseJob(w)
      <4>1. PICK d : Release(j, p, d)
        BY <2>1, <3>2 DEF ReleaseJob
      <4> QED  BY <1>a, <2>3, <4>1, ReleaseEffect DEF Status
    <3> QED  BY <1>4, <3>1, <3>2
  <2> QED  BY <1>a, <1>b, <2>1, <2>2, <2>3, <2>4, OutcomeSettles
<1>5. ASSUME NEW w \in Workers, WorkerDies(w)
      PROVE  UNCHANGED Life!lifeVars \/ \E j \in Jobs : Life!Lose(j)
  <2>1. /\ hash' = hash /\ pushed' = pushed /\ ~Executing(w)'
        /\ \A v \in Workers \ {w} : worker'[v] = worker[v]
    BY <1>a, <1>5 DEF WorkerDies, Crash, Executing, Idle, Dead, redisVars
  <2>2. CASE ~Executing(w)
    BY <1>b, <2>1, <2>2, SameLife DEF Executing
  <2>3. CASE Executing(w)
    <3>1. PICK j \in Jobs : worker[w].job = j
      BY <2>3 DEF PathInv, WorkersHold, Executing, TypeOK, RedisTypeOK
    <3>2. Holder(j) = w /\ Holder(j) # NoJob
      BY <1>b, <2>3, <3>1, RedisWorkersAssumption DEF HolderMatches
    <3>3. Holder(j)' = NoJob
      <4>1. \A v \in Workers : ~(Executing(v) /\ worker[v].job = j)'
        BY <1>a, <2>1, <2>3, <3>1 DEF Lease, Holds, Executing
      <4> QED  BY <1>b, <4>1 DEF HolderMatches
    <3>4. \A k \in Jobs \ {j} : Holder(k)' = Holder(k)
      BY <1>b, <2>1, <2>3, <3>1, HoldersKept DEF Executing
    <3>5. \A k \in Jobs : LifeState(k)' = LifeState(k)
      BY <2>1 DEF LifeState, Present
    <3> QED  BY <3>2, <3>3, <3>4, <3>5 DEF Life!Lose
  <2> QED  BY <2>2, <2>3
<1>6. ASSUME NEW j \in Jobs, PollPromote(j) PROVE UNCHANGED Life!lifeVars
  <2>1. pushed' = pushed /\ Spared(j) /\ hash'[j].status = hash[j].status /\ worker' = worker
    BY <1>a, <1>6, PollEffect DEF PollPromote
  <2>2. \A k \in Jobs : hash'[k].status = hash[k].status
    BY <2>1 DEF Spared
  <2> QED  BY <1>b, <2>1, <2>2, SameLife DEF Executing
<1>7. ASSUME NEW j \in Jobs, RecoverStuck(j) PROVE Life!Recover
  <2>1. /\ Spared(j) /\ pushed' = pushed /\ worker' = worker
        /\ hash[j].status = "processing" /\ hash[j].started = "stale"
        /\ hash'[j].status = "pending"
    BY <1>a, <1>7, StuckEffect DEF RecoverStuck
  <2>2. \A k \in Jobs : LifeState(k)' = IF k \in {j} THEN "pending" ELSE LifeState(k)
    BY <2>1 DEF LifeState, Present, Spared
  <2>3. LifeState(j) = "processing" /\ Holder(j) = NoJob
    <3>1. \A v \in Workers : ~(Executing(v) /\ worker[v].job = j)
      BY <1>a, <2>1 DEF Lease, Holds, Executing
    <3> QED  BY <1>b, <2>1, <3>1 DEF HolderMatches, LifeState, Present
  <2>4. {j} \in SUBSET {k \in Jobs : LifeState(k) = "processing" /\ Holder(k) = NoJob}
    BY <2>3
  <2> QED  BY <1>c, <2>1, <2>2, <2>4 DEF Life!Recover
<1>8. ASSUME NEW a \in Admins, AdminWrite(a) PROVE \E j \in Jobs : Life!Retry(j)
  <2>1. PICK j, c : j = admin[a].job /\ c = admin[a].copy
    OBVIOUS
  <2>2. /\ admin[a].op = "retry" /\ hash[j].status = "failed"
        /\ j \in Jobs /\ c \in Payload
    BY <1>a, <1>8, <2>1 DEF AdminWrite, Retrying, PathInv, AdminsHold, TypeOK
  <2>3. Release(j, c, "none") /\ worker' = worker
    BY <1>8, <2>1, <2>2 DEF AdminWrite
  <2>4. Spared(j) /\ pushed' = pushed /\ hash'[j].status = "pending"
    BY <1>a, <2>2, <2>3, ReleaseEffect
  <2>5. /\ LifeState(j) = "failed" /\ LifeState(j)' = "pending"
        /\ \A k \in Jobs \ {j} : LifeState(k)' = LifeState(k)
    BY <2>2, <2>4 DEF LifeState, Present, Spared
  <2>6. Life!Retry(j)
    BY <1>c, <2>2, <2>3, <2>5 DEF Life!Retry
  <2> QED  BY <2>2, <2>6
<1>9. CASE TimePasses
  <2>1. PICK j \in Jobs : DelayElapses(j) \/ ClaimAges(j)
    BY <1>9 DEF TimePasses
  <2>2. pushed' = pushed /\ Spared(j) /\ hash'[j].status = hash[j].status /\ worker' = worker
    BY <1>a, <1>9, <2>1, ClockEffect DEF TimePasses
  <2>3. \A k \in Jobs : hash'[k].status = hash[k].status
    BY <2>2 DEF Spared
  <2> QED  BY <1>b, <2>2, <2>3, SameLife DEF Executing
<1>10. CASE UNCHANGED <<redisVars, worker>>
  <2>1. /\ pushed' = pushed /\ worker' = worker
        /\ \A k \in Jobs : hash'[k].status = hash[k].status
    BY <1>10 DEF redisVars
  <2> QED  BY <1>b, <2>1, SameLife DEF Executing
<1>11. ASSUME NEW w \in Workers, WorkerStep(w) PROVE [Life!LifeNext]_(Life!lifeVars)
  <2>1. ~DriverError(w)
    BY DEF DriverError, Benign
  <2>2. CASE CompleteJob(w) \/ ReleaseJob(w) \/ FailJob(w)
    BY <1>4, <2>2 DEF Life!LifeNext
  <2>3. CASE PopClaim(w)
    BY <1>3, <2>3 DEF Life!LifeNext
  <2> QED  BY <1>2, <1>11, <2>1, <2>2, <2>3 DEF WorkerStep
<1>12. ASSUME NEW w \in Workers, WorkerDies(w) PROVE [Life!LifeNext]_(Life!lifeVars)
  BY <1>5, <1>12 DEF Life!LifeNext
<1>13. CASE Poller \/ Recovery
  BY <1>6, <1>7, <1>10, <1>13 DEF Poller, PollRead, Recovery, Life!LifeNext
<1>14. ASSUME NEW a \in Admins, AdminRead(a) \/ AdminWrite(a)
       PROVE  [Life!LifeNext]_(Life!lifeVars)
  BY <1>8, <1>10, <1>14 DEF AdminRead, Life!LifeNext
<1> QED
  BY <1>1, <1>9, <1>10, <1>11, <1>12, <1>13, <1>14 DEF Next, vars

\* Workers, recovery and retries on the Redis driver do to a job only what
\* its life cycle allows, workers that die included.
THEOREM RedisImplementsLifecycle ==
    ASSUME Benign
    PROVE  Spec => ImplementsLifecycle
<1>1. Init => Life!LifeInit
  BY DEF Init, RedisInit, WorkerInit, NoPayload, Idle, LifeState, Present, Holder, Executing,
         Life!LifeInit
<1>2. TypeOK /\ PathInv /\ LeaseInv /\ LeaseInv' /\ [Next]_vars
         => [Life!LifeNext]_(Life!lifeVars)
  BY LifeStep
<1> QED
  BY <1>1, <1>2, PathInvariant, LeaseInvariant, PTL
  DEF Spec, ImplementsLifecycle, Life!LifeSpec

=============================================================================
