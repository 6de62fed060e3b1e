------------------------- MODULE RedisIndexesProofs -------------------------
(***************************************************************************)
(* Proofs about RedisIndexes, for any number of jobs, queues and callers.  *)
(*                                                                         *)
(*   drift     while workers go on, drains, walks, rebuilds, flushes,      *)
(*             deletions and retries leave every job in the indexes its    *)
(*             hash asks for, except the jobs some call has written from a *)
(*             copy that was out of date                                   *)
(*   rebuilds  index every job of a version without indexes                *)
(*   drains    spare unfinished jobs, come to an end, and pass over        *)
(*             nothing they have to examine; walks neither                 *)
(***************************************************************************)
EXTENDS RedisIndexes, FiniteSetTheorems, TLAPS

-----------------------------------------------------------------------------
(* The helpers *)

LEMMA Families_Keys ==
    ASSUME NEW j \in Jobs, NEW s \in Statuses \cup {"absent"}
    PROVE  Families(j, s) \subseteq Key
BY IndexAssumption DEF Families, Key

LEMMA Window_Jobs ==
    ASSUME TypeOK, NEW i \in Key, NEW offset
    PROVE  Window(i, offset) \subseteq Jobs
BY DEF Window, TypeOK

LEMMA Skipped_Nat ==
    ASSUME NEW c, c.window \subseteq Jobs
    PROVE  Cardinality(Skipped(c)) \in Nat
<1>1. Skipped(c) \subseteq Jobs
  BY DEF Skipped
<1>2. IsFiniteSet(Skipped(c))
  BY <1>1, IndexAssumption, FS_Subset
<1> QED BY <1>2, FS_CardinalityType

-----------------------------------------------------------------------------
(* Types *)

LEMMA NoCall_Type == NoCall \in CallState
BY IndexAssumption DEF NoCall, CallState, Calls, Key, AllKey, Resting

LEMMA Goes_Type ==
    ASSUME TypeOK, NEW k \in Keepers, NEW c \in CallState, Goes(k, c)
    PROVE  keeper' \in [Keepers -> CallState]
BY DEF Goes, TypeOK

LEMMA Returns_Type ==
    ASSUME TypeOK, NEW k \in Keepers, Returns(k)
    PROVE  keeper' \in [Keepers -> CallState]
BY NoCall_Type, Goes_Type DEF Returns

LEMMA Copies_Type ==
    ASSUME TypeOK, NEW k \in Keepers, NEW ids \in SUBSET Jobs
    PROVE  Copies(k, ids) \in CallState
<1>1. keeper[k] \in CallState
  BY DEF TypeOK
<1>2. [j \in Jobs |-> IF j \in ids THEN hash[j] ELSE "absent"]
          \in [Jobs -> Statuses \cup {"absent"}]
  BY DEF TypeOK
<1> QED BY <1>1, <1>2 DEF Copies, CallState

LEMMA NextWindow_Type ==
    ASSUME NEW c \in CallState
    PROVE  NextWindow(c) \in CallState
<1>1. c.window \subseteq Jobs /\ c.offset \in Nat
  BY DEF CallState
<1>2. Cardinality(Skipped(c)) \in Nat
  BY <1>1, Skipped_Nat
<1>3. NoCall.copy \in [Jobs -> Statuses \cup {"absent"}]
  BY DEF NoCall
<1>4. c.offset + Cardinality(Skipped(c)) \in Nat
  BY <1>1, <1>2
<1>5. \A n \in Nat, f \in [Jobs -> Statuses \cup {"absent"}] :
          [c EXCEPT !.at = "read", !.window = {}, !.copy = f, !.offset = n] \in CallState
  BY DEF CallState
<1> QED BY <1>3, <1>4, <1>5 DEF NextWindow

LEMMA Continues_Type ==
    ASSUME TypeOK, NEW k \in Keepers, NEW c \in CallState, Continues(k, c)
    PROVE  keeper' \in [Keepers -> CallState]
BY NextWindow_Type, Goes_Type, Returns_Type DEF Continues

LEMMA Walks_Type ==
    ASSUME TypeOK, NEW k \in Keepers, NEW c \in CallState, Walks(k, c)
    PROVE  keeper' \in [Keepers -> CallState]
<1>1. [c EXCEPT !.at = "read", !.window = {}] \in CallState
  BY DEF CallState
<1> QED BY <1>1, Goes_Type, Returns_Type DEF Walks

LEMMA IndexAdd_Type ==
    ASSUME TypeOK, NEW ids \in SUBSET Jobs, NEW copy, IndexAdd(ids, copy)
    PROVE  index' \in [Key -> SUBSET Jobs]
BY DEF TypeOK, IndexAdd

LEMMA IndexRemove_Type ==
    ASSUME TypeOK, NEW ids, NEW copy, NEW orphans, NEW keys, IndexRemove(ids, copy, orphans, keys)
    PROVE  index' \in [Key -> SUBSET Jobs]
BY DEF TypeOK, IndexRemove

LEMMA IndexStatusChange_Type ==
    ASSUME TypeOK, NEW j \in Jobs, NEW old, NEW new, IndexStatusChange(j, old, new)
    PROVE  index' \in [Key -> SUBSET Jobs]
BY DEF TypeOK, IndexStatusChange

(* The steps, without the histories. *)

JobStep(j) ==
    \/ Push(j)
    \/ Claim(j)
    \/ RequeueStuck(j)
    \/ \E status \in Terminal \cup {"pending"} : Finish(j, status)

KeeperStep(k) ==
    \/ \E d \in Drains[k] : BeginDrain(k, d.key, d.selection)
    \/ ReadWindow(k)
    \/ ReadHashes(k)
    \/ WriteWindow(k)
    \/ \E key \in WalkKeys : BeginWalk(k, key)
    \/ \E ids \in SUBSET Jobs : WalkReads(k, ids)
    \/ WalkRemoves(k)
    \/ Connect(k)
    \/ \E ids \in SUBSET Jobs : RebuildReads(k, ids)
    \/ RebuildAdds(k)
    \/ Crash(k)
    \/ \E q \in Queues : FlushReads(k, q)
    \/ FlushRemoves(k)
    \/ \E ids \in Deletions : DeleteReads(k, ids)
    \/ DeleteRemoves(k)
    \/ RetryReads(k)
    \/ RetryCopies(k)
    \/ \E j \in Jobs : RetryReleases(k, j)
    \/ RetryEnds(k)

LEMMA Next_Steps ==
    ASSUME Next
    PROVE  Observe /\ ((\E j \in Jobs : JobStep(j)) \/ (\E k \in Keepers : KeeperStep(k)))
BY DEF Next, JobStep, KeeperStep

StateOK ==
    /\ hash \in [Jobs -> Statuses \cup {"absent"}]
    /\ index \in [Key -> SUBSET Jobs]
    /\ holders \in [Jobs -> 0..MaxHolders]
    /\ fresh \subseteq Jobs
    /\ serving \in BOOLEAN
    /\ keeper \in [Keepers -> CallState]
    /\ unindexed \subseteq Jobs
    /\ cut \in BOOLEAN
    /\ clobbered \subseteq Jobs

LEMMA JobStep_Type ==
    ASSUME TypeOK, NEW j \in Jobs, JobStep(j)
    PROVE  StateOK'
<1> USE DEF TypeOK, StateOK, Alone
<1>1. "pending" \in Statuses /\ "processing" \in Statuses /\ Terminal \subseteq Statuses
  BY DEF Statuses, Live
<1>2. CASE Push(j)
  <2>1. index' \in [Key -> SUBSET Jobs]
    BY <1>2, IndexAdd_Type DEF Push
  <2> QED BY <1>1, <1>2, <2>1 DEF Push
<1>3. CASE Claim(j)
  <2>1. index' \in [Key -> SUBSET Jobs]
    BY <1>3, IndexStatusChange_Type DEF Claim
  <2>2. holders' \in [Jobs -> 0..MaxHolders]
    BY <1>3, IndexAssumption DEF Claim
  <2> QED BY <1>1, <1>3, <2>1, <2>2 DEF Claim
<1>4. CASE RequeueStuck(j)
  <2>1. index' \in [Key -> SUBSET Jobs]
    BY <1>4, IndexStatusChange_Type DEF RequeueStuck
  <2> QED BY <1>1, <1>4, <2>1 DEF RequeueStuck
<1>5. ASSUME NEW status \in Terminal \cup {"pending"}, Finish(j, status)
      PROVE  StateOK'
  <2>1. index' \in [Key -> SUBSET Jobs]
    BY <1>5, IndexStatusChange_Type DEF Finish
  <2>2. holders' \in [Jobs -> 0..MaxHolders]
    BY <1>5, IndexAssumption DEF Finish
  <2>3. clobbered' \subseteq Jobs
    BY <1>5 DEF Finish, Clobbers
  <2> QED BY <1>1, <1>5, <2>1, <2>2, <2>3 DEF Finish
<1> QED BY <1>2, <1>3, <1>4, <1>5 DEF JobStep

\* A step that only moves on in its call.
LEMMA Stays_Type ==
    ASSUME TypeOK, Stays, keeper' \in [Keepers -> CallState]
    PROVE  StateOK'
BY DEF TypeOK, StateOK, Stays, hashVars

LEMMA Keys ==
    /\ AllKey \in Key
    /\ WalkKeys \subseteq Key
    /\ <<Any, "failed">> \in Key
    /\ \A q \in Queues : <<q, Any>> \in Key
    /\ \A k \in Keepers : \A d \in Drains[k] : d.key \in Key /\ d.selection \in SUBSET Jobs
BY IndexAssumption DEF AllKey, Key, Statuses

LEMMA Reading_Type ==
    ASSUME TypeOK, NEW k \in Keepers,
           \/ \E d \in Drains[k] : BeginDrain(k, d.key, d.selection)
           \/ ReadWindow(k) \/ ReadHashes(k)
           \/ \E key \in WalkKeys : BeginWalk(k, key)
           \/ \E ids \in SUBSET Jobs : WalkReads(k, ids)
           \/ \E ids \in SUBSET Jobs : RebuildReads(k, ids)
           \/ \E q \in Queues : FlushReads(k, q)
           \/ \E ids \in Deletions : DeleteReads(k, ids)
           \/ RetryReads(k) \/ RetryCopies(k) \/ RetryEnds(k)
    PROVE  StateOK'
<1> SUFFICES keeper' \in [Keepers -> CallState] /\ Stays
  BY Stays_Type
<1>1. keeper[k] \in CallState /\ \A i \in Key : index[i] \subseteq Jobs
  BY DEF TypeOK
<1>2. keeper[k].window \subseteq Jobs /\ keeper[k].todo \subseteq Jobs /\ keeper[k].key \in Key
  BY <1>1 DEF CallState
<1>3. {"drain", "walk", "rebuild", "flush", "delete", "retry"} \subseteq Calls
  BY DEF Calls
<1>4. CASE \E d \in Drains[k] : BeginDrain(k, d.key, d.selection)
  <2>1. PICK d \in Drains[k] : BeginDrain(k, d.key, d.selection)
    BY <1>4
  <2>2. d.key \in Key /\ d.selection \in SUBSET Jobs
    BY Keys
  <2>3. [NoCall EXCEPT !.call = "drain", !.at = "read", !.key = d.key,
                       !.selection = d.selection] \in CallState
    BY <1>3, <2>2, NoCall_Type DEF CallState
  <2> QED BY <2>1, <2>3, Goes_Type DEF BeginDrain
<1>5. CASE ReadWindow(k)
  <2> DEFINE ids == Window(keeper[k].key, keeper[k].offset)
  <2>1. ids \in SUBSET Jobs
    BY <1>2, Window_Jobs
  <2>2. [keeper[k] EXCEPT !.at = "copy", !.window = ids] \in CallState
    BY <1>1, <2>1 DEF CallState
  <2>3. Returns(k) \/ Goes(k, [keeper[k] EXCEPT !.at = "copy", !.window = ids])
    BY <1>5 DEF ReadWindow
  <2> QED BY <1>5, <2>2, <2>3, Goes_Type, Returns_Type DEF ReadWindow
<1>6. CASE ReadHashes(k)
  <2>1. Copies(k, keeper[k].window) \in CallState
    BY <1>2, Copies_Type
  <2> QED BY <1>6, <2>1, Goes_Type, Continues_Type DEF ReadHashes
<1>7. CASE \E key \in WalkKeys : BeginWalk(k, key)
  <2>1. PICK key \in WalkKeys : BeginWalk(k, key)
    BY <1>7
  <2>2. key \in Key /\ index[key] \in SUBSET Jobs
    BY <1>1, Keys
  <2>3. [NoCall EXCEPT !.call = "walk", !.at = "read", !.key = key, !.todo = index[key]]
           \in CallState
    BY <1>3, <2>2, NoCall_Type DEF CallState
  <2> QED BY <2>1, <2>3, Goes_Type DEF BeginWalk
<1>8. ASSUME NEW ids \in SUBSET Jobs, WalkReads(k, ids)
      PROVE  keeper' \in [Keepers -> CallState] /\ Stays
  <2> DEFINE c == [keeper[k] EXCEPT !.at = "write", !.window = Stale(ids), !.todo = @ \ ids]
  <2>1. Stale(ids) \in SUBSET Jobs /\ keeper[k].todo \ ids \in SUBSET Jobs
    BY <1>2 DEF Stale
  <2>2. c \in CallState
    BY <1>1, <2>1 DEF CallState
  <2>3. Walks(k, c) \/ Goes(k, c)
    BY <1>8 DEF WalkReads
  <2> HIDE DEF c
  <2> QED BY <1>8, <2>2, <2>3, Goes_Type, Walks_Type DEF WalkReads
<1>9. ASSUME NEW ids \in SUBSET Jobs, RebuildReads(k, ids)
      PROVE  keeper' \in [Keepers -> CallState] /\ Stays
  <2> DEFINE c == Copies(k, ids)
  <2>1. c \in CallState
    BY Copies_Type
  <2> HIDE DEF c
  <2>3. [c EXCEPT !.todo = @ \ ids] \in CallState
    BY <2>1 DEF CallState
  <2>4. Goes(k, [c EXCEPT !.todo = @ \ ids]) /\ Stays
    BY <1>9 DEF RebuildReads, c
  <2> QED BY <2>3, <2>4, Goes_Type
<1>10. CASE \E q \in Queues : FlushReads(k, q)
  <2>1. PICK q \in Queues : FlushReads(k, q)
    BY <1>10
  <2> DEFINE key == <<q, Any>>
  <2>2. key \in Key /\ index[key] \in SUBSET Jobs
    BY <1>1, Keys
  <2>3. Goes(k, [NoCall EXCEPT !.call = "flush", !.at = "write", !.key = key,
                               !.window = index[key]]) /\ Stays
    BY <2>1 DEF FlushReads
  <2> HIDE DEF key
  <2>4. [NoCall EXCEPT !.call = "flush", !.at = "write", !.key = key, !.window = index[key]]
           \in CallState
    BY <1>3, <2>2, NoCall_Type DEF CallState
  <2> QED BY <2>3, <2>4, Goes_Type
<1>11. ASSUME NEW ids \in Deletions, DeleteReads(k, ids)
       PROVE  keeper' \in [Keepers -> CallState] /\ Stays
  <2>1. Copies(k, ids) \in CallState
    BY IndexAssumption, Copies_Type
  <2>2. [Copies(k, ids) EXCEPT !.call = "delete"] \in CallState
    BY <1>3, <2>1 DEF CallState
  <2> QED BY <1>11, <2>2, Goes_Type DEF DeleteReads
<1>12. CASE RetryReads(k)
  <2> DEFINE ids == index[<<Any, "failed">>]
  <2>1. ids \in SUBSET Jobs
    BY <1>1, Keys
  <2>2. Goes(k, [NoCall EXCEPT !.call = "retry", !.at = "copy", !.window = ids]) /\ Stays
    BY <1>12 DEF RetryReads
  <2> HIDE DEF ids
  <2>3. [NoCall EXCEPT !.call = "retry", !.at = "copy", !.window = ids] \in CallState
    BY <1>3, <2>1, NoCall_Type DEF CallState
  <2> QED BY <2>2, <2>3, Goes_Type
<1>13. CASE RetryCopies(k)
  <2> DEFINE c == Copies(k, keeper[k].window)
  <2>1. c \in CallState
    BY <1>2, Copies_Type
  <2>2. Goes(k, [c EXCEPT !.window = @ \ Orphans(c)]) /\ Stays
    BY <1>13 DEF RetryCopies
  <2> HIDE DEF c
  <2>3. [c EXCEPT !.window = @ \ Orphans(c)] \in CallState
    BY <2>1 DEF CallState
  <2> QED BY <2>2, <2>3, Goes_Type
<1>14. CASE RetryEnds(k)
  BY <1>14, Returns_Type DEF RetryEnds
<1> QED BY <1>4, <1>5, <1>6, <1>7, <1>8, <1>9, <1>10, <1>11, <1>12, <1>13, <1>14

LEMMA Writing_Type ==
    ASSUME TypeOK, NEW k \in Keepers,
           \/ WriteWindow(k) \/ WalkRemoves(k) \/ Connect(k) \/ RebuildAdds(k)
           \/ Crash(k) \/ FlushRemoves(k) \/ DeleteRemoves(k)
           \/ \E j \in Jobs : RetryReleases(k, j)
    PROVE  StateOK'
<1> USE Returns_Type
<1> DEFINE c == keeper[k]
<1>1. c \in CallState
  BY DEF TypeOK
<1>2. /\ c.window \subseteq Jobs /\ c.todo \subseteq Jobs /\ c.key \in Key
      /\ c.copy \in [Jobs -> Statuses \cup {"absent"}]
  BY <1>1 DEF CallState
<1>3. {"rebuild"} \subseteq Calls /\ "pending" \in Statuses
  BY DEF Calls, Statuses, Live
<1>4. \A ids : Removes(ids) =>
        /\ hash' \in [Jobs -> Statuses \cup {"absent"}]
        /\ UNCHANGED <<holders, fresh>>
  BY DEF Removes, TypeOK
<1>5. \A ids \in SUBSET Jobs : Clobbers(ids) => clobbered' \subseteq Jobs
  BY DEF Clobbers, TypeOK
<1>6. Doomed(c) \subseteq Jobs /\ Orphans(c) \subseteq Jobs
  BY <1>2 DEF Doomed, Orphans
<1>7. CASE WriteWindow(k)
  <2>1. keeper' \in [Keepers -> CallState]
    BY <1>1, <1>7, Continues_Type DEF WriteWindow
  <2>2. index' \in [Key -> SUBSET Jobs]
    BY <1>6, <1>7, IndexRemove_Type DEF WriteWindow
  <2>3. clobbered' \subseteq Jobs
    BY <1>5, <1>6, <1>7 DEF WriteWindow, OutOfDate
  <2> QED BY <1>4, <1>7, <2>1, <2>2, <2>3 DEF WriteWindow, StateOK, TypeOK
<1>8. CASE WalkRemoves(k)
  <2>1. keeper' \in [Keepers -> CallState]
    BY <1>1, <1>8, Walks_Type DEF WalkRemoves
  <2>2. index' \in [Key -> SUBSET Jobs]
    BY <1>8, IndexRemove_Type DEF WalkRemoves
  <2>3. clobbered' \subseteq Jobs
    BY <1>2, <1>5, <1>8 DEF WalkRemoves
  <2> QED BY <1>8, <2>1, <2>2, <2>3 DEF WalkRemoves, StateOK, TypeOK
<1>9. CASE Connect(k)
  <2>1. Present \in SUBSET Jobs
    BY DEF Present
  <2>2. [NoCall EXCEPT !.call = "rebuild", !.at = "read", !.todo = Present] \in CallState
    BY <1>3, <2>1, NoCall_Type DEF CallState
  <2>3. keeper' \in [Keepers -> CallState]
    BY <1>9, <2>2, Goes_Type DEF Connect, TypeOK
  <2> QED BY <1>9, <2>3 DEF Connect, StateOK, TypeOK, hashVars
<1>10. CASE RebuildAdds(k)
  <2>0. NoCall.copy \in [Jobs -> Statuses \cup {"absent"}]
    BY DEF NoCall
  <2>1. [c EXCEPT !.at = "read", !.window = {}, !.copy = NoCall.copy] \in CallState
    BY <1>1, <2>0 DEF CallState
  <2>2. keeper' \in [Keepers -> CallState] /\ serving' \in BOOLEAN
    BY <1>10, <2>1, Goes_Type DEF RebuildAdds, TypeOK
  <2>3. index' \in [Key -> SUBSET Jobs]
    BY <1>2, <1>10, IndexAdd_Type DEF RebuildAdds
  <2>4. clobbered' \subseteq Jobs /\ unindexed' \subseteq Jobs
    BY <1>2, <1>5, <1>10 DEF RebuildAdds, TypeOK
  <2> QED BY <1>10, <2>2, <2>3, <2>4 DEF RebuildAdds, StateOK, TypeOK
<1>11. CASE Crash(k)
  BY <1>11 DEF Crash, StateOK, TypeOK, hashVars
<1>12. CASE FlushRemoves(k)
  <2>1. keeper' \in [Keepers -> CallState]
    BY <1>12 DEF FlushRemoves
  <2>2. index' \in [Key -> SUBSET Jobs]
    BY <1>12 DEF FlushRemoves, TypeOK
  <2>3. clobbered' \subseteq Jobs
    BY <1>5, <1>12 DEF FlushRemoves
  <2>4. hash' \in [Jobs -> Statuses \cup {"absent"}]
    BY <1>12 DEF FlushRemoves, TypeOK
  <2> QED BY <1>12, <2>1, <2>2, <2>3, <2>4 DEF FlushRemoves, StateOK, TypeOK
<1>13. CASE DeleteRemoves(k)
  <2>1. keeper' \in [Keepers -> CallState]
    BY <1>13 DEF DeleteRemoves
  <2>2. index' \in [Key -> SUBSET Jobs]
    BY <1>2, <1>13, IndexRemove_Type DEF DeleteRemoves
  <2>3. clobbered' \subseteq Jobs
    BY <1>2, <1>5, <1>13 DEF DeleteRemoves, OutOfDate
  <2> QED BY <1>4, <1>13, <2>1, <2>2, <2>3 DEF DeleteRemoves, StateOK, TypeOK
<1>14. ASSUME NEW j \in Jobs, RetryReleases(k, j)
       PROVE  StateOK'
  <2>0. [c.copy EXCEPT ![j] = "absent"] \in [Jobs -> Statuses \cup {"absent"}]
    BY <1>2
  <2>1. [c EXCEPT !.window = @ \ {j}, !.copy[j] = "absent"] \in CallState
    BY <1>1, <2>0 DEF CallState
  <2>2. keeper' \in [Keepers -> CallState]
    BY <1>14, <2>1, Goes_Type DEF RetryReleases
  <2>3. index' \in [Key -> SUBSET Jobs]
    BY <1>14, IndexStatusChange_Type DEF RetryReleases
  <2>4. clobbered' \subseteq Jobs
    BY <1>5, <1>14 DEF RetryReleases
  <2>5. hash' \in [Jobs -> Statuses \cup {"absent"}]
    BY <1>3, <1>14 DEF RetryReleases, TypeOK
  <2> QED BY <1>14, <2>2, <2>3, <2>4, <2>5 DEF RetryReleases, StateOK, TypeOK
<1> QED BY <1>7, <1>8, <1>9, <1>10, <1>11, <1>12, <1>13, <1>14

LEMMA Observe_Type ==
    ASSUME TypeOK, StateOK', Observe
    PROVE  TypeOK'
<1>1. ASSUME NEW c \in CallState, NEW h, NEW ix \in [Key -> SUBSET Jobs]
      PROVE  Debt(c, h, ix) \subseteq Jobs
  BY <1>1 DEF Debt, CallState
<1>2. owed' \in [Keepers -> SUBSET Jobs]
  <2> SUFFICES ASSUME NEW k \in Keepers PROVE owed'[k] \subseteq Jobs
    BY DEF Observe
  <2>1. owed[k] \subseteq Jobs
    BY DEF TypeOK
  <2>2. Debt(keeper'[k], hash, index) \subseteq Jobs
    BY <1>1 DEF TypeOK, StateOK
  <2>3. owed'[k] = {} \/ owed'[k] \subseteq owed[k] \/ owed'[k] = Debt(keeper'[k], hash, index)
    BY DEF Observe
  <2> QED BY <2>1, <2>2, <2>3
<1>3. moved' \in [Keepers -> SUBSET Jobs]
  <2> SUFFICES ASSUME NEW k \in Keepers PROVE moved'[k] \subseteq Jobs
    BY DEF Observe
  <2>1. moved[k] \subseteq Jobs /\ keeper[k].window \subseteq Jobs
    BY DEF TypeOK, CallState
  <2>2. \/ moved'[k] = {}
        \/ moved'[k] = moved[k] \cup (keeper[k].window \cap Left(k))
    BY DEF Observe
  <2> QED BY <2>1, <2>2
<1>4. shifted' \subseteq Keepers
  BY DEF Observe
<1> QED BY <1>2, <1>3, <1>4 DEF StateOK, TypeOK

LEMMA Next_Type ==
    ASSUME TypeOK, Next
    PROVE  TypeOK'
<1>1. ASSUME NEW k \in Keepers, KeeperStep(k) PROVE StateOK'
  BY <1>1, Reading_Type, Writing_Type DEF KeeperStep
<1> QED BY <1>1, JobStep_Type, Observe_Type, Next_Steps

LEMMA Init_Type ==
    ASSUME Init
    PROVE  TypeOK
<1>1. 0 \in 0..MaxHolders
  BY IndexAssumption
<1>2. holders \in [Jobs -> 0..MaxHolders]
  BY <1>1 DEF Init
<1>3. keeper \in [Keepers -> CallState]
  BY NoCall_Type DEF Init
<1> QED BY <1>2, <1>3 DEF Init, TypeOK

LEMMA Stutter_Type ==
    ASSUME TypeOK, UNCHANGED vars
    PROVE  TypeOK'
BY DEF TypeOK, vars, hashVars, historyVars

\* Every variable keeps its type, the offset of a drain included.
THEOREM TypeCorrect == Spec => []TypeOK
<1>1. Init => TypeOK
  BY Init_Type
<1>2. TypeOK /\ [Next]_vars => TypeOK'
  BY Next_Type, Stutter_Type
<1> QED BY <1>1, <1>2, PTL DEF Spec

-----------------------------------------------------------------------------
(* Drift *)

\* What the pipelines do to the families of one job.
LEMMA Added ==
    ASSUME TypeOK, NEW ids \in SUBSET Jobs, NEW copy, IndexAdd(ids, copy),
           \A i \in ids : copy[i] \in Statuses \cup {"absent"},
           NEW j \in Jobs
    PROVE  /\ j \in ids => Stored(j)' = Stored(j) \cup Families(j, copy[j])
           /\ j \notin ids => Stored(j)' = Stored(j)
<1>1. \A i \in Key : index'[i] = index[i] \cup {m \in ids : i \in Families(m, copy[m])}
  BY DEF IndexAdd
<1>2. j \in ids => Families(j, copy[j]) \subseteq Key
  BY Families_Keys
<1> QED BY <1>1, <1>2 DEF Stored

LEMMA Removed ==
    ASSUME TypeOK, NEW ids, NEW copy, NEW orphans, NEW keys,
           IndexRemove(ids, copy, orphans, keys), NEW j \in Jobs
    PROVE  /\ Stored(j)' \subseteq Stored(j)
           /\ j \notin ids \cup orphans => Stored(j)' = Stored(j)
           /\ j \in ids => Stored(j)' \cap Families(j, copy[j]) = {}
<1>1. \A i \in Key :
         /\ index'[i] \subseteq index[i]
         /\ j \in index[i] /\ j \notin ids \cup orphans => j \in index'[i]
         /\ j \in ids /\ i \in Families(j, copy[j]) => j \notin index'[i]
  BY DEF IndexRemove
<1> QED BY <1>1 DEF Stored

LEMMA Changed ==
    ASSUME TypeOK, NEW i \in Jobs, NEW old \in Statuses, NEW new \in Statuses,
           IndexStatusChange(i, old, new), NEW j \in Jobs
    PROVE  /\ j # i => Stored(j)' = Stored(j)
           /\ Stored(i) \subseteq Families(i, old) => Stored(i)' \subseteq Families(i, new)
           /\ Stored(i) = Families(i, old) => Stored(i)' = Families(i, new)
<1>1. old # "absent" /\ new # "absent" /\ old # Any /\ new # Any
  BY IndexAssumption
<1>2. /\ Families(i, old) = {QueueOf[i], Any} \X {old, Any}
      /\ Families(i, new) = {QueueOf[i], Any} \X {new, Any}
      /\ Families(i, new) \subseteq Key
  BY <1>1, Families_Keys DEF Families
<1>3. \A f \in Key : index'[f] = IF old = new THEN index[f]
                                ELSE IF f \in StatusFamilies(i, new) THEN index[f] \cup {i}
                                ELSE IF f \in StatusFamilies(i, old) THEN index[f] \ {i}
                                ELSE index[f]
  BY DEF IndexStatusChange
<1>4. ASSUME j # i PROVE Stored(j)' = Stored(j)
  BY <1>3, <1>4 DEF Stored
<1>5. CASE old = new
  BY <1>3, <1>4, <1>5 DEF Stored
<1>6. CASE old # new
  <2>1. \A f \in Key : i \in index'[f] <=> \/ f \in {QueueOf[i], Any} \X {new}
                                            \/ /\ f \notin {QueueOf[i], Any} \X {old}
                                               /\ i \in index[f]
    BY <1>3, <1>6 DEF StatusFamilies
  <2>2. /\ {QueueOf[i], Any} \X {new} \subseteq Families(i, new)
        /\ Families(i, old) \ ({QueueOf[i], Any} \X {old}) = {QueueOf[i], Any} \X {Any}
        /\ Families(i, new) = ({QueueOf[i], Any} \X {new}) \cup ({QueueOf[i], Any} \X {Any})
    BY <1>1, <1>2
  <2>3. Stored(i)' = ({QueueOf[i], Any} \X {new})
                        \cup (Stored(i) \ ({QueueOf[i], Any} \X {old}))
    BY <1>2, <2>1, <2>2 DEF Stored
  <2> QED BY <1>4, <2>2, <2>3
<1> QED BY <1>5, <1>6

LEMMA Family ==
    ASSUME NEW j \in Jobs, NEW s \in Statuses \cup {"absent"}
    PROVE  /\ Families(j, "absent") = {}
           /\ s # "absent" => Families(j, s) = {QueueOf[j], Any} \X {s, Any}
BY DEF Families

\* What one step leaves alone.
LEMMA Undisturbed ==
    ASSUME NEW j \in Jobs, Consistent(j), Stored(j)' = Stored(j), hash'[j] = hash[j],
           j \in unindexed => j \in unindexed'
    PROVE  Consistent(j)'
BY DEF Consistent

LEMMA JobStep_Consistent ==
    ASSUME DriftInv, NEW i \in Jobs, JobStep(i), NEW j \in Jobs \ clobbered'
    PROVE  Consistent(j)'
<1>1. TypeOK /\ hash[j] \in Statuses \cup {"absent"} /\ unindexed' = unindexed
  BY DEF DriftInv, TypeOK, JobStep, Push, Claim, RequeueStuck, Finish, Alone
<1>2. "pending" \in Statuses /\ "processing" \in Statuses /\ Terminal \subseteq Statuses
  BY DEF Statuses, Live
<1>3. j \notin clobbered
  BY DEF JobStep, Push, Claim, RequeueStuck, Finish, Clobbers
<1>4. Consistent(j)
  BY <1>3 DEF DriftInv, NoSilentDrift
<1>5. "absent" \notin Statuses
  BY IndexAssumption
<1>6. CASE Push(i)
  <2>1. IndexAdd({i}, [m \in {i} |-> "pending"])
    BY <1>6 DEF Push
  <2>2. /\ j = i => Stored(j)' = Stored(j) \cup Families(j, "pending")
        /\ j # i => Stored(j)' = Stored(j)
    BY <1>1, <1>2, <2>1, Added
  <2>3. CASE j = i
    <3>1. hash[j] = "absent" /\ j \notin unindexed
      BY <1>3, <1>6, <2>3 DEF Push, DriftInv, CallsAgree
    <3>2. Stored(j) = {}
      BY <1>4, <3>1, Family DEF Consistent
    <3>3. hash'[j] = "pending"
      BY <1>1, <1>6, <2>3 DEF Push, TypeOK
    <3> QED BY <1>1, <2>2, <2>3, <3>1, <3>2, <3>3 DEF Consistent
  <2>4. CASE j # i
    <3>1. hash'[j] = hash[j]
      BY <1>1, <1>6, <2>4 DEF Push, TypeOK
    <3> QED BY <1>1, <1>4, <2>2, <2>4, <3>1, Undisturbed
  <2> QED BY <2>3, <2>4
<1>7. ASSUME NEW old \in Statuses, NEW new \in Statuses, IndexStatusChange(i, old, new),
             hash' = [hash EXCEPT ![i] = new],
             j = i => hash[i] = old
      PROVE  Consistent(j)'
  <2>1. /\ j # i => Stored(j)' = Stored(j)
        /\ Stored(i) \subseteq Families(i, old) => Stored(i)' \subseteq Families(i, new)
        /\ Stored(i) = Families(i, old) => Stored(i)' = Families(i, new)
    BY <1>1, <1>7, Changed
  <2>2. CASE j = i
    <3>1. hash'[j] = new
      BY <1>1, <1>7, <2>2 DEF TypeOK
    <3> QED BY <1>1, <1>4, <1>7, <2>1, <2>2, <3>1 DEF Consistent
  <2>3. CASE j # i
    <3>1. hash'[j] = hash[j]
      BY <1>1, <1>7, <2>3 DEF TypeOK
    <3> QED BY <1>1, <1>4, <2>1, <2>3, <3>1, Undisturbed
  <2> QED BY <2>2, <2>3
<1>8. CASE Claim(i)
  BY <1>2, <1>7, <1>8 DEF Claim
<1>9. CASE RequeueStuck(i)
  BY <1>2, <1>7, <1>9 DEF RequeueStuck
<1>10. ASSUME NEW status \in Terminal \cup {"pending"}, Finish(i, status)
       PROVE  Consistent(j)'
  <2>1. j = i => hash[i] = "processing"
    BY <1>10 DEF Finish, Clobbers
  <2>2. status \in Statuses /\ IndexStatusChange(i, "processing", status)
        /\ hash' = [hash EXCEPT ![i] = status]
    BY <1>2, <1>10 DEF Finish
  <2>3. /\ j # i => Stored(j)' = Stored(j)
        /\ Stored(i) \subseteq Families(i, "processing") => Stored(i)' \subseteq Families(i, status)
        /\ Stored(i) = Families(i, "processing") => Stored(i)' = Families(i, status)
    BY <1>1, <1>2, <2>2, Changed
  <2>4. hash'[j] = IF j = i THEN status ELSE hash[j]
    BY <1>1, <2>2 DEF TypeOK
  <2> QED BY <1>1, <1>4, <2>1, <2>3, <2>4 DEF Consistent
<1> QED BY <1>6, <1>8, <1>9, <1>10 DEF JobStep

\* A pipeline that removes: a job that is in it and not clobbered has gone, or
\* never was there.
LEMMA Removes_Consistent ==
    ASSUME TypeOK, NEW j \in Jobs, Consistent(j),
           NEW ids \in SUBSET Jobs, NEW copy \in [Jobs -> Statuses \cup {"absent"}],
           NEW orphans \in SUBSET Jobs, NEW keys,
           IndexRemove(ids, copy, orphans, keys),
           j \in ids \cup orphans => hash[j] \in {copy[j], "absent"},
           \A i \in orphans \ ids : copy[i] = "absent",
           hash'[j] = IF j \in ids THEN "absent" ELSE hash[j],
           unindexed' = unindexed
    PROVE  Consistent(j)'
<1>1. /\ Stored(j)' \subseteq Stored(j)
      /\ j \notin ids \cup orphans => Stored(j)' = Stored(j)
      /\ j \in ids => Stored(j)' \cap Families(j, copy[j]) = {}
  BY Removed
<1>2. CASE j \notin ids \cup orphans
  BY <1>1, <1>2, Undisturbed
<1>3. CASE j \in ids \cup orphans
  <2>1. hash'[j] = "absent"
    BY <1>3
  <2>2. Families(j, hash[j]) \subseteq Families(j, copy[j])
    BY <1>3, Family
  <2>3. Stored(j) \subseteq Families(j, hash[j])
    BY DEF Consistent
  <2>4. Stored(j)' = {}
    <3>1. CASE j \in ids
      BY <1>1, <2>2, <2>3, <3>1
    <3>2. CASE j \in orphans \ ids
      BY <1>1, <2>2, <2>3, <3>2, Family
    <3> QED BY <1>3, <3>1, <3>2
  <2> QED BY <2>1, <2>4, Family DEF Consistent
<1> QED BY <1>2, <1>3

LEMMA KeeperStep_Consistent ==
    ASSUME DriftInv, NEW k \in Keepers, KeeperStep(k), NEW j \in Jobs \ clobbered'
    PROVE  Consistent(j)'
<1> DEFINE c == keeper[k]
<1>1. TypeOK /\ CallsAgree
  BY DEF DriftInv
<1>2. c \in CallState /\ hash \in [Jobs -> Statuses \cup {"absent"}]
  BY <1>1 DEF TypeOK
<1>3. /\ c.window \subseteq Jobs /\ c.key \in Key
      /\ c.copy \in [Jobs -> Statuses \cup {"absent"}]
  BY <1>2 DEF CallState
<1>4. \A ids : Clobbers(ids) => j \notin clobbered /\ j \notin ids
  BY DEF Clobbers
<1>5. j \notin clobbered => Consistent(j)
  BY DEF DriftInv, NoSilentDrift
<1>6. \A ids : Removes(ids) =>
         hash'[j] = IF j \in ids THEN "absent" ELSE hash[j]
  BY DEF Removes
<1>7. CASE UNCHANGED <<hashVars, unindexed, clobbered>>
  BY <1>5, <1>7 DEF Consistent, Stored, hashVars
<1>8. CASE WriteWindow(k)
  <2>1. Doomed(c) \in SUBSET Jobs /\ Orphans(c) \in SUBSET Jobs
    BY <1>3 DEF Doomed, Orphans
  <2>2. j \in Doomed(c) \cup Orphans(c) => hash[j] \in {c.copy[j], "absent"}
    BY <1>4, <1>8 DEF WriteWindow, OutOfDate
  <2>3. \A i \in Orphans(c) : c.copy[i] = "absent"
    BY DEF Orphans
  <2>4. Consistent(j) /\ unindexed' = unindexed
        /\ IndexRemove(Doomed(c), c.copy, Orphans(c), OrphanKeys(c.key[1]))
    BY <1>4, <1>5, <1>8 DEF WriteWindow
  <2>5. hash'[j] = IF j \in Doomed(c) THEN "absent" ELSE hash[j]
    BY <1>6, <1>8 DEF WriteWindow
  <2> HIDE DEF c
  <2> QED BY <1>1, <1>3, <2>1, <2>2, <2>3, <2>4, <2>5, Removes_Consistent
<1>9. CASE WalkRemoves(k)
  <2>1. j \in {} \cup c.window => hash[j] \in {c.copy[j], "absent"}
    BY <1>4, <1>9 DEF WalkRemoves
  <2>2. /\ Consistent(j) /\ hash'[j] = hash[j] /\ unindexed' = unindexed
        /\ IndexRemove({}, c.copy, c.window, {c.key})
    BY <1>4, <1>5, <1>9 DEF WalkRemoves
  <2>3. j \in c.window => hash[j] = "absent"
    BY <1>4, <1>9 DEF WalkRemoves
  <2>4. /\ Stored(j)' \subseteq Stored(j)
        /\ j \notin {} \cup c.window => Stored(j)' = Stored(j)
    BY <1>1, <2>2, Removed
  <2>5. CASE j \in c.window
    <3>1. Stored(j) = {}
      BY <2>2, <2>3, <2>5, Family DEF Consistent
    <3> QED BY <2>2, <2>3, <2>4, <2>5, <3>1, Family DEF Consistent
  <2> QED BY <2>2, <2>4, <2>5, Undisturbed
<1>10. CASE RebuildAdds(k)
  <2>1. j \in c.window => c.copy[j] \in {hash[j], "absent"}
    BY <1>4, <1>10 DEF RebuildAdds
  <2>2. /\ Consistent(j) /\ hash' = hash
        /\ unindexed' = unindexed \ {i \in c.window : c.copy[i] # "absent"}
        /\ IndexAdd(c.window, c.copy)
    BY <1>4, <1>5, <1>10 DEF RebuildAdds
  <2>3. /\ j \in c.window => Stored(j)' = Stored(j) \cup Families(j, c.copy[j])
        /\ j \notin c.window => Stored(j)' = Stored(j)
    BY <1>1, <1>3, <2>2, Added
  <2>4. CASE j \in c.window /\ c.copy[j] # "absent"
    <3>1. Stored(j)' = Families(j, hash[j])
      BY <2>1, <2>2, <2>3, <2>4 DEF Consistent
    <3> QED BY <2>2, <3>1 DEF Consistent
  <2>5. CASE ~(j \in c.window /\ c.copy[j] # "absent")
    <3>1. Stored(j)' = Stored(j)
      BY <2>3, <2>5, Family
    <3> QED BY <2>2, <2>5, <3>1, Undisturbed
  <2> QED BY <2>4, <2>5
<1>11. CASE FlushRemoves(k)
  <2> DEFINE q == c.key[1]
  <2>1. q \in Queues /\ (j \in c.window => QueueOf[j] = q)
    BY <1>1, <1>4, <1>11 DEF FlushRemoves, CallsAgree
  <2>2. Consistent(j) /\ unindexed' = unindexed /\ (QueueOf[j] = q /\ hash[j] # "absent" => j \in c.window)
    BY <1>4, <1>5, <1>11 DEF FlushRemoves
  <2>3. /\ hash'[j] = IF j \in c.window THEN "absent" ELSE hash[j]
        /\ \A i \in Key : index'[i] = IF i[1] = q THEN {}
                                     ELSE IF i[1] = Any THEN index[i] \ c.window
                                     ELSE index[i]
    BY <1>11 DEF FlushRemoves
  <2>4. q # Any /\ QueueOf[j] # Any
    BY <2>1, IndexAssumption
  <2>5. \A i \in Stored(j) : i \in Key /\ i[1] \in {QueueOf[j], Any}
    BY <1>2, <2>2, Family DEF Consistent, Stored
  <2>6. CASE j \in c.window
    <3>1. Stored(j)' = {}
      BY <2>1, <2>3, <2>5, <2>6 DEF Stored
    <3> QED BY <2>3, <2>6, <3>1, Family DEF Consistent
  <2>7. CASE j \notin c.window /\ hash[j] = "absent"
    <3>1. Stored(j) = {}
      BY <2>2, <2>7, Family DEF Consistent
    <3>2. Stored(j)' = {}
      BY <2>3, <3>1 DEF Stored
    <3> QED BY <2>3, <2>7, <3>2, Family DEF Consistent
  <2>8. CASE j \notin c.window /\ QueueOf[j] # q
    <3>1. \A i \in Stored(j) : j \in index'[i]
      BY <2>3, <2>4, <2>5, <2>8 DEF Stored
    <3>2. \A i \in Key : j \in index'[i] => j \in index[i]
      BY <2>3
    <3>3. Stored(j)' = Stored(j)
      BY <2>5, <3>1, <3>2 DEF Stored
    <3> QED BY <2>2, <2>3, <2>8, <3>3, Undisturbed
  <2> QED BY <2>2, <2>6, <2>7, <2>8
<1>12. CASE DeleteRemoves(k)
  <2> DEFINE live == c.window \ Orphans(c)
  <2>1. live \in SUBSET Jobs /\ Orphans(c) \in SUBSET Jobs
    BY <1>3 DEF Orphans
  <2>2. j \in live \cup Orphans(c) => hash[j] \in {c.copy[j], "absent"}
    BY <1>4, <1>12 DEF DeleteRemoves, OutOfDate, Orphans
  <2>3. \A i \in Orphans(c) : c.copy[i] = "absent"
    BY DEF Orphans
  <2>4. Consistent(j) /\ unindexed' = unindexed
        /\ IndexRemove(live, c.copy, Orphans(c), OrphanKeys(Any))
    BY <1>4, <1>5, <1>12 DEF DeleteRemoves
  <2>5. hash'[j] = IF j \in live THEN "absent" ELSE hash[j]
    BY <1>6, <1>12 DEF DeleteRemoves
  <2> HIDE DEF c, live
  <2> QED BY <1>1, <1>3, <2>1, <2>2, <2>3, <2>4, <2>5, Removes_Consistent
<1>13. ASSUME NEW i \in Jobs, RetryReleases(k, i)
       PROVE  Consistent(j)'
  <2>1. Consistent(j) /\ unindexed' = unindexed /\ (j = i => hash[j] = c.copy[j])
    BY <1>4, <1>5, <1>13 DEF RetryReleases
  <2>2. c.copy[i] \in Statuses
    BY <1>1, <1>3, <1>13 DEF RetryReleases, CallsAgree
  <2>3. "pending" \in Statuses
    BY DEF Statuses, Live
  <2>4. /\ j # i => Stored(j)' = Stored(j)
        /\ Stored(i) \subseteq Families(i, c.copy[i]) => Stored(i)' \subseteq Families(i, "pending")
        /\ Stored(i) = Families(i, c.copy[i]) => Stored(i)' = Families(i, "pending")
    BY <1>1, <1>13, <2>2, <2>3, Changed DEF RetryReleases
  <2>5. hash'[j] = (IF j = i THEN "pending" ELSE hash[j])
    BY <1>2, <1>13 DEF RetryReleases
  <2> QED BY <2>1, <2>4, <2>5 DEF Consistent
<1> QED BY <1>7, <1>8, <1>9, <1>10, <1>11, <1>12, <1>13
     DEF KeeperStep, Stays, BeginDrain, ReadWindow, ReadHashes, BeginWalk, WalkReads, Connect,
         RebuildReads, Crash, FlushReads, DeleteReads, RetryReads, RetryCopies, RetryEnds

\* Which step takes a keeper to the second half of a flush or a retry.
LEMMA KeeperStep_Moves ==
    ASSUME TypeOK, NEW k \in Keepers, KeeperStep(k)
    PROVE  /\ \A m \in Keepers \ {k} : keeper'[m] = keeper[m]
           /\ In(k, "flush", "write")' => \E q \in Queues : FlushReads(k, q)
           /\ In(k, "retry", "write")' => RetryCopies(k) \/ \E j \in Jobs : RetryReleases(k, j)
<1> DEFINE c == keeper[k]
<1>1. c \in CallState
  BY DEF TypeOK
<1>2. ASSUME NEW d, Goes(k, d)
      PROVE  (\A m \in Keepers \ {k} : keeper'[m] = keeper[m]) /\ keeper'[k] = d
  BY <1>2 DEF Goes, TypeOK
<1>3. ASSUME Returns(k)
      PROVE  (\A m \in Keepers \ {k} : keeper'[m] = keeper[m]) /\ keeper'[k].call = "none"
  BY <1>2, <1>3 DEF Returns, NoCall
<1>4. Copies(k, c.window).call = c.call
  BY <1>1 DEF Copies, CallState
<1>5. \A d : d \in CallState => NextWindow(d).call = d.call
  BY DEF NextWindow, CallState
<1> DEFINE Goal == /\ \A m \in Keepers \ {k} : keeper'[m] = keeper[m]
                   /\ keeper'[k].call \notin {"flush", "retry"}
<1>6. ASSUME NEW d \in CallState, d.call = "drain", Continues(k, d)
      PROVE  Goal
  BY <1>2, <1>3, <1>5, <1>6 DEF Continues
<1>7. ASSUME NEW d \in CallState, d.call = "walk", Walks(k, d)
      PROVE  Goal
  <2>1. [d EXCEPT !.at = "read", !.window = {}].call = "walk"
    BY <1>7 DEF CallState
  <2> QED BY <1>2, <1>3, <1>7, <2>1 DEF Walks
<1>8. ASSUME NEW x, NEW y, BeginDrain(k, x, y)
      PROVE  Goal
  <2> DEFINE d == [NoCall EXCEPT !.call = "drain", !.at = "read", !.key = x, !.selection = y]
  <2>1. d.call = "drain"
    BY DEF NoCall
  <2>2. Goes(k, d)
    BY <1>8 DEF BeginDrain
  <2> HIDE DEF d
  <2> QED BY <1>2, <2>1, <2>2
<1>9. CASE ReadWindow(k)
  <2> DEFINE d == [c EXCEPT !.at = "copy", !.window = Window(c.key, c.offset)]
  <2>1. d.call = c.call /\ c.call = "drain"
    BY <1>1, <1>9 DEF CallState, ReadWindow, In
  <2>2. Returns(k) \/ Goes(k, d)
    BY <1>9 DEF ReadWindow
  <2> HIDE DEF d
  <2>3. Goal
    BY <1>2, <1>3, <2>1, <2>2
  <2> QED BY <2>3 DEF In
<1>10. CASE ReadHashes(k)
  <2>1. Copies(k, c.window) \in CallState
    BY <1>1, Copies_Type DEF CallState
  <2>2. c.call = "drain"
    BY <1>10 DEF ReadHashes, In
  <2> DEFINE d == Copies(k, c.window)
  <2>3. Continues(k, d) \/ Goes(k, d)
    BY <1>10 DEF ReadHashes
  <2>4. d \in CallState /\ d.call = "drain"
    BY <1>4, <2>1, <2>2
  <2> HIDE DEF d
  <2> QED BY <1>2, <1>6, <2>3, <2>4 DEF In
<1>11. CASE WriteWindow(k)
  BY <1>1, <1>6, <1>11 DEF WriteWindow, In
<1>12. ASSUME NEW key, BeginWalk(k, key)
       PROVE  Goal
  <2> DEFINE d == [NoCall EXCEPT !.call = "walk", !.at = "read", !.key = key, !.todo = index[key]]
  <2>1. d.call = "walk"
    BY DEF NoCall
  <2>2. Goes(k, d)
    BY <1>12 DEF BeginWalk
  <2> HIDE DEF d
  <2> QED BY <1>2, <2>1, <2>2
<1>13. ASSUME NEW ids \in SUBSET Jobs, WalkReads(k, ids)
       PROVE  Goal
  <2> DEFINE d == [c EXCEPT !.at = "write", !.window = Stale(ids), !.todo = @ \ ids]
  <2>1. d \in CallState /\ d.call = c.call
    BY <1>1 DEF CallState, Stale
  <2>2. Walks(k, d) \/ Goes(k, d)
    BY <1>13 DEF WalkReads
  <2>3. c.call = "walk"
    BY <1>13 DEF WalkReads, In
  <2> HIDE DEF d
  <2> QED BY <1>2, <1>7, <2>1, <2>2, <2>3
<1>14. CASE WalkRemoves(k)
  BY <1>1, <1>7, <1>14 DEF WalkRemoves, In
<1>15. CASE Connect(k)
  <2>1. \A x : [NoCall EXCEPT !.call = "rebuild", !.at = "read", !.todo = x].call = "rebuild"
    BY DEF NoCall
  <2>2. keeper[k].call = "flush" => ~In(k, "flush", "write")
    BY <1>15 DEF Connect, In, Resting
  <2>3. keeper[k].call = "retry" => ~In(k, "retry", "write")
    BY <1>15 DEF Connect, In, Resting
  <2> QED BY <1>2, <1>15, <2>1, <2>2, <2>3 DEF Connect, In
<1>16. ASSUME NEW ids \in SUBSET Jobs, RebuildReads(k, ids)
       PROVE  Goal
  <2> DEFINE d == [Copies(k, ids) EXCEPT !.todo = @ \ ids]
  <2>1. d.call = c.call /\ c.call = "rebuild"
    BY <1>1, <1>16 DEF CallState, Copies, RebuildReads, In
  <2>2. Goes(k, d)
    BY <1>16 DEF RebuildReads
  <2> HIDE DEF d
  <2> QED BY <1>2, <2>1, <2>2
<1>17. CASE RebuildAdds(k)
  <2> DEFINE d == [c EXCEPT !.at = "read", !.window = {}, !.copy = NoCall.copy]
  <2>1. d.call = "rebuild"
    BY <1>1, <1>17 DEF CallState, RebuildAdds, In
  <2>2. Returns(k) \/ Goes(k, d)
    BY <1>17 DEF RebuildAdds
  <2> HIDE DEF d
  <2> QED BY <1>2, <1>3, <2>1, <2>2 DEF In
<1>18. ASSUME NEW ids \in Deletions, DeleteReads(k, ids)
       PROVE  Goal
  <2> DEFINE d == [Copies(k, ids) EXCEPT !.call = "delete"]
  <2>1. d.call = "delete"
    BY <1>1 DEF CallState, Copies
  <2>2. Goes(k, d)
    BY <1>18 DEF DeleteReads
  <2> HIDE DEF d
  <2> QED BY <1>2, <2>1, <2>2
<1>19. CASE Crash(k) \/ FlushRemoves(k) \/ DeleteRemoves(k) \/ RetryEnds(k)
  <2>1. Returns(k)
    BY <1>19 DEF Crash, FlushRemoves, DeleteRemoves, RetryEnds
  <2> QED BY <1>3, <2>1 DEF In
<1>20. ASSUME NEW q \in Queues, FlushReads(k, q)
       PROVE  (\A m \in Keepers \ {k} : keeper'[m] = keeper[m]) /\ keeper'[k].call = "flush"
  <2> DEFINE key == <<q, Any>>
  <2> DEFINE d == [NoCall EXCEPT !.call = "flush", !.at = "write", !.key = key,
                                 !.window = index[key]]
  <2>1. d.call = "flush"
    BY DEF NoCall
  <2>2. Goes(k, d)
    BY <1>20 DEF FlushReads
  <2> HIDE DEF d
  <2> QED BY <1>2, <2>1, <2>2
<1>21. CASE RetryReads(k)
  <2> DEFINE d == [NoCall EXCEPT !.call = "retry", !.at = "copy",
                                 !.window = index[<<Any, "failed">>]]
  <2>1. d.at = "copy" /\ d.call = "retry"
    BY DEF NoCall
  <2>2. Goes(k, d)
    BY <1>21 DEF RetryReads
  <2> HIDE DEF d
  <2>3. (\A m \in Keepers \ {k} : keeper'[m] = keeper[m]) /\ keeper'[k] = d
    BY <1>2, <2>2
  <2> QED BY <2>1, <2>3 DEF In
<1>22. CASE RetryCopies(k)
  <2> DEFINE b == Copies(k, c.window)
             d == [b EXCEPT !.window = @ \ Orphans(b)]
  <2>1. d.call = c.call /\ c.call = "retry"
    BY <1>1, <1>22 DEF CallState, Copies, RetryCopies, In
  <2>2. Goes(k, d)
    BY <1>22 DEF RetryCopies
  <2> HIDE DEF d
  <2> QED BY <1>2, <1>22, <2>1, <2>2 DEF In
<1>23. ASSUME NEW j \in Jobs, RetryReleases(k, j)
       PROVE  (\A m \in Keepers \ {k} : keeper'[m] = keeper[m]) /\ keeper'[k].call = "retry"
  <2> DEFINE d == [c EXCEPT !.window = @ \ {j}, !.copy[j] = "absent"]
  <2>1. d.call = c.call /\ c.call = "retry"
    BY <1>1, <1>23 DEF CallState, RetryReleases, In
  <2>2. Goes(k, d)
    BY <1>23 DEF RetryReleases
  <2> HIDE DEF d
  <2> QED BY <1>2, <2>1, <2>2
<1> QED BY <1>8, <1>9, <1>10, <1>11, <1>12, <1>13, <1>14, <1>15, <1>16, <1>17, <1>18, <1>19,
           <1>20, <1>21, <1>22, <1>23 DEF KeeperStep, In

\* A job that was not pushed yet stays without a hash until it is.
LEMMA Fresh_Kept ==
    ASSUME DriftInv, Next, NEW j \in fresh' \ clobbered'
    PROVE  hash'[j] = "absent" /\ j \notin unindexed'
<1>1. TypeOK
  BY DEF DriftInv
<1>2. fresh' \subseteq fresh /\ clobbered \subseteq clobbered'
  <2>1. ASSUME NEW i \in Jobs, JobStep(i) PROVE fresh' \subseteq fresh /\ clobbered \subseteq clobbered'
    BY <2>1 DEF JobStep, Push, Claim, RequeueStuck, Finish, Alone, Clobbers
  <2>2. ASSUME NEW k \in Keepers, KeeperStep(k)
        PROVE  fresh' \subseteq fresh /\ clobbered \subseteq clobbered'
    <3>1. CASE UNCHANGED <<fresh, clobbered>>
      BY <3>1
    <3>2. CASE \/ WriteWindow(k) \/ WalkRemoves(k) \/ RebuildAdds(k) \/ FlushRemoves(k)
               \/ DeleteRemoves(k) \/ \E i \in Jobs : RetryReleases(k, i)
      BY <3>2 DEF WriteWindow, WalkRemoves, RebuildAdds, FlushRemoves, DeleteRemoves,
                  RetryReleases, Removes, Clobbers
    <3> QED BY <2>2, <3>1, <3>2
         DEF KeeperStep, Stays, hashVars, BeginDrain, ReadWindow, ReadHashes, BeginWalk, WalkReads,
             Connect, RebuildReads, Crash, FlushReads, DeleteReads, RetryReads, RetryCopies, RetryEnds
  <2> QED BY <2>1, <2>2, Next_Steps
<1>3. j \in fresh /\ j \in Jobs /\ j \notin clobbered
  BY <1>1, <1>2 DEF TypeOK
<1>4. hash[j] = "absent" /\ j \notin unindexed
  BY <1>3 DEF DriftInv, CallsAgree
<1>5. ASSUME NEW i \in Jobs, JobStep(i)
      PROVE  hash'[j] = "absent" /\ unindexed' = unindexed
  <2>1. CASE Push(i)
    <3>1. j # i
      BY <1>1, <2>1 DEF Push, TypeOK
    <3> QED BY <1>1, <1>4, <2>1, <3>1 DEF Push, Alone, TypeOK
  <2>2. CASE Claim(i)
    BY <1>1, <1>4, <2>2 DEF Claim, Alone, TypeOK
  <2>3. CASE RequeueStuck(i)
    BY <1>1, <1>4, <2>3 DEF RequeueStuck, Alone, TypeOK
  <2>4. ASSUME NEW status, Finish(i, status)
        PROVE  hash'[j] = "absent" /\ unindexed' = unindexed
    <3>1. j # i
      BY <1>4, <2>4 DEF Finish, Clobbers
    <3> QED BY <1>1, <1>4, <2>4, <3>1 DEF Finish, Alone, TypeOK
  <2> QED BY <1>5, <2>1, <2>2, <2>3, <2>4 DEF JobStep
<1>6. ASSUME NEW k \in Keepers, KeeperStep(k)
      PROVE  hash'[j] = "absent" /\ unindexed' \subseteq unindexed
  <2>1. CASE UNCHANGED <<hash, unindexed>>
    BY <1>4, <2>1
  <2>2. CASE WriteWindow(k) \/ DeleteRemoves(k) \/ WalkRemoves(k) \/ RebuildAdds(k) \/ FlushRemoves(k)
    BY <1>3, <1>4, <2>2 DEF WriteWindow, DeleteRemoves, Removes, WalkRemoves, RebuildAdds, FlushRemoves
  <2>3. ASSUME NEW i \in Jobs, RetryReleases(k, i)
        PROVE  hash'[j] = "absent" /\ unindexed' \subseteq unindexed
    <3>1. j # i
      BY <1>2, <1>4, <2>3 DEF RetryReleases, Clobbers, DriftInv, CallsAgree
    <3> QED BY <1>1, <1>4, <2>3, <3>1 DEF RetryReleases, TypeOK
  <2> QED BY <1>6, <2>1, <2>2, <2>3
       DEF KeeperStep, Stays, hashVars, BeginDrain, ReadWindow, ReadHashes, BeginWalk, WalkReads,
           Connect, RebuildReads, Crash, FlushReads, DeleteReads, RetryReads, RetryCopies, RetryEnds
<1> QED BY <1>4, <1>5, <1>6, Next_Steps

LEMMA Clobbered_Grows ==
    ASSUME Next
    PROVE  clobbered \subseteq clobbered'
BY Next_Steps DEF JobStep, Push, Claim, RequeueStuck, Finish, Clobbers, KeeperStep, Stays, hashVars,
    BeginDrain, ReadWindow, ReadHashes, WriteWindow, BeginWalk, WalkReads, WalkRemoves, Connect,
    RebuildReads, RebuildAdds, Crash, FlushReads, FlushRemoves, DeleteReads, DeleteRemoves,
    RetryReads, RetryCopies, RetryReleases, RetryEnds

\* A flush at its second step names jobs of its queue.
LEMMA Flush_Kept ==
    ASSUME DriftInv, Next, NEW k \in Keepers, In(k, "flush", "write")'
    PROVE  /\ keeper'[k].key[1] \in Queues
           /\ \A j \in keeper'[k].window \ clobbered' : QueueOf[j] = keeper'[k].key[1]
<1>1. TypeOK
  BY DEF DriftInv
<1>2. CASE keeper'[k] = keeper[k]
  BY <1>2, Clobbered_Grows DEF In, DriftInv, CallsAgree
<1>3. ASSUME NEW q \in Queues, FlushReads(k, q)
      PROVE  /\ keeper'[k].key[1] \in Queues
             /\ \A j \in keeper'[k].window \ clobbered' : QueueOf[j] = keeper'[k].key[1]
  <2> DEFINE key == <<q, Any>>
  <2>1. keeper'[k] = [NoCall EXCEPT !.call = "flush", !.at = "write", !.key = key,
                                    !.window = index[key]]
    BY <1>1, <1>3 DEF FlushReads, Goes, TypeOK
  <2>2. keeper'[k].key = key /\ keeper'[k].window = index[key]
    BY <2>1 DEF NoCall
  <2>3. ASSUME NEW j \in index[key], j \notin clobbered
        PROVE  QueueOf[j] = q
    <3>1. key \in Key /\ j \in Jobs
      BY <1>1, <2>3, Keys DEF TypeOK
    <3>2. key \in Stored(j) /\ Stored(j) \subseteq Families(j, hash[j])
      BY <2>3, <3>1 DEF Stored, DriftInv, NoSilentDrift, Consistent
    <3>3. hash[j] \in Statuses \cup {"absent"}
      BY <1>1, <3>1 DEF TypeOK
    <3>4. key \in {QueueOf[j], Any} \X {hash[j], Any}
      BY <3>1, <3>2, <3>3, Family
    <3> QED BY <3>4, IndexAssumption
  <2> QED BY <2>2, <2>3, Clobbered_Grows
<1>4. ASSUME NEW i \in Jobs, JobStep(i)
      PROVE  keeper'[k] = keeper[k]
  BY <1>4 DEF JobStep, Push, Claim, RequeueStuck, Finish, Alone
<1>5. ASSUME NEW m \in Keepers, KeeperStep(m)
      PROVE  keeper'[k] = keeper[k] \/ \E q \in Queues : FlushReads(k, q)
  BY <1>1, <1>5, KeeperStep_Moves
<1> QED BY <1>2, <1>3, <1>4, <1>5, Next_Steps

\* A manual retry at its releases names jobs that had a hash.
LEMMA Retry_Kept ==
    ASSUME DriftInv, Next, NEW k \in Keepers, In(k, "retry", "write")'
    PROVE  \A j \in keeper'[k].window : keeper'[k].copy[j] # "absent"
<1>1. TypeOK /\ keeper[k] \in CallState
  BY DEF DriftInv, TypeOK
<1>2. CASE keeper'[k] = keeper[k]
  BY <1>2 DEF In, DriftInv, CallsAgree
<1>3. CASE RetryCopies(k)
  <2> DEFINE b == Copies(k, keeper[k].window)
  <2>1. b \in CallState
    BY <1>1, Copies_Type DEF CallState
  <2>2. keeper'[k] = [b EXCEPT !.window = @ \ Orphans(b)]
    BY <1>1, <1>3 DEF RetryCopies, Goes, TypeOK
  <2> HIDE DEF b
  <2>3. keeper'[k].window = b.window \ Orphans(b) /\ keeper'[k].copy = b.copy
    BY <2>1, <2>2 DEF CallState
  <2> QED BY <2>3 DEF Orphans
<1>4. ASSUME NEW i \in Jobs, RetryReleases(k, i)
      PROVE  \A j \in keeper'[k].window : keeper'[k].copy[j] # "absent"
  <2> DEFINE c == keeper[k]
  <2>1. keeper'[k] = [c EXCEPT !.window = @ \ {i}, !.copy[i] = "absent"]
    BY <1>1, <1>4 DEF RetryReleases, Goes, TypeOK
  <2>2. keeper'[k].window = c.window \ {i} /\ keeper'[k].copy = [c.copy EXCEPT ![i] = "absent"]
    BY <1>1, <2>1 DEF CallState
  <2>3. \A j \in c.window : c.copy[j] # "absent"
    BY <1>4 DEF RetryReleases, DriftInv, CallsAgree
  <2>4. c.window \subseteq Jobs /\ c.copy \in [Jobs -> Statuses \cup {"absent"}]
    BY <1>1 DEF CallState
  <2> QED BY <2>2, <2>3, <2>4
<1>5. ASSUME NEW i \in Jobs, JobStep(i)
      PROVE  keeper'[k] = keeper[k]
  BY <1>5 DEF JobStep, Push, Claim, RequeueStuck, Finish, Alone
<1>6. ASSUME NEW m \in Keepers, KeeperStep(m)
      PROVE  keeper'[k] = keeper[k] \/ RetryCopies(k) \/ \E j \in Jobs : RetryReleases(k, j)
  BY <1>1, <1>6, KeeperStep_Moves
<1> QED BY <1>2, <1>3, <1>4, <1>5, <1>6, Next_Steps

LEMMA Init_Drift ==
    ASSUME Init
    PROVE  DriftInv
<1>1. TypeOK
  BY Init_Type
<1>2. \A j \in Jobs : Consistent(j)
  <2> SUFFICES ASSUME NEW j \in Jobs PROVE Consistent(j)
    OBVIOUS
  <2>1. Stored(j) = {} /\ (j \notin unindexed => hash[j] = "absent")
    BY DEF Init, Stored
  <2> QED BY <2>1, Family DEF Consistent
<1>3. CallsAgree
  BY DEF Init, CallsAgree, In, NoCall
<1> QED BY <1>1, <1>2, <1>3 DEF DriftInv, NoSilentDrift

LEMMA Next_Drift ==
    ASSUME DriftInv, Next
    PROVE  DriftInv'
<1>1. TypeOK'
  BY Next_Type DEF DriftInv
<1>2. NoSilentDrift'
  BY Next_Steps, JobStep_Consistent, KeeperStep_Consistent DEF NoSilentDrift
<1>3. CallsAgree'
  BY Flush_Kept, Retry_Kept, Fresh_Kept DEF CallsAgree
<1> QED BY <1>1, <1>2, <1>3 DEF DriftInv

LEMMA Stutter_Drift ==
    ASSUME DriftInv, UNCHANGED vars
    PROVE  DriftInv'
BY Stutter_Type DEF DriftInv, NoSilentDrift, Consistent, Stored, CallsAgree, In, vars, hashVars,
                    historyVars

\* What NoSilentDrift needs beside itself.
THEOREM DriftInvariant == Spec => []DriftInv
<1>1. Init => DriftInv
  BY Init_Drift
<1>2. DriftInv /\ [Next]_vars => DriftInv'
  BY Next_Drift, Stutter_Drift
<1> QED BY <1>1, <1>2, PTL DEF Spec

\* The index entries of a job are those its hash asks for, whatever calls are
\* under way, for all jobs no call wrote from an out-of-date copy: the pipelines
\* of redis_driver.py get no other entry wrong.  (A pending job's place in its
\* ready list is another matter: see module RedisDriver.)
THEOREM IndexesDriftOnlyByStaleCopies == Spec => []NoSilentDrift
<1>1. DriftInv => NoSilentDrift
  BY DEF DriftInv
<1> QED BY <1>1, DriftInvariant, PTL

-----------------------------------------------------------------------------
(* Which steps a call takes *)

DrainStep(k) ==
    \/ \E d \in Drains[k] : BeginDrain(k, d.key, d.selection)
    \/ ReadWindow(k) \/ ReadHashes(k) \/ WriteWindow(k)

WalkStep(k) ==
    \/ \E key \in WalkKeys : BeginWalk(k, key)
    \/ \E ids \in SUBSET Jobs : WalkReads(k, ids)
    \/ WalkRemoves(k)

RebuildStep(k) ==
    \/ Connect(k)
    \/ \E ids \in SUBSET Jobs : RebuildReads(k, ids)
    \/ RebuildAdds(k) \/ Crash(k)

OtherStep(k) ==
    \/ \E q \in Queues : FlushReads(k, q)
    \/ FlushRemoves(k)
    \/ \E ids \in Deletions : DeleteReads(k, ids)
    \/ DeleteRemoves(k) \/ RetryReads(k) \/ RetryCopies(k)
    \/ \E j \in Jobs : RetryReleases(k, j)
    \/ RetryEnds(k)

LEMMA KeeperStep_Kinds ==
    ASSUME NEW k \in Keepers, KeeperStep(k)
    PROVE  DrainStep(k) \/ WalkStep(k) \/ RebuildStep(k) \/ OtherStep(k)
BY DEF KeeperStep, DrainStep, WalkStep, RebuildStep, OtherStep

LEMMA Goes_To ==
    ASSUME TypeOK, NEW k \in Keepers, NEW c, Goes(k, c)
    PROVE  keeper'[k] = c /\ \A m \in Keepers \ {k} : keeper'[m] = keeper[m]
BY DEF Goes, TypeOK

LEMMA Returns_To ==
    ASSUME TypeOK, NEW k \in Keepers, Returns(k)
    PROVE  /\ keeper'[k] = NoCall /\ keeper'[k].call = "none" /\ keeper'[k].at = Resting
           /\ \A m \in Keepers \ {k} : keeper'[m] = keeper[m]
BY Goes_To DEF Returns, NoCall

\* A keeper that is not resting goes on in its own call.
LEMMA Going_On ==
    ASSUME NEW k \in Keepers, KeeperStep(k), keeper[k].at # Resting
    PROVE  /\ keeper[k].call = "drain" => ReadWindow(k) \/ ReadHashes(k) \/ WriteWindow(k)
           /\ keeper[k].call = "walk" =>
                 (\E ids \in SUBSET Jobs : WalkReads(k, ids)) \/ WalkRemoves(k)
           /\ keeper[k].call = "rebuild" =>
                 \/ \E ids \in SUBSET Jobs : RebuildReads(k, ids)
                 \/ RebuildAdds(k) \/ Crash(k)
BY DEF KeeperStep, BeginDrain, BeginWalk, WalkReads, WalkRemoves, Connect, RebuildReads, RebuildAdds,
       Crash, FlushReads, FlushRemoves, DeleteReads, DeleteRemoves, RetryReads, RetryCopies,
       RetryReleases, RetryEnds, ReadWindow, ReadHashes, WriteWindow, May, In

LEMMA Job_Leaves_Calls ==
    ASSUME NEW j \in Jobs, JobStep(j)
    PROVE  UNCHANGED <<keeper, serving, unindexed, cut>>
BY DEF JobStep, Push, Claim, RequeueStuck, Finish, Alone

-----------------------------------------------------------------------------
(* Rebuilds *)

Rebuilding(k) == keeper[k].call = "rebuild"

\* Jobs of the old version that are still to be indexed.
Remaining == {j \in unindexed \ clobbered : hash[j] # "absent"}

\* A rebuild has all of them before it, or in the batch it is about to add.
Covers(c) ==
    \A j \in Remaining :
        j \in c.todo \/ (c.at = "write" /\ j \in c.window /\ c.copy[j] # "absent")

RebuildInv ==
    /\ \A k \in Keepers :
          Rebuilding(k) => keeper[k].at \in {"read", "write"} /\ Covers(keeper[k])
    /\ (/\ ~cut /\ (serving \/ index[AllKey] # {})
        /\ \A k \in Keepers : ~Rebuilding(k)) => Remaining = {}

\* No call brings back the hash of a job of the old version.
LEMMA Remaining_Shrinks ==
    ASSUME DriftInv, Next
    PROVE  Remaining' \subseteq Remaining
<1> SUFFICES ASSUME NEW j, j \in unindexed', j \notin clobbered', hash'[j] # "absent"
             PROVE  j \in unindexed /\ j \notin clobbered /\ hash[j] # "absent"
  BY DEF Remaining
<1>1. TypeOK
  BY DEF DriftInv
<1>2. j \notin clobbered
  BY Clobbered_Grows
<1>3. ASSUME NEW i \in Jobs, JobStep(i)
      PROVE  j \in unindexed /\ hash[j] # "absent"
  <2>0. j \in unindexed /\ j \in Jobs
    BY <1>1, <1>3, Job_Leaves_Calls DEF TypeOK
  <2>1. CASE Push(i)
    <3>1. j # i
      BY <1>2, <2>0, <2>1 DEF Push, DriftInv, CallsAgree
    <3> QED BY <1>1, <2>0, <2>1, <3>1 DEF Push, TypeOK
  <2>2. CASE Claim(i)
    BY <1>1, <2>0, <2>2 DEF Claim, TypeOK
  <2>3. CASE RequeueStuck(i)
    BY <1>1, <2>0, <2>3 DEF RequeueStuck, TypeOK
  <2>4. ASSUME NEW status, Finish(i, status)
        PROVE  j \in unindexed /\ hash[j] # "absent"
    <3>1. CASE j = i
      BY <1>2, <2>0, <2>4, <3>1 DEF Finish, Clobbers
    <3>2. CASE j # i
      BY <1>1, <2>0, <2>4, <3>2 DEF Finish, TypeOK
    <3> QED BY <3>1, <3>2
  <2> QED BY <1>3, <2>1, <2>2, <2>3, <2>4 DEF JobStep
<1>4. ASSUME NEW k \in Keepers, KeeperStep(k)
      PROVE  j \in unindexed /\ hash[j] # "absent"
  <2>1. CASE UNCHANGED <<hash, unindexed>>
    BY <2>1
  <2>2. CASE WriteWindow(k) \/ DeleteRemoves(k) \/ WalkRemoves(k) \/ RebuildAdds(k) \/ FlushRemoves(k)
    <3>1. j \in unindexed
      BY <2>2 DEF WriteWindow, DeleteRemoves, WalkRemoves, RebuildAdds, FlushRemoves
    <3>2. j \in Jobs
      BY <1>1, <3>1 DEF TypeOK
    <3> QED BY <2>2, <3>1, <3>2
         DEF WriteWindow, DeleteRemoves, Removes, WalkRemoves, RebuildAdds, FlushRemoves
  <2>3. ASSUME NEW i \in Jobs, RetryReleases(k, i)
        PROVE  j \in unindexed /\ hash[j] # "absent"
    <3>1. j \in unindexed /\ j \in Jobs
      BY <1>1, <2>3 DEF RetryReleases, TypeOK
    <3>2. CASE j = i
      <4>1. keeper[k].copy[i] # "absent"
        BY <2>3 DEF RetryReleases, DriftInv, CallsAgree
      <4> QED BY <2>3, <3>1, <3>2, <4>1 DEF RetryReleases, Clobbers
    <3>3. CASE j # i
      BY <1>1, <2>3, <3>1, <3>3 DEF RetryReleases, TypeOK
    <3> QED BY <3>2, <3>3
  <2> QED BY <1>4, <2>1, <2>2, <2>3
       DEF KeeperStep, Stays, hashVars, BeginDrain, ReadWindow, ReadHashes, BeginWalk, WalkReads,
           Connect, RebuildReads, Crash, FlushReads, DeleteReads, RetryReads, RetryCopies, RetryEnds
<1> QED BY <1>2, <1>3, <1>4, Next_Steps

LEMMA Init_Rebuild ==
    ASSUME Init
    PROVE  RebuildInv
<1>1. \A k \in Keepers : ~Rebuilding(k)
  BY DEF Init, Rebuilding, NoCall
<1>2. ~serving /\ index[AllKey] = {}
  BY Keys DEF Init
<1> QED BY <1>1, <1>2 DEF RebuildInv

\* The call a keeper is in after a step of it.
LEMMA Call_After ==
    ASSUME TypeOK, NEW k \in Keepers, KeeperStep(k)
    PROVE  /\ DrainStep(k) => keeper'[k].call = "drain" \/ keeper'[k] = NoCall
           /\ WalkStep(k) => keeper'[k].call = "walk" \/ keeper'[k] = NoCall
           /\ RebuildStep(k) =>
                 keeper'[k] = keeper[k] \/ keeper'[k].call \in {"rebuild", "none"}
           /\ OtherStep(k) => keeper'[k].call \in {"flush", "delete", "retry", "none"}
<1> DEFINE c == keeper[k]
<1>1. c \in CallState
  BY DEF TypeOK
<1>2. ASSUME DrainStep(k) PROVE keeper'[k].call = "drain" \/ keeper'[k] = NoCall
  <2>1. ASSUME NEW d, BeginDrain(k, d.key, d.selection) PROVE keeper'[k].call = "drain" \/ keeper'[k] = NoCall
    <3> DEFINE e == [NoCall EXCEPT !.call = "drain", !.at = "read", !.key = d.key,
                                   !.selection = d.selection]
    <3>1. e.call = "drain"
      BY DEF NoCall
    <3>2. Goes(k, e)
      BY <2>1 DEF BeginDrain
    <3> HIDE DEF e
    <3> QED BY <3>1, <3>2, Goes_To
  <2>2. ASSUME NEW d \in CallState, d.call = "drain", Continues(k, d) PROVE keeper'[k].call = "drain" \/ keeper'[k] = NoCall
    <3>1. NextWindow(d).call = "drain"
      BY <2>2 DEF NextWindow, CallState
    <3>2. Returns(k) \/ Goes(k, NextWindow(d))
      BY <2>2 DEF Continues
    <3> QED BY <3>1, <3>2, Goes_To, Returns_To
  <2>3. CASE ReadWindow(k)
    <3> DEFINE e == [c EXCEPT !.at = "copy", !.window = Window(c.key, c.offset)]
    <3>1. e.call = "drain"
      BY <1>1, <2>3 DEF ReadWindow, In, CallState
    <3>2. Returns(k) \/ Goes(k, e)
      BY <2>3 DEF ReadWindow
    <3> HIDE DEF e
    <3> QED BY <3>1, <3>2, Goes_To, Returns_To
  <2>4. CASE ReadHashes(k)
    <3> DEFINE e == Copies(k, c.window)
    <3>1. e \in CallState /\ e.call = "drain"
      BY <1>1, <2>4, Copies_Type DEF ReadHashes, In, CallState, Copies
    <3>2. Continues(k, e) \/ Goes(k, e)
      BY <2>4 DEF ReadHashes
    <3> HIDE DEF e
    <3> QED BY <2>2, <3>1, <3>2, Goes_To
  <2>5. CASE WriteWindow(k)
    BY <1>1, <2>2, <2>5 DEF WriteWindow, In
  <2> QED BY <1>2, <2>1, <2>3, <2>4, <2>5 DEF DrainStep
<1>3. ASSUME WalkStep(k) PROVE keeper'[k].call = "walk" \/ keeper'[k] = NoCall
  <2>1. ASSUME NEW key, BeginWalk(k, key) PROVE keeper'[k].call = "walk" \/ keeper'[k] = NoCall
    <3> DEFINE e == [NoCall EXCEPT !.call = "walk", !.at = "read", !.key = key, !.todo = index[key]]
    <3>1. e.call = "walk"
      BY DEF NoCall
    <3>2. Goes(k, e)
      BY <2>1 DEF BeginWalk
    <3> HIDE DEF e
    <3> QED BY <3>1, <3>2, Goes_To
  <2>2. ASSUME NEW d \in CallState, d.call = "walk", Walks(k, d) PROVE keeper'[k].call = "walk" \/ keeper'[k] = NoCall
    <3> DEFINE e == [d EXCEPT !.at = "read", !.window = {}]
    <3>1. e.call = "walk"
      BY <2>2 DEF CallState
    <3>2. Returns(k) \/ Goes(k, e)
      BY <2>2 DEF Walks
    <3> HIDE DEF e
    <3> QED BY <3>1, <3>2, Goes_To, Returns_To
  <2>3. ASSUME NEW ids \in SUBSET Jobs, WalkReads(k, ids) PROVE keeper'[k].call = "walk" \/ keeper'[k] = NoCall
    <3> DEFINE e == [c EXCEPT !.at = "write", !.window = Stale(ids), !.todo = @ \ ids]
    <3>1. e \in CallState /\ e.call = "walk"
      BY <1>1, <2>3 DEF WalkReads, In, CallState, Stale
    <3>2. Walks(k, e) \/ Goes(k, e)
      BY <2>3 DEF WalkReads
    <3> HIDE DEF e
    <3> QED BY <2>2, <3>1, <3>2, Goes_To
  <2>4. CASE WalkRemoves(k)
    BY <1>1, <2>2, <2>4 DEF WalkRemoves, In
  <2> QED BY <1>3, <2>1, <2>3, <2>4 DEF WalkStep
<1>4. ASSUME RebuildStep(k), keeper'[k] # keeper[k]
      PROVE  keeper'[k].call \in {"rebuild", "none"}
  <2>1. CASE Connect(k)
    <3> DEFINE e == [NoCall EXCEPT !.call = "rebuild", !.at = "read", !.todo = Present]
    <3>1. e.call = "rebuild"
      BY DEF NoCall
    <3>2. Goes(k, e)
      BY <1>4, <2>1 DEF Connect
    <3> HIDE DEF e
    <3> QED BY <3>1, <3>2, Goes_To
  <2>2. ASSUME NEW ids \in SUBSET Jobs, RebuildReads(k, ids)
        PROVE  keeper'[k].call = "rebuild"
    <3> DEFINE e == [Copies(k, ids) EXCEPT !.todo = @ \ ids]
    <3>1. e.call = "rebuild"
      BY <1>1, <2>2 DEF Copies, CallState, RebuildReads, In
    <3>2. Goes(k, e)
      BY <2>2 DEF RebuildReads
    <3> HIDE DEF e
    <3> QED BY <3>1, <3>2, Goes_To
  <2>3. CASE RebuildAdds(k)
    <3> DEFINE e == [c EXCEPT !.at = "read", !.window = {}, !.copy = NoCall.copy]
    <3>1. e.call = "rebuild"
      BY <1>1, <2>3 DEF CallState, RebuildAdds, In
    <3>2. Returns(k) \/ Goes(k, e)
      BY <2>3 DEF RebuildAdds
    <3> HIDE DEF e
    <3> QED BY <3>1, <3>2, Goes_To, Returns_To
  <2>4. CASE Crash(k)
    BY <2>4, Returns_To DEF Crash
  <2> QED BY <1>4, <2>1, <2>2, <2>3, <2>4 DEF RebuildStep
<1>7. ASSUME FlushRemoves(k) \/ DeleteRemoves(k) \/ RetryEnds(k)
      PROVE  keeper'[k].call = "none"
  <2>1. Returns(k)
    BY <1>7 DEF FlushRemoves, DeleteRemoves, RetryEnds
  <2> QED BY <2>1, Returns_To
<1>8. ASSUME NEW q \in Queues, FlushReads(k, q) PROVE keeper'[k].call \in {"flush", "delete", "retry"}
  <2> DEFINE e == [NoCall EXCEPT !.call = "flush", !.at = "write",
                                 !.key = <<q, Any>>, !.window = index[<<q, Any>>]]
  <2>1. e.call = "flush"
    BY DEF NoCall
  <2>2. Goes(k, e)
    BY <1>8 DEF FlushReads
  <2> HIDE DEF e
  <2> QED BY <2>1, <2>2, Goes_To
<1>9. ASSUME NEW ids \in Deletions, DeleteReads(k, ids) PROVE keeper'[k].call \in {"flush", "delete", "retry"}
  <2> DEFINE e == [Copies(k, ids) EXCEPT !.call = "delete"]
  <2>1. e.call = "delete"
    BY <1>1 DEF CallState, Copies
  <2>2. Goes(k, e)
    BY <1>9 DEF DeleteReads
  <2> HIDE DEF e
  <2> QED BY <2>1, <2>2, Goes_To
<1>10. ASSUME RetryReads(k) PROVE keeper'[k].call = "retry"
  <2> DEFINE e == [NoCall EXCEPT !.call = "retry", !.at = "copy",
                                 !.window = index[<<Any, "failed">>]]
  <2>1. e.call = "retry"
    BY DEF NoCall
  <2>2. Goes(k, e)
    BY <1>10 DEF RetryReads
  <2> HIDE DEF e
  <2> QED BY <2>1, <2>2, Goes_To
<1>11. ASSUME RetryCopies(k) PROVE keeper'[k].call = "retry"
  <2> DEFINE b == Copies(k, c.window)
             e == [b EXCEPT !.window = @ \ Orphans(b)]
  <2>1. e.call = "retry"
    BY <1>1, <1>11 DEF CallState, Copies, RetryCopies, In
  <2>2. Goes(k, e)
    BY <1>11 DEF RetryCopies
  <2> HIDE DEF e
  <2> QED BY <2>1, <2>2, Goes_To
<1>12. ASSUME NEW j \in Jobs, RetryReleases(k, j) PROVE keeper'[k].call \in {"flush", "delete", "retry"}
  <2> DEFINE e == [c EXCEPT !.window = @ \ {j}, !.copy[j] = "absent"]
  <2>1. e.call = "retry"
    BY <1>1, <1>12 DEF CallState, RetryReleases, In
  <2>2. Goes(k, e)
    BY <1>12 DEF RetryReleases
  <2> HIDE DEF e
  <2> QED BY <2>1, <2>2, Goes_To
<1> QED BY <1>2, <1>3, <1>4, <1>7, <1>8, <1>9, <1>10, <1>11, <1>12 DEF OtherStep

\* Where a rebuild is after a step, and what its step was.
LEMMA Rebuild_Moves ==
    ASSUME TypeOK, RebuildInv, NEW k \in Keepers, KeeperStep(k), Rebuilding(k)'
    PROVE  \/ keeper'[k].at = "read" /\ keeper'[k].todo = Present /\ UNCHANGED hash
           \/ \E ids \in SUBSET Jobs :
                 /\ In(k, "rebuild", "read") /\ UNCHANGED hash
                 /\ keeper'[k].at = "write" /\ keeper'[k].todo = keeper[k].todo \ ids
                 /\ keeper'[k].window = ids
                 /\ \A j \in ids : keeper'[k].copy[j] = hash[j]
           \/ /\ RebuildAdds(k)
              /\ keeper'[k].at = "read" /\ keeper'[k].todo = keeper[k].todo
<1> DEFINE c == keeper[k]
<1>1. c \in CallState
  BY DEF TypeOK
<1>4. CASE Connect(k)
  <2>1. CASE UNCHANGED keeper
    <3>1. c.call = "rebuild" /\ c.at = Resting
      BY <1>4, <2>1 DEF Connect, Rebuilding
    <3> QED BY <3>1 DEF RebuildInv, Rebuilding, Resting
  <2>2. CASE Goes(k, [NoCall EXCEPT !.call = "rebuild", !.at = "read", !.todo = Present])
    <3> DEFINE e == [NoCall EXCEPT !.call = "rebuild", !.at = "read", !.todo = Present]
    <3>0. e.at = "read" /\ e.todo = Present
      BY DEF NoCall
    <3>1. keeper'[k].at = "read" /\ keeper'[k].todo = Present
      BY <2>2, <3>0, Goes_To
    <3> QED BY <1>4, <3>1 DEF Connect, hashVars
  <2> QED BY <1>4, <2>1, <2>2 DEF Connect
<1>5. ASSUME NEW ids \in SUBSET Jobs, RebuildReads(k, ids)
      PROVE  /\ In(k, "rebuild", "read") /\ UNCHANGED hash
             /\ keeper'[k].at = "write" /\ keeper'[k].todo = keeper[k].todo \ ids
             /\ keeper'[k].window = ids
             /\ \A j \in ids : keeper'[k].copy[j] = hash[j]
  <2> DEFINE e == Copies(k, ids)
  <2>1. /\ e \in CallState /\ e.at = "write" /\ e.window = ids /\ e.todo = c.todo
        /\ \A j \in ids : e.copy[j] = hash[j]
    BY <1>1, Copies_Type DEF Copies, CallState
  <2>2. keeper'[k] = [e EXCEPT !.todo = @ \ ids]
    BY <1>5, Goes_To DEF RebuildReads
  <2> HIDE DEF e
  <2>3. /\ keeper'[k].at = "write" /\ keeper'[k].todo = c.todo \ ids
        /\ keeper'[k].window = ids /\ keeper'[k].copy = e.copy
    BY <2>1, <2>2 DEF CallState
  <2> QED BY <1>5, <2>1, <2>3 DEF RebuildReads, Stays, hashVars
<1>6. CASE RebuildAdds(k)
  <2>1. ~Returns(k)
    BY Returns_To DEF Rebuilding
  <2> DEFINE e == [c EXCEPT !.at = "read", !.window = {}, !.copy = NoCall.copy]
  <2>2. e.at = "read" /\ e.todo = c.todo
    BY <1>1 DEF CallState
  <2>3. Goes(k, e)
    BY <1>6, <2>1 DEF RebuildAdds
  <2> HIDE DEF e
  <2>4. keeper'[k].at = "read" /\ keeper'[k].todo = c.todo
    BY <2>2, <2>3, Goes_To
  <2> QED BY <1>6, <2>4
<1>7. ~Crash(k)
  BY Returns_To DEF Crash, Rebuilding
<1>8. NoCall.call = "none"
  BY DEF NoCall
<1> QED BY <1>4, <1>5, <1>6, <1>7, <1>8, KeeperStep_Kinds, Call_After DEF RebuildStep, Rebuilding

LEMMA Others_Stay ==
    ASSUME TypeOK, NEW k \in Keepers, KeeperStep(k), NEW m \in Keepers \ {k}
    PROVE  keeper'[m] = keeper[m]
BY KeeperStep_Moves

LEMMA Next_Covers ==
    ASSUME DriftInv, RebuildInv, Next, NEW k \in Keepers, Rebuilding(k)'
    PROVE  keeper'[k].at \in {"read", "write"} /\ Covers(keeper[k])'
<1>1. TypeOK /\ Remaining' \subseteq Remaining
  BY Remaining_Shrinks DEF DriftInv
<1>2. CASE keeper'[k] = keeper[k]
  BY <1>1, <1>2 DEF Rebuilding, RebuildInv, Covers
<1>3. CASE keeper'[k].at = "read" /\ keeper'[k].todo = Present /\ UNCHANGED hash
  <2>1. Remaining \subseteq Present
    BY <1>1 DEF Remaining, Present, TypeOK
  <2> QED BY <1>1, <1>3, <2>1 DEF Covers
<1>4. ASSUME NEW ids \in SUBSET Jobs,
             In(k, "rebuild", "read"), UNCHANGED hash,
             keeper'[k].at = "write", keeper'[k].todo = keeper[k].todo \ ids,
             keeper'[k].window = ids, \A j \in ids : keeper'[k].copy[j] = hash[j]
      PROVE  keeper'[k].at \in {"read", "write"} /\ Covers(keeper[k])'
  <2>1. Remaining \subseteq keeper[k].todo
    BY <1>4 DEF In, RebuildInv, Rebuilding, Covers
  <2>2. \A j \in Remaining : hash[j] # "absent"
    BY DEF Remaining
  <2> QED BY <1>1, <1>4, <2>1, <2>2 DEF Covers
<1>5. CASE RebuildAdds(k) /\ keeper'[k].at = "read" /\ keeper'[k].todo = keeper[k].todo
  <2>1. Covers(keeper[k])
    BY <1>5 DEF RebuildAdds, In, RebuildInv, Rebuilding
  <2>2. Remaining' \subseteq Remaining
           \ {j \in keeper[k].window : keeper[k].copy[j] # "absent"}
    BY <1>1, <1>5 DEF RebuildAdds, Remaining
  <2>3. Remaining' \subseteq keeper[k].todo
    BY <2>1, <2>2 DEF Covers
  <2> QED BY <1>5, <2>3 DEF Covers
<1>6. ASSUME NEW i \in Jobs, JobStep(i) PROVE keeper'[k] = keeper[k]
  BY <1>6, Job_Leaves_Calls
<1>7. ASSUME NEW m \in Keepers, m # k, KeeperStep(m) PROVE keeper'[k] = keeper[k]
  BY <1>1, <1>7, Others_Stay
<1> QED BY <1>1, <1>2, <1>3, <1>4, <1>5, <1>6, <1>7, Rebuild_Moves, Next_Steps

\* Only pushes and rebuilds add to the global index.
LEMMA Global_Index ==
    ASSUME TypeOK, NEW k \in Keepers, KeeperStep(k), ~RebuildAdds(k)
    PROVE  index'[AllKey] \subseteq index[AllKey]
<1>1. AllKey \in Key
  BY Keys
<1>2. CASE UNCHANGED index
  BY <1>2
<1>3. CASE WriteWindow(k) \/ DeleteRemoves(k) \/ WalkRemoves(k)
  BY <1>1, <1>3 DEF WriteWindow, DeleteRemoves, WalkRemoves, IndexRemove
<1>4. CASE FlushRemoves(k)
  BY <1>1, <1>4 DEF FlushRemoves
<1>5. ASSUME NEW j \in Jobs, RetryReleases(k, j)
      PROVE  index'[AllKey] \subseteq index[AllKey]
  <2>1. AllKey \notin StatusFamilies(j, "pending")
    BY IndexAssumption DEF AllKey, StatusFamilies, Statuses, Live
  <2> QED BY <1>1, <1>5, <2>1 DEF RetryReleases, IndexStatusChange
<1> QED BY <1>2, <1>3, <1>4, <1>5
     DEF KeeperStep, Stays, hashVars, BeginDrain, ReadWindow, ReadHashes, BeginWalk, WalkReads,
         Connect, RebuildReads, Crash, FlushReads, DeleteReads, RetryReads, RetryCopies, RetryEnds

LEMMA Next_Whole ==
    ASSUME DriftInv, RebuildInv, Next, ~cut', serving' \/ index'[AllKey] # {},
           \A k \in Keepers : ~Rebuilding(k)'
    PROVE  Remaining' = {}
<1>1. TypeOK /\ Remaining' \subseteq Remaining
  BY Remaining_Shrinks DEF DriftInv
<1>2. ASSUME NEW j \in Jobs, JobStep(j) PROVE Remaining' = {}
  <2>1. UNCHANGED <<keeper, serving, unindexed, cut>>
    BY <1>2, Job_Leaves_Calls
  <2>2. CASE serving
    BY <1>1, <2>1, <2>2 DEF RebuildInv, Rebuilding
  <2>3. CASE ~serving
    <3>1. PICK status \in Terminal \cup {"pending"} : Finish(j, status)
      BY <1>2, <2>3 DEF JobStep, Push, Claim, RequeueStuck
    <3>2. AllKey \in Key /\ AllKey \notin StatusFamilies(j, status)
      BY Keys, IndexAssumption DEF AllKey, StatusFamilies, Statuses, Live
    <3>3. index'[AllKey] \subseteq index[AllKey]
      BY <3>1, <3>2 DEF Finish, IndexStatusChange
    <3> QED BY <1>1, <2>1, <2>3, <3>3 DEF RebuildInv, Rebuilding
  <2> QED BY <2>2, <2>3
<1>3. ASSUME NEW k \in Keepers, KeeperStep(k) PROVE Remaining' = {}
  <2>1. CASE Rebuilding(k)
    <3>1. Covers(keeper[k]) /\ keeper[k].at # Resting
      BY <2>1 DEF RebuildInv, Resting
    <3>2. CASE \E ids \in SUBSET Jobs : RebuildReads(k, ids)
      <4>1. PICK ids \in SUBSET Jobs : RebuildReads(k, ids)
        BY <3>2
      <4> DEFINE e == Copies(k, ids)
      <4>2. e \in CallState /\ e.call = keeper[k].call
        BY <1>1, Copies_Type DEF Copies, CallState, TypeOK
      <4>3. keeper'[k] = [e EXCEPT !.todo = @ \ ids]
        BY <1>1, <4>1, Goes_To DEF RebuildReads
      <4> HIDE DEF e
      <4>4. Rebuilding(k)'
        BY <2>1, <4>2, <4>3 DEF Rebuilding, CallState
      <4> QED BY <4>4
    <3>3. CASE RebuildAdds(k)
      <4>1. keeper[k].todo = {}
        <5>1. keeper[k] \in CallState
          BY <1>1 DEF TypeOK
        <5>2. ASSUME Goes(k, [keeper[k] EXCEPT !.at = "read", !.window = {}, !.copy = NoCall.copy])
              PROVE  FALSE
          <6> DEFINE e == [keeper[k] EXCEPT !.at = "read", !.window = {}, !.copy = NoCall.copy]
          <6>1. e.call = "rebuild"
            BY <2>1, <5>1 DEF CallState, Rebuilding
          <6>2. Goes(k, e)
            BY <5>2
          <6> HIDE DEF e
          <6> QED BY <1>1, <6>1, <6>2, Goes_To DEF Rebuilding
        <5> QED BY <3>3, <5>2 DEF RebuildAdds
      <4>2. Remaining' \subseteq Remaining
               \ {j \in keeper[k].window : keeper[k].copy[j] # "absent"}
        BY <1>1, <3>3 DEF RebuildAdds, Remaining
      <4> QED BY <3>1, <4>1, <4>2 DEF Covers
    <3>4. ~Crash(k)
      BY DEF Crash
    <3> QED BY <1>3, <2>1, <3>1, <3>2, <3>3, <3>4, Going_On DEF Rebuilding
  <2>2. CASE ~Rebuilding(k)
    <3>1. \A m \in Keepers : ~Rebuilding(m)
      BY <1>1, <1>3, <2>2, Others_Stay DEF Rebuilding
    <3>2. ~RebuildAdds(k)
      BY <2>2 DEF RebuildAdds, In, Rebuilding
    <3>3. index'[AllKey] \subseteq index[AllKey]
      BY <1>1, <1>3, <3>2, Global_Index
    <3>4. ~cut
      BY <1>3, <2>2 DEF KeeperStep, Stays, BeginDrain, ReadWindow, ReadHashes, WriteWindow, BeginWalk,
           WalkReads, WalkRemoves, Connect, RebuildReads, RebuildAdds, Crash, Rebuilding, FlushReads,
           FlushRemoves, DeleteReads, DeleteRemoves, RetryReads, RetryCopies, RetryReleases, RetryEnds
    <3>5. CASE serving \/ index[AllKey] # {}
      BY <1>1, <3>1, <3>4, <3>5 DEF RebuildInv
    <3>6. CASE ~serving /\ index[AllKey] = {}
      <4>1. serving'
        BY <3>3, <3>6
      <4>2. Connect(k)
        BY <1>3, <3>2, <3>6, <4>1
           DEF KeeperStep, Stays, BeginDrain, ReadWindow, ReadHashes, WriteWindow, BeginWalk, WalkReads,
               WalkRemoves, RebuildReads, Crash, FlushReads, FlushRemoves, DeleteReads, DeleteRemoves,
               RetryReads, RetryCopies, RetryReleases, RetryEnds
      <4>3. Present = {}
        BY <3>6, <4>1, <4>2 DEF Connect
      <4>4. Remaining \subseteq Present
        BY <1>1 DEF Remaining, Present, TypeOK
      <4> QED BY <1>1, <4>3, <4>4
    <3> QED BY <3>5, <3>6
  <2> QED BY <2>1, <2>2
<1> QED BY <1>2, <1>3, Next_Steps

LEMMA Next_Rebuild ==
    ASSUME DriftInv, RebuildInv, Next
    PROVE  RebuildInv'
BY Next_Covers, Next_Whole DEF RebuildInv

LEMMA Stutter_Rebuild ==
    ASSUME RebuildInv, UNCHANGED vars
    PROVE  RebuildInv'
BY DEF RebuildInv, Rebuilding, Covers, Remaining, vars, hashVars, historyVars

\* A rebuild leaves no job of the old version out, whatever workers push and
\* finish beside it, however many processes rebuild at once, unless one of them
\* dies half-way: then the index is not empty and nobody starts over.
THEOREM RebuildsAreWhole == Spec => []RebuildIsWhole
<1>1. Init => RebuildInv
  BY Init_Rebuild
<1>2. DriftInv /\ RebuildInv /\ [Next]_vars => RebuildInv'
  BY Next_Rebuild, Stutter_Rebuild
<1>3. RebuildInv => RebuildIsWhole
  BY DEF RebuildInv, RebuildIsWhole, Rebuilding, Remaining
<1> QED BY <1>1, <1>2, <1>3, DriftInvariant, PTL DEF Spec

-----------------------------------------------------------------------------
(* Windows of a drain *)

\* The entries of a window are in the index unless they left it in the
\* meantime; a copy was taken of what the index says.
WindowInv ==
    \A k \in Keepers : keeper[k].call = "drain" =>
        LET c == keeper[k] IN
        /\ c.at # Resting /\ (c.at = "read" => c.window = {})
        /\ c.window \ moved[k] \subseteq index[c.key]
        /\ c.at = "write" =>
              \A j \in c.window \ (moved[k] \cup clobbered) :
                  c.key \in Families(j, c.copy[j])

\* The fields of the record a drain goes on with.
LEMMA NextWindow_Fields ==
    ASSUME NEW c \in CallState
    PROVE  /\ NextWindow(c).call = c.call /\ NextWindow(c).at = "read"
           /\ NextWindow(c).key = c.key /\ NextWindow(c).selection = c.selection
           /\ NextWindow(c).window = {}
           /\ NextWindow(c).offset = c.offset + Cardinality(Skipped(c))
BY DEF NextWindow, CallState

LEMMA Copies_Fields ==
    ASSUME TypeOK, NEW k \in Keepers, NEW ids \in SUBSET Jobs
    PROVE  LET e == Copies(k, ids) IN
           /\ e \in CallState /\ e.call = keeper[k].call /\ e.at = "write"
           /\ e.key = keeper[k].key /\ e.selection = keeper[k].selection
           /\ e.offset = keeper[k].offset /\ e.window = ids
           /\ \A j \in ids : e.copy[j] = hash[j]
<1>1. keeper[k] \in CallState
  BY DEF TypeOK
<1> QED BY <1>1, Copies_Type DEF Copies, CallState

\* Where a drain is after a step, and what its step was.
LEMMA Drain_Moves ==
    ASSUME TypeOK, NEW k \in Keepers, KeeperStep(k),
           keeper'[k].call = "drain", keeper'[k] # keeper[k]
    PROVE  LET c == keeper[k]
               n == keeper'[k]
               e == Copies(k, c.window)
           IN
           \/ /\ keeper[k].at = Resting /\ UNCHANGED <<hash, index>>
              /\ n.at = "read" /\ n.window = {} /\ n.offset = 0
           \/ /\ In(k, "drain", "read") /\ UNCHANGED <<hash, index>>
              /\ n.at = "copy" /\ n.window = Window(c.key, c.offset) /\ n.offset = c.offset
              /\ n.key = c.key /\ n.selection = c.selection
           \/ /\ In(k, "drain", "copy") /\ UNCHANGED <<hash, index>>
              /\ \/ n = e
                 \/ n = NextWindow(e) /\ Skipped(e) = e.window /\ Cardinality(e.window) >= Batch
           \/ WriteWindow(k) /\ n = NextWindow(c) /\ Cardinality(c.window) >= Batch
<1> DEFINE c == keeper[k]
           n == keeper'[k]
           e == Copies(k, c.window)
<1>0. c \in CallState
  BY DEF TypeOK
<1>1. n.call = "drain"
  OBVIOUS
<1>2. DrainStep(k)
  <2>1. NoCall.call = "none"
    BY DEF NoCall
  <2> QED BY <1>1, <2>1, KeeperStep_Kinds, Call_After
<1>3. ~Returns(k)
  BY <1>1, Returns_To
<1>4. ASSUME NEW d \in Drains[k], BeginDrain(k, d.key, d.selection)
      PROVE  /\ c.at = Resting /\ UNCHANGED <<hash, index>>
             /\ n.at = "read" /\ n.window = {} /\ n.offset = 0
  <2> DEFINE r == [NoCall EXCEPT !.call = "drain", !.at = "read", !.key = d.key,
                                 !.selection = d.selection]
  <2>1. r.at = "read" /\ r.window = {} /\ r.offset = 0
    BY DEF NoCall
  <2>2. Goes(k, r)
    BY <1>4 DEF BeginDrain
  <2> HIDE DEF r
  <2>3. n = r
    BY <2>2, Goes_To
  <2> QED BY <1>4, <2>1, <2>3 DEF BeginDrain, May, Stays, hashVars
<1>5. CASE ReadWindow(k)
  <2> DEFINE r == [c EXCEPT !.at = "copy", !.window = Window(c.key, c.offset)]
  <2>1. /\ r.at = "copy" /\ r.window = Window(c.key, c.offset) /\ r.offset = c.offset
        /\ r.key = c.key /\ r.selection = c.selection
    BY <1>0 DEF CallState
  <2>2. Goes(k, r)
    BY <1>3, <1>5 DEF ReadWindow
  <2> HIDE DEF r
  <2>3. n = r
    BY <2>2, Goes_To
  <2> QED BY <1>5, <2>1, <2>3 DEF ReadWindow, Stays, hashVars
<1>6. CASE ReadHashes(k)
  <2>1. e.window = c.window
    BY <1>0, Copies_Fields DEF CallState
  <2>2. \/ Goes(k, e)
        \/ Goes(k, NextWindow(e)) /\ Skipped(e) = e.window /\ Cardinality(e.window) >= Batch
    BY <1>3, <1>6, <2>1 DEF ReadHashes, Continues
  <2> HIDE DEF e
  <2> QED BY <1>6, <2>2, Goes_To DEF ReadHashes, Stays, hashVars, e
<1>7. CASE WriteWindow(k)
  <2>1. Goes(k, NextWindow(c)) /\ Cardinality(c.window) >= Batch
    BY <1>3, <1>7 DEF WriteWindow, Continues
  <2> QED BY <1>7, <2>1, Goes_To
<1> QED BY <1>2, <1>4, <1>5, <1>6, <1>7 DEF DrainStep

\* Entries that leave the index while they are in a window are noted.
LEMMA Moved_Next ==
    ASSUME TypeOK, Observe, NEW k \in Keepers, keeper[k].call = "drain",
           keeper'[k].window # {}
    PROVE  moved'[k] = moved[k] \cup (keeper[k].window \cap Left(k))
BY DEF Observe

LEMMA Next_Window ==
    ASSUME DriftInv, WindowInv, Next
    PROVE  WindowInv'
<1> SUFFICES ASSUME NEW k \in Keepers, keeper'[k].call = "drain"
             PROVE  LET n == keeper'[k] IN
                    /\ n.at # Resting /\ (n.at = "read" => n.window = {})
                    /\ n.window \ moved'[k] \subseteq index'[n.key]
                    /\ n.at = "write" =>
                          \A j \in n.window \ (moved'[k] \cup clobbered') :
                              n.key \in Families(j, n.copy[j])
  BY DEF WindowInv
<1> DEFINE c == keeper[k]
           n == keeper'[k]
           e == Copies(k, c.window)
<1>0. TypeOK /\ Observe /\ clobbered \subseteq clobbered' /\ c \in CallState
  BY Next_Steps, Clobbered_Grows DEF DriftInv, TypeOK
<1>1. CASE n = c
  <2>1. c.window # {} => moved'[k] = moved[k] \cup (c.window \cap Left(k))
    BY <1>0, <1>1, Moved_Next
  <2>2. c.window \ moved'[k] \subseteq index'[c.key]
    BY <1>1, <2>1 DEF WindowInv, Left
  <2> QED BY <1>0, <1>1, <2>1, <2>2 DEF WindowInv
<1>2. CASE n.at = "read" /\ n.window = {}
  BY <1>2 DEF Resting
<1>3. CASE /\ In(k, "drain", "read") /\ UNCHANGED <<hash, index>>
           /\ n.at = "copy" /\ n.window = Window(c.key, c.offset) /\ n.offset = c.offset
           /\ n.key = c.key /\ n.selection = c.selection
  BY <1>3 DEF Window, Resting
<1>4. CASE In(k, "drain", "copy") /\ UNCHANGED <<hash, index>> /\ n = e
  <2>1. /\ n.at = "write" /\ n.key = c.key /\ n.window = c.window /\ c.window \subseteq Jobs
        /\ \A j \in n.window : n.copy[j] = hash[j]
    BY <1>0, <1>4, Copies_Fields DEF CallState
  <2>2. c.window # {} => moved[k] \subseteq moved'[k]
    BY <1>0, <1>4, <2>1, Moved_Next DEF In
  <2>3. c.window \ moved[k] \subseteq index[c.key]
    BY <1>4 DEF WindowInv, In
  <2>4. ASSUME NEW j \in n.window \ (moved'[k] \cup clobbered')
        PROVE  n.key \in Families(j, n.copy[j])
    <3>1. j \in Jobs /\ j \in index[c.key] /\ j \notin clobbered /\ n.copy[j] = hash[j]
      BY <1>0, <2>1, <2>2, <2>3, <2>4
    <3>2. c.key \in Stored(j) /\ Stored(j) \subseteq Families(j, hash[j])
      BY <1>0, <3>1 DEF Stored, CallState, DriftInv, NoSilentDrift, Consistent
    <3> QED BY <2>1, <3>1, <3>2
  <2> QED BY <1>4, <2>1, <2>2, <2>3, <2>4 DEF Resting
<1>5. CASE n = NextWindow(e)
  BY <1>0, <1>5, <1>2, Copies_Fields, NextWindow_Fields DEF CallState
<1>6. CASE n = NextWindow(c)
  BY <1>0, <1>6, <1>2, NextWindow_Fields
<1>7. ASSUME NEW i \in Jobs, JobStep(i) PROVE n = c
  BY <1>7, Job_Leaves_Calls
<1>8. ASSUME NEW m \in Keepers, m # k, KeeperStep(m) PROVE n = c
  BY <1>0, <1>8, Others_Stay
<1>9. ASSUME KeeperStep(k), n # c
      PROVE  \/ n.at = "read" /\ n.window = {}
             \/ /\ In(k, "drain", "read") /\ UNCHANGED <<hash, index>>
                /\ n.at = "copy" /\ n.window = Window(c.key, c.offset) /\ n.offset = c.offset
                /\ n.key = c.key /\ n.selection = c.selection
             \/ In(k, "drain", "copy") /\ UNCHANGED <<hash, index>> /\ n = e
             \/ n = NextWindow(e)
             \/ n = NextWindow(c)
  BY <1>0, <1>9, Drain_Moves
<1> HIDE DEF n, e
<1> QED BY <1>1, <1>2, <1>3, <1>4, <1>5, <1>6, <1>7, <1>8, <1>9, Next_Steps

LEMMA Init_Window == Init => WindowInv
BY DEF Init, WindowInv, NoCall

LEMMA Stutter_Window ==
    ASSUME WindowInv, UNCHANGED vars
    PROVE  WindowInv'
BY DEF WindowInv, vars, hashVars, historyVars

LEMMA WindowInvariant == Spec => [](DriftInv /\ WindowInv)
<1>1. DriftInv /\ WindowInv /\ [Next]_vars => WindowInv'
  BY Next_Window, Stutter_Window
<1> QED BY <1>1, Init_Window, DriftInvariant, PTL DEF Spec

\* A drain of finished jobs takes no unfinished one with it, except a job that
\* left the index under its window or was written from an out-of-date copy.
THEOREM PrunesSpareUnfinished == Spec => PruneSparesUnfinished
<1> DEFINE A == \A k \in Keepers :
                  (In(k, "drain", "write") /\ keeper[k].key[2] \in Terminal
                      /\ keeper'[k] # keeper[k]) =>
                  \A j \in Jobs \ (moved[k] \cup clobbered') :
                      hash'[j] = "absent" => hash[j] \notin Live
<1>1. ASSUME DriftInv, WindowInv, [Next]_vars PROVE [A]_vars
  <2> SUFFICES ASSUME Next, NEW k \in Keepers, In(k, "drain", "write"),
                      keeper[k].key[2] \in Terminal, keeper'[k] # keeper[k],
                      NEW j \in Jobs \ (moved[k] \cup clobbered'),
                      hash'[j] = "absent", hash[j] \in Live
               PROVE  FALSE
    BY <1>1
  <2> DEFINE c == keeper[k]
  <2>1. TypeOK /\ clobbered \subseteq clobbered' /\ c.key \in Key
    BY <1>1, Clobbered_Grows DEF DriftInv, TypeOK, CallState
  <2>2. KeeperStep(k)
    BY <2>1, Job_Leaves_Calls, Others_Stay, Next_Steps
  <2>3. WriteWindow(k)
    BY <2>2, Going_On DEF In, Resting, ReadWindow, ReadHashes
  <2>4. j \in Doomed(c)
    BY <2>3, IndexAssumption DEF WriteWindow, Removes, Live, Statuses
  <2>5. j \in index[c.key] /\ j \notin clobbered
    BY <1>1, <2>1, <2>4 DEF WindowInv, In, Doomed
  <2>6. c.key \in Families(j, hash[j]) /\ hash[j] # "absent"
    BY <1>1, <2>1, <2>5, IndexAssumption
       DEF Stored, DriftInv, NoSilentDrift, Consistent, Live, Statuses
  <2>7. c.key[2] \in {hash[j], Any}
    BY <2>6 DEF Families
  <2> QED BY <2>7, IndexAssumption DEF Statuses
<1>2. DriftInv /\ WindowInv /\ [Next]_vars => [A]_vars
  BY <1>1
<1> QED BY <1>2, WindowInvariant, PTL DEF Spec, PruneSparesUnfinished

\* An index that lost an entry is smaller.
LEMMA Fewer ==
    ASSUME NEW S \in SUBSET Jobs, NEW T \in SUBSET S
    PROVE  /\ IsFiniteSet(S) /\ Cardinality(S) \in Nat /\ Cardinality(T) \in Nat
           /\ Cardinality(T) <= Cardinality(S)
           /\ T # S => Cardinality(T) < Cardinality(S)
           /\ T # {} => Cardinality(T) >= 1
<1>1. IsFiniteSet(S) /\ IsFiniteSet(T)
  BY IndexAssumption, FS_Subset
<1>2. Cardinality(S) \in Nat /\ Cardinality(T) \in Nat /\ Cardinality(T) <= Cardinality(S)
  BY <1>1, FS_CardinalityType, FS_Subset
<1>3. Cardinality(S) = Cardinality(T) => S = T
  BY <1>1, FS_Subset
<1>4. Cardinality(T) = 0 <=> T = {}
  BY <1>1, FS_EmptySet
<1> QED BY <1>1, <1>2, <1>3, <1>4

\* The loop of a drain ends: a drain that reads a further window has fewer
\* entries before it than it had, unless the window's were on the move.
THEOREM DrainsAdvance == Spec => DrainAdvances
<1> DEFINE A == \A k \in Keepers :
                  (/\ keeper[k].call = "drain" /\ keeper[k].at # "read" /\ keeper'[k].at = "read"
                   /\ keeper[k].window \cap (moved[k] \cup clobbered) = {}) =>
                      Cardinality(index'[keeper[k].key]) + keeper[k].offset
                          < Cardinality(index[keeper[k].key]) + keeper'[k].offset
<1>1. ASSUME DriftInv, WindowInv, [Next]_vars PROVE [A]_vars
  <2> SUFFICES ASSUME Next, NEW k \in Keepers, keeper[k].call = "drain", keeper[k].at # "read",
                      keeper'[k].at = "read",
                      keeper[k].window \cap (moved[k] \cup clobbered) = {}
               PROVE  Cardinality(index'[keeper[k].key]) + keeper[k].offset
                          < Cardinality(index[keeper[k].key]) + keeper'[k].offset
    BY <1>1
  <2> DEFINE c == keeper[k]
             n == keeper'[k]
             e == Copies(k, c.window)
  <2>1. TypeOK /\ TypeOK' /\ c \in CallState /\ c.at # Resting
    BY <1>1, Next_Type DEF DriftInv, TypeOK, WindowInv
  <2>2. KeeperStep(k)
    BY <2>1, Job_Leaves_Calls, Others_Stay, Next_Steps
  <2>3. /\ index[c.key] \subseteq Jobs /\ index'[c.key] \subseteq Jobs
        /\ c.offset \in Nat /\ c.window \subseteq Jobs
    BY <2>1 DEF TypeOK, CallState
  <2>4. CASE ReadHashes(k)
    <3>1. /\ e \in CallState /\ e.at = "write" /\ e.offset = c.offset /\ e.window = c.window
      BY <2>1, <2>3, Copies_Fields
    <3>2. index' = index
      BY <2>4 DEF ReadHashes, Stays, hashVars
    <3>3. Goes(k, NextWindow(e)) /\ Skipped(e) = e.window /\ Cardinality(e.window) >= Batch
      <4>1. ~Returns(k)
        BY <2>1, Returns_To DEF Resting
      <4>2. ~Goes(k, e)
        <5> HIDE DEF e
        <5>1. ASSUME Goes(k, e) PROVE keeper'[k] = e
          BY <2>1, <5>1, Goes_To
        <5> QED BY <3>1, <5>1
      <4>3. \/ Goes(k, e)
            \/ Goes(k, NextWindow(e)) /\ Skipped(e) = e.window /\ Cardinality(e.window) >= Batch
        BY <2>4, <3>1, <4>1 DEF ReadHashes, Continues
      <4> HIDE DEF e
      <4> QED BY <4>2, <4>3
    <3>4. n.offset = c.offset + Cardinality(c.window)
      <4>1. n = NextWindow(e)
        BY <2>1, <3>3, Goes_To
      <4>2. NextWindow(e).offset = e.offset + Cardinality(Skipped(e))
        BY <3>1, NextWindow_Fields
      <4> HIDE DEF n, e
      <4> QED BY <3>1, <3>3, <4>1, <4>2
    <3>5. Cardinality(c.window) \in Nat /\ Cardinality(c.window) >= 1
          /\ Cardinality(index[c.key]) \in Nat
      <4>1. Cardinality(c.window) \in Nat /\ Cardinality(index[c.key]) \in Nat
        BY <2>3, Fewer
      <4>2. Cardinality(c.window) >= Batch
        BY <3>1, <3>3
      <4> QED BY <4>1, <4>2, IndexAssumption
    <3> QED BY <2>3, <3>2, <3>4, <3>5
  <2>5. CASE WriteWindow(k)
    <3>1. Continues(k, c) /\ ~Returns(k)
      BY <2>1, <2>5, Returns_To DEF WriteWindow, Resting
    <3>2. n = NextWindow(c) /\ Cardinality(c.window) >= Batch
      <4>1. Goes(k, NextWindow(c)) /\ Cardinality(c.window) >= Batch
        BY <3>1 DEF Continues
      <4> QED BY <2>1, <4>1, Goes_To
    <3>3. n.offset = c.offset + Cardinality(Skipped(c))
      BY <2>1, <3>2, NextWindow_Fields
    <3>4. IndexRemove(Doomed(c), c.copy, Orphans(c), OrphanKeys(c.key[1]))
      BY <2>5 DEF WriteWindow
    <3>5. c.key \in Key /\ index'[c.key] \subseteq index[c.key]
      BY <2>1, <3>4 DEF IndexRemove, CallState
    <3>6. Skipped(c) \subseteq Jobs
      BY <2>3 DEF Skipped
    <3>7. PICK j : j \in c.window
      <4>1. Cardinality(c.window) # 0
        BY <3>2, IndexAssumption
      <4> QED BY <4>1, FS_EmptySet
    <3>8. CASE Skipped(c) # {}
      <4>1. Cardinality(Skipped(c)) \in Nat /\ Cardinality(Skipped(c)) >= 1
        BY <3>6, <3>8, Fewer
      <4>2. /\ Cardinality(index'[c.key]) \in Nat /\ Cardinality(index[c.key]) \in Nat
            /\ Cardinality(index'[c.key]) <= Cardinality(index[c.key])
        BY <2>3, <3>5, Fewer
      <4> QED BY <2>3, <3>3, <4>1, <4>2
    <3>9. CASE Skipped(c) = {}
      <4>1. j \in index[c.key] /\ c.key \in Families(j, c.copy[j])
        BY <1>1, <2>5, <3>7 DEF WindowInv, WriteWindow, In
      <4>2. c.copy[j] # "absent"
        BY <4>1 DEF Families
      <4>3. j \in Doomed(c)
        BY <3>7, <3>9, <4>2 DEF Skipped, Orphans
      <4>4. j \notin index'[c.key]
        BY <3>4, <3>5, <4>1, <4>3 DEF IndexRemove
      <4>5. /\ Cardinality(index'[c.key]) \in Nat /\ Cardinality(index[c.key]) \in Nat
            /\ Cardinality(index'[c.key]) < Cardinality(index[c.key])
        BY <2>3, <3>5, <4>1, <4>4, Fewer
      <4>6. Cardinality(Skipped(c)) \in Nat
        BY <3>6, Fewer
      <4> QED BY <2>3, <3>3, <4>5, <4>6
    <3> QED BY <3>8, <3>9
  <2> QED BY <2>1, <2>2, <2>4, <2>5, Going_On DEF ReadWindow, In
<1>2. DriftInv /\ WindowInv /\ [Next]_vars => [A]_vars
  BY <1>1
<1> QED BY <1>2, WindowInvariant, PTL DEF Spec, DrainAdvances

-----------------------------------------------------------------------------
(* Places in a sorted set, and windows on it                               *)

\* The place of j, and the first n members.
Place(S, j) == Cardinality({m \in S : m <= j})

First(S, n) == {j \in S : Place(S, j) <= n}

LEMMA Places ==
    ASSUME NEW S \in SUBSET Jobs, NEW i \in S
    PROVE  /\ Place(S, i) \in 1..Cardinality(S)
           /\ \A j \in S : i < j => Place(S, i) < Place(S, j)
<1>0. S \subseteq Nat
  BY IndexAssumption
<1>1. \A j \in S : /\ {m \in S : m <= j} \subseteq S
                   /\ j \in {m \in S : m <= j}
  BY <1>0
<1>2. \A j \in S : Place(S, j) \in 1..Cardinality(S)
  BY <1>1, Fewer DEF Place
<1>3. ASSUME NEW j \in S, i < j PROVE Place(S, i) < Place(S, j)
  <2> DEFINE I == {m \in S : m <= i}
             J == {m \in S : m <= j}
  <2>1. \A m \in S : m <= i => m <= j
    BY <1>0, <1>3
  <2>2. I \subseteq J /\ J \subseteq S
    BY <2>1
  <2>3. j \in J /\ j \notin I
    BY <1>0, <1>3
  <2>4. Place(S, i) = Cardinality(I) /\ Place(S, j) = Cardinality(J)
    BY DEF Place
  <2> HIDE DEF I, J
  <2> QED BY <2>2, <2>3, <2>4, Fewer
<1> QED BY <1>2, <1>3

LEMMA Place_Order ==
    ASSUME NEW S \in SUBSET Jobs, NEW i \in S, NEW j \in S
    PROVE  /\ Place(S, i) = Place(S, j) => i = j
           /\ Place(S, i) < Place(S, j) => i < j
<1>1. i \in Nat /\ j \in Nat /\ Place(S, i) \in Nat /\ Place(S, j) \in Nat
  BY IndexAssumption, Places
<1>2. i < j \/ i = j \/ j < i
  BY <1>1
<1> QED BY <1>1, <1>2, Places

\* No two members have the same place.
LEMMA Places_Fit ==
    ASSUME NEW S \in SUBSET Jobs, NEW F \in SUBSET S, NEW a \in Nat, NEW b \in Nat,
           \A j \in F : Place(S, j) \in a..b
    PROVE  Cardinality(F) <= Cardinality(a..b)
<1> DEFINE f == [j \in F |-> Place(S, j)]
<1>1. f \in [F -> a..b]
  OBVIOUS
<1>2. \A i, j \in F : Place(S, i) = Place(S, j) => i = j
  BY Place_Order
<1>3. IsInjective(f)
  BY <1>2 DEF IsInjective
<1>4. IsFiniteSet(a..b)
  BY FS_Interval
<1> HIDE DEF f
<1>5. f \in Injection(F, a..b)
  BY <1>1, <1>3 DEF Injection
<1> QED BY <1>4, <1>5, FS_Injection

\* The first n are n, if there are as many.
LEMMA First_Size ==
    ASSUME NEW S \in SUBSET Jobs, NEW n \in Nat, n <= Cardinality(S)
    PROVE  Cardinality(First(S, n)) = n
<1> DEFINE F == First(S, n)
           R == S \ F
           s == Cardinality(S)
<1>0. /\ IsFiniteSet(S) /\ s \in Nat /\ F \subseteq S /\ R \subseteq S
      /\ Cardinality(F) \in Nat /\ Cardinality(R) \in Nat
      /\ Cardinality(R) = s - Cardinality(F)
  <2>1. F \subseteq S
    BY DEF First
  <2>2. Cardinality(R) = s - Cardinality(S \cap F) /\ S \cap F = F
    BY <2>1, Fewer, FS_Difference
  <2> HIDE DEF F
  <2> QED BY <2>1, <2>2, Fewer
<1> HIDE DEF s
<1>1. Cardinality(F) <= n
  <2>1. \A j \in F : Place(S, j) \in 1..n
    BY Places DEF First, s
  <2>2. Cardinality(1..n) = n
    BY FS_Interval
  <2> HIDE DEF F
  <2>3. F \in SUBSET S /\ 1 \in Nat
    BY <1>0
  <2>4. Cardinality(F) <= Cardinality(1..n)
    BY <2>1, <2>3, Places_Fit
  <2> QED BY <2>2, <2>4
<1>2. Cardinality(R) <= s - n
  <2>1. \A j \in R : Place(S, j) \in (n + 1)..s
    <3>1. ASSUME NEW j \in R PROVE Place(S, j) \in 1..s /\ ~(Place(S, j) <= n)
      BY Places DEF First, s
    <3> HIDE DEF F, R
    <3> QED BY <1>0, <3>1
  <2>2. Cardinality((n + 1)..s) = s - n
    <3>1. Cardinality((n + 1)..s) = IF n + 1 > s THEN 0 ELSE s - (n + 1) + 1
      BY <1>0, FS_Interval
    <3> QED BY <1>0, <3>1 DEF s
  <2> HIDE DEF F, R
  <2>3. R \in SUBSET S /\ n + 1 \in Nat
    BY <1>0
  <2>4. Cardinality(R) <= Cardinality((n + 1)..s)
    BY <1>0, <2>1, <2>3, Places_Fit
  <2> QED BY <2>2, <2>4
<1> HIDE DEF F, R
<1>3. Cardinality(F) = n
  BY <1>0, <1>1, <1>2
<1> QED BY <1>3 DEF F

\* A window that leaves out an entry after the offset is full, and the entry
\* comes after all of it.
LEMMA Full_Window ==
    ASSUME TypeOK, NEW key \in Key, NEW offset \in Nat,
           NEW j \in index[key], Rank(key, j) > offset, j \notin Window(key, offset)
    PROVE  /\ Cardinality(Window(key, offset)) = Batch
           /\ \A m \in Window(key, offset) : m < j
<1> DEFINE S == index[key]
           o == offset + Batch
<1>0. S \in SUBSET Jobs /\ o \in Nat /\ Batch \in Nat \ {0}
  BY IndexAssumption DEF TypeOK
<1>1. \A i \in S : Rank(key, i) = Place(S, i) /\ Place(S, i) \in 1..Cardinality(S)
  BY <1>0, Places DEF Rank, Place
<1>2. Place(S, j) > o
  <2> HIDE DEF S
  <2>1. j \in S
    BY DEF S
  <2> QED BY <1>0, <1>1, <2>1 DEF Window, S
<1>3. o <= Cardinality(S) /\ offset <= Cardinality(S) /\ Cardinality(S) \in Nat
  <2>1. Cardinality(S) \in Nat
    BY <1>0, Fewer
  <2> HIDE DEF S
  <2>2. Place(S, j) \in 1..Cardinality(S)
    BY <1>1 DEF S
  <2> QED BY <1>0, <1>2, <2>1, <2>2
<1>4. Cardinality(First(S, o)) = o /\ Cardinality(First(S, offset)) = offset
  BY <1>0, <1>3, First_Size
<1>5. /\ First(S, offset) \subseteq First(S, o) /\ First(S, o) \subseteq Jobs
      /\ Window(key, offset) = First(S, o) \ First(S, offset)
  <2>1. \A i \in S : Place(S, i) \in Nat /\ Rank(key, i) = Place(S, i)
    BY <1>1
  <2> HIDE DEF S
  <2>2. \A i \in S : Place(S, i) <= offset => Place(S, i) <= o
    BY <1>0, <2>1
  <2>3. Window(key, offset) = {i \in S : Place(S, i) > offset /\ Place(S, i) <= o}
    BY <2>1 DEF Window, S
  <2> QED BY <1>0, <2>1, <2>2, <2>3 DEF First
<1>6. Cardinality(Window(key, offset)) = Batch
  <2>1. IsFiniteSet(First(S, o)) /\ First(S, o) \cap First(S, offset) = First(S, offset)
    BY <1>5, Fewer
  <2>2. Cardinality(Window(key, offset)) = Cardinality(First(S, o)) - Cardinality(First(S, offset))
    BY <1>5, <2>1, FS_Difference
  <2> HIDE DEF S
  <2> QED BY <1>0, <1>4, <2>2
<1>7. ASSUME NEW m \in Window(key, offset) PROVE m < j
  <2>1. m \in S /\ Place(S, m) <= o
    BY <1>5, <1>7 DEF First
  <2>2. Place(S, m) \in Nat /\ Place(S, j) \in Nat
    BY <1>1, <2>1
  <2>3. Place(S, m) < Place(S, j)
    BY <1>0, <1>2, <2>1, <2>2
  <2> QED BY <1>0, <2>1, <2>3, Place_Order
<1> QED BY <1>6, <1>7

\* An entry keeps at least as many before it as are known to stay there.
LEMMA Place_After ==
    ASSUME NEW T \in SUBSET Jobs, NEW X \in SUBSET T, NEW j \in T, \A m \in X : m < j
    PROVE  Place(T, j) > Cardinality(X)
<1>1. X \cup {j} \subseteq {m \in T : m <= j} /\ j \notin X
  BY IndexAssumption
<1>2. {m \in T : m <= j} \in SUBSET Jobs /\ X \in SUBSET Jobs
  OBVIOUS
<1>3. Cardinality(X \cup {j}) = Cardinality(X) + 1
  BY <1>1, <1>2, Fewer, FS_AddElement
<1>4. Cardinality(X \cup {j}) <= Cardinality({m \in T : m <= j})
  BY <1>1, <1>2, Fewer
<1>5. Cardinality(X) \in Nat /\ Cardinality({m \in T : m <= j}) \in Nat
  BY <1>2, Fewer
<1> QED BY <1>3, <1>4, <1>5 DEF Place

\* Nothing moves to before the offset while what is there stays, nor when the
\* offset grows by entries that stay and come before it.
LEMMA Place_Kept ==
    ASSUME NEW S \in SUBSET Jobs, NEW T \in SUBSET Jobs, NEW n \in Nat,
           NEW X \in SUBSET S, \A m \in X : Place(S, m) > n,
           First(S, n) \cup X \subseteq T,
           NEW j \in S \cap T, Place(S, j) > n, \A m \in X : m < j
    PROVE  Place(T, j) > n + Cardinality(X)
<1> DEFINE F == First(S, n)
<1>1. F \cap X = {} /\ F \subseteq S
  <2>1. \A m \in X : Place(S, m) \in Nat /\ ~(Place(S, m) <= n)
    BY Places
  <2> QED BY <2>1 DEF First
<1>2. \A m \in F : m < j
  <2> SUFFICES ASSUME NEW m \in F PROVE m < j
    OBVIOUS
  <2>1. m \in S /\ Place(S, m) <= n /\ Place(S, m) \in Nat /\ Place(S, j) \in Nat
    BY Places DEF First
  <2>2. Place(S, m) < Place(S, j)
    BY <2>1
  <2> QED BY <2>1, <2>2, Place_Order
<1>3. Cardinality(F) = n
  <2>1. Place(S, j) \in 1..Cardinality(S) /\ Cardinality(S) \in Nat
    BY Places, Fewer
  <2>2. n <= Cardinality(S)
    BY <2>1
  <2> QED BY <2>2, First_Size
<1>4. Cardinality(F \cup X) = n + Cardinality(X)
  <2>1. IsFiniteSet(F) /\ IsFiniteSet(X) /\ Cardinality(X) \in Nat /\ Cardinality({}) = 0
    BY <1>1, Fewer, FS_EmptySet
  <2>2. Cardinality(F \cup X) = Cardinality(F) + Cardinality(X) - Cardinality(F \cap X)
    BY <2>1, FS_Union
  <2>3. Cardinality(F \cap X) = 0
    BY <1>1, <2>1
  <2> HIDE DEF F
  <2> QED BY <1>3, <2>1, <2>2, <2>3
<1> HIDE DEF F
<1>5. F \cup X \in SUBSET T /\ \A m \in F \cup X : m < j
  BY <1>2 DEF F
<1> QED BY <1>4, <1>5, Place_After

-----------------------------------------------------------------------------
(* What a drain or a walk has to deal with                                 *)

\* Entries of its window that a drain keeps or is going to.
Kept(c) == {j \in c.window \ c.selection : c.at = "copy" \/ c.copy[j] # "absent"}

\* A drain with the entries o to examine in the index S: they are not before
\* its offset, and those not in its window come after what is kept of it.
Passing(c, o, S) ==
    /\ \A m \in Kept(c) \cup o : m \in S /\ Place(S, m) > c.offset
    /\ c.at # "read" =>
          \A j \in o \ c.window : Cardinality(c.window) >= Batch /\ \A m \in Kept(c) : m < j
    /\ c.at = "write" => \A j \in o \cap c.window : j \in c.selection \/ c.copy[j] = "absent"

Walking(c, o) ==
    /\ c.at \in {"read", "write"}
    /\ c.at = "read" => c.window = {}
    /\ o \subseteq c.todo \cup c.window

PassInv ==
    /\ \A k \in shifted : keeper[k].call = "drain"
    /\ \A k \in Keepers \ shifted :
          LET c == keeper[k] IN
          /\ owed[k] \subseteq Debt(c, hash, index)
          /\ c.call = "drain" => Passing(c, owed[k], index[c.key])
          /\ c.call = "walk" => Walking(c, owed[k])

\* Others may add to the index, and take away what is not counted on.
LEMMA Passing_Kept ==
    ASSUME NEW c \in CallState, NEW S \in SUBSET Jobs, NEW T \in SUBSET Jobs,
           NEW o, NEW p \in SUBSET (o \cap T), Passing(c, o, S),
           First(S, c.offset) \cup Kept(c) \subseteq T
    PROVE  Passing(c, p, T)
<1>1. c.offset \in Nat
  BY DEF CallState
<1>2. ASSUME NEW m \in Kept(c) \cup p PROVE m \in T /\ Place(T, m) > c.offset
  <2>1. m \in S /\ m \in T /\ Place(S, m) > c.offset
    BY DEF Passing
  <2>2. Place(T, m) > c.offset + Cardinality({})
    BY <1>1, <2>1, Place_Kept
  <2>3. Cardinality({}) = 0
    BY FS_EmptySet
  <2> QED BY <1>1, <2>1, <2>2, <2>3
<1> QED BY <1>2 DEF Passing

\* A window is read.
LEMMA Passing_Read ==
    ASSUME TypeOK, NEW c \in CallState, NEW n \in CallState, NEW o, NEW p \in SUBSET o,
           Passing(c, o, index[c.key]),
           n.at = "copy", n.key = c.key, n.offset = c.offset,
           n.window = Window(c.key, c.offset)
    PROVE  Passing(n, p, index[n.key])
<1> DEFINE S == index[c.key]
<1>1. c.key \in Key /\ c.offset \in Nat /\ S \in SUBSET Jobs
  BY DEF CallState, TypeOK
<1>2. \A m \in S : Rank(c.key, m) = Place(S, m)
  BY DEF Rank, Place
<1>3. \A m \in n.window : m \in S /\ Place(S, m) > c.offset
  BY <1>2 DEF Window
<1>4. \A m \in p : m \in S /\ Place(S, m) > c.offset
  BY DEF Passing
<1>5. ASSUME NEW j \in p \ n.window
      PROVE  Cardinality(n.window) >= Batch /\ \A m \in n.window : m < j
  <2>1. j \in S /\ Rank(c.key, j) > c.offset /\ j \notin Window(c.key, c.offset)
    BY <1>2, <1>4, <1>5
  <2>2. Cardinality(Window(c.key, c.offset)) = Batch /\ \A m \in Window(c.key, c.offset) : m < j
    BY <1>1, <2>1, Full_Window
  <2> QED BY <2>2, IndexAssumption
<1> HIDE DEF S
<1>6. Kept(n) \subseteq n.window
  BY DEF Kept
<1>7. \A m \in Kept(n) \cup p : m \in S /\ Place(S, m) > n.offset
  BY <1>3, <1>4, <1>6
<1>8. Passing(n, p, S)
  BY <1>5, <1>6, <1>7 DEF Passing
<1> QED BY <1>8 DEF S

\* The hashes of a window are read.
LEMMA Passing_Copy ==
    ASSUME NEW c, NEW e, NEW o, NEW p \in SUBSET o, NEW S, Passing(c, o, S),
           c.at = "copy", e.at = "write", e.window = c.window, e.selection = c.selection,
           e.offset = c.offset,
           \A j \in p \cap e.window : j \in e.selection \/ e.copy[j] = "absent"
    PROVE  Passing(e, p, S)
<1>1. Kept(e) \subseteq Kept(c)
  BY DEF Kept
<1> QED BY <1>1 DEF Passing

\* The drain goes on behind what it has kept.
LEMMA Passing_On ==
    ASSUME NEW c \in CallState, c.at = "write", NEW S \in SUBSET Jobs, NEW T \in SUBSET Jobs,
           NEW o, NEW p \in SUBSET ((o \cap T) \ c.window), Passing(c, o, S),
           First(S, c.offset) \cup Kept(c) \subseteq T
    PROVE  Passing(NextWindow(c), p, T)
<1> DEFINE n == NextWindow(c)
<1>1. n.at = "read" /\ n.window = {} /\ n.offset = c.offset + Cardinality(Kept(c))
  <2>1. Skipped(c) = Kept(c)
    BY DEF Skipped, Doomed, Orphans, Kept
  <2> QED BY <2>1, NextWindow_Fields
<1> HIDE DEF n
<1>2. Kept(n) = {}
  BY <1>1 DEF Kept
<1>3. ASSUME NEW j \in p PROVE j \in T /\ Place(T, j) > n.offset
  <2>1. j \in S \cap T /\ Place(S, j) > c.offset /\ \A m \in Kept(c) : m < j
    BY DEF Passing
  <2>2. c.offset \in Nat /\ Kept(c) \in SUBSET S /\ \A m \in Kept(c) : Place(S, m) > c.offset
    BY DEF CallState, Passing
  <2>3. Place(T, j) > c.offset + Cardinality(Kept(c))
    BY <2>1, <2>2, Place_Kept
  <2> QED BY <1>1, <2>1, <2>3
<1>4. Passing(n, p, T)
  BY <1>1, <1>2, <1>3 DEF Passing
<1> QED BY <1>4 DEF n

\* Where a walk is after a step, and what its step was.
LEMMA Walk_Begins ==
    ASSUME TypeOK, NEW k \in Keepers, NEW key, BeginWalk(k, key)
    PROVE  LET n == keeper'[k] IN
           /\ n.call = "walk" /\ n.at = "read" /\ n.key = key /\ n.window = {}
           /\ n.todo = index[key] /\ keeper[k].at = Resting /\ UNCHANGED <<hash, index>>
<1> DEFINE e == [NoCall EXCEPT !.call = "walk", !.at = "read", !.key = key, !.todo = index[key]]
<1>1. e.call = "walk" /\ e.at = "read" /\ e.key = key /\ e.window = {} /\ e.todo = index[key]
  BY DEF NoCall
<1>2. Goes(k, e)
  BY DEF BeginWalk
<1> HIDE DEF e
<1>3. keeper'[k] = e
  BY <1>2, Goes_To
<1> QED BY <1>1, <1>3 DEF BeginWalk, May, Stays, hashVars

LEMMA Walks_To ==
    ASSUME TypeOK, NEW k \in Keepers, NEW c \in CallState, c.call = "walk", Walks(k, c)
    PROVE  LET n == keeper'[k] IN
           \/ c.todo = {} /\ n = NoCall
           \/ n.call = "walk" /\ n.at = "read" /\ n.key = c.key /\ n.window = {} /\ n.todo = c.todo
<1> DEFINE e == [c EXCEPT !.at = "read", !.window = {}]
<1>1. e.call = "walk" /\ e.at = "read" /\ e.key = c.key /\ e.window = {} /\ e.todo = c.todo
  BY DEF CallState
<1>2. (c.todo = {} /\ Returns(k)) \/ Goes(k, e)
  BY DEF Walks
<1> HIDE DEF e
<1> QED BY <1>1, <1>2, Goes_To, Returns_To

LEMMA Walk_Moves ==
    ASSUME TypeOK, NEW k \in Keepers, KeeperStep(k), In(k, "walk", "read") \/ In(k, "walk", "write")
    PROVE  LET c == keeper[k]
               n == keeper'[k]
           IN
           \/ \E ids \in SUBSET c.todo :
                 /\ In(k, "walk", "read") /\ UNCHANGED <<hash, index>>
                 /\ \/ n = NoCall /\ c.todo = ids /\ Stale(ids) = {}
                    \/ /\ n.call = "walk" /\ n.key = c.key /\ n.todo = c.todo \ ids
                       /\ n.window = Stale(ids) /\ n.at \in {"read", "write"}
                       /\ n.at = "read" => Stale(ids) = {}
           \/ /\ WalkRemoves(k)
              /\ \/ n = NoCall /\ c.todo = {}
                 \/ /\ n.call = "walk" /\ n.key = c.key /\ n.todo = c.todo
                    /\ n.window = {} /\ n.at = "read"
<1> DEFINE c == keeper[k]
           n == keeper'[k]
<1>0. c \in CallState /\ c.call = "walk" /\ c.at # Resting
  BY DEF TypeOK, In, Resting
<1>1. ASSUME NEW ids \in SUBSET Jobs, WalkReads(k, ids)
      PROVE  /\ ids \in SUBSET c.todo
             /\ In(k, "walk", "read") /\ UNCHANGED <<hash, index>>
             /\ \/ n = NoCall /\ c.todo = ids /\ Stale(ids) = {}
                \/ /\ n.call = "walk" /\ n.key = c.key /\ n.todo = c.todo \ ids
                   /\ n.window = Stale(ids) /\ n.at \in {"read", "write"}
                   /\ n.at = "read" => Stale(ids) = {}
  <2> DEFINE e == [c EXCEPT !.at = "write", !.window = Stale(ids), !.todo = @ \ ids]
  <2>1. /\ e \in CallState /\ e.call = "walk" /\ e.key = c.key /\ e.at = "write"
        /\ e.window = Stale(ids) /\ e.todo = c.todo \ ids
    BY <1>0, <1>1 DEF CallState, Stale
  <2>2. (e.window = {} /\ Walks(k, e)) \/ Goes(k, e)
    BY <1>1 DEF WalkReads
  <2>3. ids \in SUBSET c.todo /\ In(k, "walk", "read") /\ UNCHANGED <<hash, index>>
    BY <1>1 DEF WalkReads, Stays, hashVars
  <2> HIDE DEF e
  <2>4. CASE Goes(k, e)
    <3>1. n = e
      BY <2>4, Goes_To
    <3> QED BY <2>1, <2>3, <3>1
  <2>5. CASE e.window = {} /\ Walks(k, e)
    <3>1. \/ e.todo = {} /\ n = NoCall
          \/ n.call = "walk" /\ n.at = "read" /\ n.key = e.key /\ n.window = {} /\ n.todo = e.todo
      BY <2>1, <2>5, Walks_To
    <3> QED BY <2>1, <2>3, <2>5, <3>1
  <2> QED BY <2>2, <2>4, <2>5
<1>2. ASSUME WalkRemoves(k)
      PROVE  \/ n = NoCall /\ c.todo = {}
             \/ /\ n.call = "walk" /\ n.key = c.key /\ n.todo = c.todo
                /\ n.window = {} /\ n.at = "read"
  <2>1. Walks(k, c)
    BY <1>2 DEF WalkRemoves
  <2> QED BY <1>0, <2>1, Walks_To
<1> QED BY <1>0, <1>1, <1>2, Going_On

\* What the histories say of a keeper after a step.
LEMMA Observed ==
    ASSUME TypeOK, Observe, NEW k \in Keepers, k \notin shifted'
    PROVE  /\ Resumes(k) =>
                 owed'[k] = (owed[k] \cap Debt(keeper[k], hash', index')) \ Misfiled(keeper[k])
           /\ ~Resumes(k) => owed'[k] = Debt(keeper'[k], hash, index)
           /\ Resumes(k) /\ keeper[k].call = "drain" =>
                 k \notin shifted /\ Passed(k) \cap Left(k) = {}
BY DEF Observe

\* What stays of the index of a drain that is not shifted.
LEMMA Counted_On ==
    ASSUME TypeOK, NEW k \in Keepers, Passed(k) \cap Left(k) = {},
           Passing(keeper[k], owed[k], index[keeper[k].key])
    PROVE  First(index[keeper[k].key], keeper[k].offset) \cup Kept(keeper[k])
              \subseteq index'[keeper[k].key]
<1> DEFINE c == keeper[k]
           S == index[c.key]
<1>1. \A m \in S : Rank(c.key, m) = Place(S, m)
  BY DEF Rank, Place
<1>2. First(S, c.offset) \cup Kept(c) \subseteq S
  BY DEF First, Passing
<1>3. First(S, c.offset) \cup Kept(c) \subseteq Passed(k)
  BY <1>1, <1>2 DEF First, Passed, Kept
<1> QED BY <1>2, <1>3 DEF Left

\* A write takes what is selected or has no hash out of the index that was
\* scanned, unless the copy belongs in another index.
LEMMA Written_Off ==
    ASSUME TypeOK, NEW k \in Keepers, WriteWindow(k), NEW j \in keeper[k].window,
           j \in keeper[k].selection \/ keeper[k].copy[j] = "absent",
           j \notin Misfiled(keeper[k])
    PROVE  j \notin index'[keeper[k].key]
<1> DEFINE c == keeper[k]
<1>1. c.key \in Key /\ j \in Jobs
  BY DEF TypeOK, CallState
<1>2. index' = [i \in Key |->
          (index[i] \ {m \in Doomed(c) : i \in Families(m, c.copy[m])})
              \ (IF i \in OrphanKeys(c.key[1]) THEN Orphans(c) ELSE {})]
  BY DEF WriteWindow, IndexRemove
<1>3. CASE c.copy[j] = "absent"
  <2>1. j \in Orphans(c)
    BY <1>3 DEF Orphans
  <2>2. c.key \in OrphanKeys(c.key[1])
    BY <1>1 DEF OrphanKeys, Key, AllKey
  <2> QED BY <1>1, <1>2, <2>1, <2>2
<1>4. CASE c.copy[j] # "absent"
  BY <1>1, <1>2, <1>4 DEF Doomed, Misfiled
<1> QED BY <1>3, <1>4

LEMMA Debt_Drain ==
    ASSUME NEW c, c.call = "drain", NEW h, NEW ix
    PROVE  Debt(c, h, ix) = {j \in ix[c.key] : j \in c.selection \/ h[j] = "absent"}
BY DEF Debt

\* Nothing that is owed is in a window of which everything is kept.
LEMMA Nothing_Owed_Here ==
    ASSUME TypeOK, NEW k \in Keepers, In(k, "drain", "copy"),
           owed[k] \subseteq Debt(keeper[k], hash, index),
           Skipped(Copies(k, keeper[k].window)) = keeper[k].window
    PROVE  /\ owed[k] \cap keeper[k].window = {}
           /\ Kept(Copies(k, keeper[k].window)) = keeper[k].window
<1> DEFINE c == keeper[k]
           e == Copies(k, c.window)
<1>1. /\ e.at = "write" /\ e.selection = c.selection /\ e.window = c.window
      /\ \A j \in c.window : e.copy[j] = hash[j]
  BY Copies_Fields DEF TypeOK, CallState
<1>2. Doomed(e) = {} /\ Orphans(e) = {} /\ Skipped(e) = c.window
  BY <1>1 DEF Skipped, Doomed, Orphans
<1> HIDE DEF e
<1>3. \A j \in c.window : j \notin c.selection /\ e.copy[j] # "absent"
  BY <1>1, <1>2 DEF Doomed, Orphans
<1>4. \A j \in owed[k] : j \in c.selection \/ hash[j] = "absent"
  BY Debt_Drain DEF In
<1>5. owed[k] \cap c.window = {}
  BY <1>1, <1>3, <1>4
<1>6. Kept(e) = c.window
  BY <1>1, <1>3 DEF Kept
<1> QED BY <1>5, <1>6 DEF e

LEMMA Next_Passing ==
    ASSUME TypeOK, TypeOK', WindowInv, PassInv, Next, NEW k \in Keepers,
           keeper'[k].call = "drain", k \notin shifted'
    PROVE  /\ owed'[k] \subseteq Debt(keeper'[k], hash', index')
           /\ Passing(keeper'[k], owed'[k], index'[keeper'[k].key])
<1> DEFINE c == keeper[k]
           n == keeper'[k]
           e == Copies(k, c.window)
           S == index[c.key]
<1>0. /\ Observe /\ c \in CallState /\ n \in CallState
      /\ \A i \in Key : index[i] \in SUBSET Jobs /\ index'[i] \in SUBSET Jobs
      /\ c.key \in Key /\ n.key \in Key /\ c.window \in SUBSET Jobs
  BY Next_Steps DEF TypeOK, CallState
<1>1. ASSUME c.call = "drain", Resumes(k)
      PROVE  /\ owed[k] \subseteq Debt(c, hash, index) /\ Passing(c, owed[k], S)
             /\ owed'[k] = (owed[k] \cap Debt(c, hash', index')) \ Misfiled(c)
             /\ owed'[k] \subseteq owed[k] \cap index'[c.key]
             /\ First(S, c.offset) \cup Kept(c) \subseteq index'[c.key]
  <2>1. /\ k \notin shifted /\ Passed(k) \cap Left(k) = {}
        /\ owed'[k] = (owed[k] \cap Debt(c, hash', index')) \ Misfiled(c)
    BY <1>0, <1>1, Observed
  <2>2. owed[k] \subseteq Debt(c, hash, index) /\ Passing(c, owed[k], S)
    BY <1>1, <2>1 DEF PassInv
  <2>3. First(S, c.offset) \cup Kept(c) \subseteq index'[c.key]
    BY <2>1, <2>2, Counted_On
  <2>4. Debt(c, hash', index') \subseteq index'[c.key]
    BY <1>1, Debt_Drain
  <2> QED BY <2>1, <2>2, <2>3, <2>4
<1>2. ASSUME c.call = "drain", Resumes(k), n.key = c.key, n.selection = c.selection
      PROVE  owed'[k] \subseteq Debt(n, hash', index')
  BY <1>1, <1>2, Debt_Drain
<1>3. CASE n = c
  <2>1. c.call = "drain" /\ Resumes(k)
    BY <1>3 DEF Resumes, WindowInv
  <2>2. Passing(c, owed'[k], index'[c.key])
    BY <1>0, <1>1, <2>1, Passing_Kept
  <2> QED BY <1>2, <1>3, <2>1, <2>2
<1>4. CASE /\ c.at = Resting /\ UNCHANGED <<hash, index>>
           /\ n.at = "read" /\ n.window = {} /\ n.offset = 0
  <2>1. owed'[k] = Debt(n, hash, index)
    BY <1>0, <1>4, Observed DEF Resumes
  <2>2. Debt(n, hash, index) \subseteq index[n.key]
    BY Debt_Drain
  <2>3. \A m \in index[n.key] : Place(index[n.key], m) > 0
    <3> DEFINE T == index[n.key]
    <3>1. T \in SUBSET Jobs
      BY <1>0
    <3> HIDE DEF T
    <3>2. \A m \in T : Place(T, m) \in 1..Cardinality(T) /\ Cardinality(T) \in Nat
      BY <3>1, Places, Fewer
    <3>3. \A m \in T : Place(T, m) > 0
      BY <3>2
    <3> QED BY <3>3 DEF T
  <2>4. Kept(n) = {}
    BY <1>4 DEF Kept
  <2> QED BY <1>4, <2>1, <2>2, <2>3, <2>4 DEF Passing
<1>5. CASE /\ In(k, "drain", "read") /\ UNCHANGED <<hash, index>>
           /\ n.at = "copy" /\ n.window = Window(c.key, c.offset) /\ n.offset = c.offset
           /\ n.key = c.key /\ n.selection = c.selection
  <2>1. c.call = "drain" /\ Resumes(k)
    BY <1>5 DEF Resumes, In, Resting
  <2>2. Passing(n, owed'[k], index[n.key])
    BY <1>0, <1>1, <1>5, <2>1, Passing_Read
  <2> QED BY <1>2, <1>5, <2>1, <2>2
<1>6. CASE In(k, "drain", "copy") /\ UNCHANGED <<hash, index>>
           /\ n = e
  <2>0. /\ e \in CallState /\ e.at = "write" /\ e.key = c.key /\ e.selection = c.selection
        /\ e.offset = c.offset /\ e.window = c.window
        /\ \A j \in e.window : e.copy[j] = hash[j]
    BY <1>0, Copies_Fields
  <2> HIDE DEF e
  <2>1. c.call = "drain" /\ Resumes(k) /\ c.at = "copy"
    BY <1>6, <2>0 DEF Resumes, In, Resting
  <2>2. \A j \in owed'[k] : j \in c.selection \/ hash[j] = "absent"
    BY <1>1, <1>6, <2>1, Debt_Drain
  <2>3. Passing(e, owed'[k], S)
    BY <1>1, <2>0, <2>1, <2>2, Passing_Copy
  <2> QED BY <1>2, <1>6, <2>0, <2>1, <2>3
<1>7. CASE /\ In(k, "drain", "copy") /\ UNCHANGED <<hash, index>>
           /\ n = NextWindow(e) /\ Skipped(e) = e.window
  <2>0. /\ e \in CallState /\ e.at = "write" /\ e.key = c.key /\ e.selection = c.selection
        /\ e.offset = c.offset /\ e.window = c.window
    BY <1>0, Copies_Fields
  <2>1. c.call = "drain" /\ Resumes(k) /\ c.at = "copy" /\ n.key = c.key /\ n.selection = c.selection
    BY <1>7, <2>0, NextWindow_Fields DEF Resumes, In, Resting
  <2>2. owed[k] \cap c.window = {} /\ Kept(e) = c.window
    BY <1>1, <1>7, <2>0, <2>1, Nothing_Owed_Here
  <2> HIDE DEF e
  <2>3. Passing(e, owed'[k], S)
    BY <1>1, <2>0, <2>1, <2>2, Passing_Copy
  <2>4. First(S, e.offset) \cup Kept(e) \subseteq S
    BY <2>3 DEF First, Passing
  <2>5. owed'[k] \in SUBSET ((owed'[k] \cap S) \ e.window)
    BY <1>1, <1>7, <2>0, <2>1, <2>2
  <2>6. Passing(NextWindow(e), owed'[k], S)
    BY <1>0, <2>0, <2>3, <2>4, <2>5, Passing_On
  <2> QED BY <1>2, <1>7, <2>1, <2>6
<1>8. CASE WriteWindow(k) /\ n = NextWindow(c)
  <2>1. /\ c.call = "drain" /\ Resumes(k) /\ c.at = "write"
        /\ n.key = c.key /\ n.selection = c.selection
    BY <1>0, <1>8, NextWindow_Fields DEF Resumes, In, Resting, WriteWindow
  <2>2. owed'[k] \cap c.window = {}
    <3> SUFFICES ASSUME NEW j \in owed'[k], j \in c.window PROVE FALSE
      OBVIOUS
    <3>1. j \in owed[k] /\ j \notin Misfiled(c) /\ j \in index'[c.key]
      BY <1>1, <2>1
    <3>2. j \in c.selection \/ c.copy[j] = "absent"
      BY <1>1, <2>1, <3>1 DEF Passing
    <3> QED BY <1>8, <3>1, <3>2, Written_Off
  <2>3. owed'[k] \in SUBSET ((owed[k] \cap index'[c.key]) \ c.window)
    BY <1>1, <2>1, <2>2
  <2>4. Passing(NextWindow(c), owed'[k], index'[c.key])
    BY <1>0, <1>1, <2>1, <2>3, Passing_On
  <2> QED BY <1>2, <1>8, <2>1, <2>4
<1>9. ASSUME NEW i \in Jobs, JobStep(i) PROVE n = c
  BY <1>9, Job_Leaves_Calls
<1>10. ASSUME NEW m \in Keepers, m # k, KeeperStep(m) PROVE n = c
  BY <1>10, Others_Stay
<1>11. ASSUME KeeperStep(k), n # c
       PROVE  \/ /\ c.at = Resting /\ UNCHANGED <<hash, index>>
                 /\ n.at = "read" /\ n.window = {} /\ n.offset = 0
              \/ /\ In(k, "drain", "read") /\ UNCHANGED <<hash, index>>
                 /\ n.at = "copy" /\ n.window = Window(c.key, c.offset) /\ n.offset = c.offset
                 /\ n.key = c.key /\ n.selection = c.selection
              \/ In(k, "drain", "copy") /\ UNCHANGED <<hash, index>> /\ n = e
              \/ /\ In(k, "drain", "copy") /\ UNCHANGED <<hash, index>>
                 /\ n = NextWindow(e) /\ Skipped(e) = e.window
              \/ WriteWindow(k) /\ n = NextWindow(c)
  BY <1>11, Drain_Moves
<1> HIDE DEF n, e
<1> QED BY <1>3, <1>4, <1>5, <1>6, <1>7, <1>8, <1>9, <1>10, <1>11, Next_Steps

LEMMA Next_Walking ==
    ASSUME TypeOK, WindowInv, PassInv, Next, NEW k \in Keepers,
           keeper'[k].call = "walk", k \notin shifted'
    PROVE  /\ owed'[k] \subseteq Debt(keeper'[k], hash', index')
           /\ Walking(keeper'[k], owed'[k])
<1> DEFINE c == keeper[k]
           n == keeper'[k]
<1>0. Observe /\ NoCall.call = "none" /\ NoCall.at = Resting
  BY Next_Steps DEF NoCall
<1>1. ASSUME c.call = "walk"
      PROVE  k \notin shifted /\ Walking(c, owed[k]) /\ c.at # Resting
  BY <1>1 DEF PassInv, Walking, Resting
<1>2. ASSUME c.call = "walk", n.key = c.key, n.at \in {"read", "write"}
      PROVE  /\ owed'[k] \subseteq owed[k] \cap Debt(n, hash', index')
             /\ owed'[k] \subseteq {j \in index'[c.key] : hash'[j] = "absent"}
  <2>1. Resumes(k)
    BY <1>1, <1>2 DEF Resumes, Resting
  <2>2. owed'[k] \subseteq owed[k] \cap Debt(c, hash', index')
    BY <1>0, <2>1, Observed
  <2>3. /\ Debt(c, hash', index') = {j \in index'[c.key] : hash'[j] = "absent"}
        /\ Debt(n, hash', index') = {j \in index'[n.key] : hash'[j] = "absent"}
    BY <1>2 DEF Debt
  <2> QED BY <1>2, <2>2, <2>3
<1>3. CASE n = c
  <2>1. c.call = "walk" /\ Walking(c, owed[k]) /\ c.at \in {"read", "write"}
    BY <1>1, <1>3 DEF Walking
  <2> QED BY <1>2, <1>3, <2>1 DEF Walking
<1>4. ASSUME NEW key, BeginWalk(k, key)
      PROVE  owed'[k] \subseteq Debt(n, hash', index') /\ Walking(n, owed'[k])
  <2>1. /\ n.at = "read" /\ n.key = key /\ n.window = {}
        /\ n.todo = index[key] /\ c.at = Resting /\ UNCHANGED <<hash, index>>
    BY <1>4, Walk_Begins
  <2>2. owed'[k] = Debt(n, hash, index)
    BY <1>0, <2>1, Observed DEF Resumes
  <2>3. Debt(n, hash, index) \subseteq index[key]
    BY <2>1 DEF Debt
  <2> QED BY <2>1, <2>2, <2>3 DEF Walking
<1>5. ASSUME NEW ids \in SUBSET c.todo, In(k, "walk", "read"), UNCHANGED <<hash, index>>,
             n.key = c.key, n.todo = c.todo \ ids, n.window = Stale(ids),
             n.at \in {"read", "write"}, n.at = "read" => Stale(ids) = {}
      PROVE  owed'[k] \subseteq Debt(n, hash', index') /\ Walking(n, owed'[k])
  <2>1. c.call = "walk" /\ c.window = {} /\ owed[k] \subseteq c.todo
    BY <1>1, <1>5 DEF In, Walking
  <2>2. /\ owed'[k] \subseteq owed[k] \cap Debt(n, hash', index')
        /\ \A j \in owed'[k] : hash[j] = "absent"
    BY <1>2, <1>5, <2>1
  <2>3. owed'[k] \subseteq n.todo \cup n.window
    BY <1>5, <2>1, <2>2 DEF Stale
  <2> QED BY <1>5, <2>2, <2>3 DEF Walking
<1>6. CASE WalkRemoves(k) /\ n.key = c.key /\ n.todo = c.todo /\ n.window = {} /\ n.at = "read"
  <2>1. c.call = "walk" /\ owed[k] \subseteq c.todo \cup c.window
    BY <1>1, <1>6 DEF In, Walking, WalkRemoves
  <2>2. owed'[k] \subseteq owed[k] \cap Debt(n, hash', index') /\ owed'[k] \subseteq index'[c.key]
    BY <1>2, <1>6, <2>1
  <2>3. index'[c.key] \cap c.window = {}
    BY <1>6 DEF WalkRemoves, IndexRemove, TypeOK, CallState
  <2> QED BY <1>6, <2>1, <2>2, <2>3 DEF Walking
<1>7. ASSUME NEW i \in Jobs, JobStep(i) PROVE n = c
  BY <1>7, Job_Leaves_Calls
<1>8. ASSUME NEW m \in Keepers, m # k, KeeperStep(m) PROVE n = c
  BY <1>8, Others_Stay
<1>9. ASSUME KeeperStep(k), n # c
      PROVE  owed'[k] \subseteq Debt(n, hash', index') /\ Walking(n, owed'[k])
  <2>1. n # NoCall /\ WalkStep(k)
    BY <1>0, <1>9, KeeperStep_Kinds, Call_After
  <2>2. CASE \E key : BeginWalk(k, key)
    BY <1>4, <2>2
  <2>3. CASE (\E ids \in SUBSET Jobs : WalkReads(k, ids)) \/ WalkRemoves(k)
    <3>1. In(k, "walk", "read") \/ In(k, "walk", "write")
      BY <2>3 DEF WalkReads, WalkRemoves
    <3> HIDE DEF n
    <3> QED BY <1>5, <1>6, <1>9, <2>1, <3>1, Walk_Moves DEF n
  <2> QED BY <2>1, <2>2, <2>3 DEF WalkStep
<1> QED BY <1>3, <1>7, <1>8, <1>9, Next_Steps

\* Other calls have nothing to deal with.
LEMMA Next_Idle ==
    ASSUME TypeOK, WindowInv, PassInv, Next, NEW k \in Keepers,
           keeper'[k].call \notin {"drain", "walk"}, k \notin shifted'
    PROVE  owed'[k] = {}
<1> DEFINE c == keeper[k]
           n == keeper'[k]
<1>0. Observe /\ NoCall.at = Resting
  BY Next_Steps DEF NoCall
<1>1. Debt(n, hash, index) = {}
  BY DEF Debt
<1>2. ASSUME Resumes(k) PROVE c.call \notin {"drain", "walk"}
  <2>1. CASE n = c
    BY <2>1
  <2>2. ASSUME KeeperStep(k), c.call \in {"drain", "walk"} PROVE FALSE
    <3>1. DrainStep(k) \/ WalkStep(k)
      BY <1>2, <2>2, Going_On DEF Resumes, DrainStep, WalkStep
    <3>2. n = NoCall
      BY <2>2, <3>1, Call_After
    <3> QED BY <1>0, <1>2, <3>2 DEF Resumes
  <2>3. ASSUME NEW i \in Jobs, JobStep(i) PROVE n = c
    BY <2>3, Job_Leaves_Calls
  <2>4. ASSUME NEW m \in Keepers, m # k, KeeperStep(m) PROVE n = c
    BY <2>4, Others_Stay
  <2> HIDE DEF n
  <2> QED BY <2>1, <2>2, <2>3, <2>4, Next_Steps
<1>3. Resumes(k) => Debt(c, hash', index') = {}
  BY <1>2 DEF Debt
<1> QED BY <1>0, <1>1, <1>3, Observed

\* A drain that resumes is still a drain.
LEMMA Next_Shifted ==
    ASSUME TypeOK, Next, NEW k \in Keepers, k \in shifted'
    PROVE  keeper'[k].call = "drain"
<1>1. Observe /\ NoCall.at = Resting
  BY Next_Steps DEF NoCall
<1>2. Resumes(k) /\ keeper[k].call = "drain"
  BY <1>1 DEF Observe
<1>3. ASSUME KeeperStep(k) PROVE keeper'[k].call = "drain"
  <2>1. DrainStep(k)
    BY <1>2, <1>3, Going_On DEF Resumes, DrainStep
  <2> QED BY <1>1, <1>2, <1>3, <2>1, Call_After DEF Resumes
<1>4. ASSUME NEW i \in Jobs, JobStep(i) PROVE keeper'[k] = keeper[k]
  BY <1>4, Job_Leaves_Calls
<1>5. ASSUME NEW m \in Keepers, m # k, KeeperStep(m) PROVE keeper'[k] = keeper[k]
  BY <1>5, Others_Stay
<1> QED BY <1>2, <1>3, <1>4, <1>5, Next_Steps

LEMMA Next_Pass ==
    ASSUME DriftInv, WindowInv, PassInv, Next
    PROVE  PassInv'
<1>1. TypeOK /\ TypeOK' /\ shifted' \subseteq Keepers
  BY Next_Type DEF DriftInv, TypeOK
<1>2. \A k \in shifted' : keeper'[k].call = "drain"
  BY <1>1, Next_Shifted
<1>3. ASSUME NEW k \in Keepers \ shifted'
      PROVE  /\ owed'[k] \subseteq Debt(keeper'[k], hash', index')
             /\ keeper'[k].call = "drain" =>
                   Passing(keeper'[k], owed'[k], index'[keeper'[k].key])
             /\ keeper'[k].call = "walk" => Walking(keeper'[k], owed'[k])
  BY <1>1, Next_Passing, Next_Walking, Next_Idle
<1> QED BY <1>2, <1>3 DEF PassInv

LEMMA Init_Pass == Init => PassInv
BY DEF Init, PassInv, NoCall

LEMMA Stutter_Pass ==
    ASSUME PassInv, UNCHANGED vars
    PROVE  PassInv'
BY DEF PassInv, vars, hashVars, historyVars

LEMMA PassInvariant == Spec => [](DriftInv /\ WindowInv /\ PassInv)
<1>1. DriftInv /\ WindowInv /\ PassInv /\ [Next]_vars => PassInv'
  BY Next_Pass, Stutter_Pass
<1> QED BY <1>1, Init_Pass, WindowInvariant, PTL DEF Spec

\* The step with which a drain or a walk returns.
LEMMA Last_Step ==
    ASSUME DriftInv, WindowInv, PassInv, Next, NEW k \in Keepers \ shifted,
           keeper[k].at # Resting, keeper'[k].at = Resting
    PROVE  owed[k] \cap Debt(keeper[k], hash', index') \subseteq Misfiled(keeper[k])
<1> DEFINE c == keeper[k]
           S == index[c.key]
           left == owed[k] \cap Debt(c, hash', index')
<1>0. TypeOK /\ c \in CallState /\ c.key \in Key /\ S \in SUBSET Jobs /\ c.offset \in Nat
  BY DEF DriftInv, TypeOK, CallState
<1>1. KeeperStep(k)
  BY <1>0, Job_Leaves_Calls, Others_Stay, Next_Steps
<1>2. CASE c.call \notin {"drain", "walk"}
  BY <1>2 DEF Debt
<1>3. CASE c.call = "drain"
  <2>1. /\ owed[k] \subseteq Debt(c, hash, index) /\ Passing(c, owed[k], S)
        /\ left \subseteq index'[c.key]
    BY <1>3, Debt_Drain DEF PassInv
  <2>2. CASE ReadWindow(k)
    <3>1. Window(c.key, c.offset) = {}
      <4> DEFINE e == [c EXCEPT !.at = "copy", !.window = Window(c.key, c.offset)]
      <4>1. e.at = "copy"
        BY <1>0 DEF CallState
      <4>2. ~Goes(k, e)
        <5> HIDE DEF e
        <5> QED BY <1>0, <4>1, Goes_To DEF Resting
      <4> QED BY <2>2, <4>2 DEF ReadWindow
    <3>2. ASSUME NEW j \in owed[k] PROVE FALSE
      <4>1. j \in S /\ Rank(c.key, j) > c.offset
        BY <2>1 DEF Passing, Rank, Place
      <4>2. Cardinality({}) = Batch
        BY <1>0, <3>1, <4>1, Full_Window
      <4> QED BY <4>2, FS_EmptySet, IndexAssumption
    <3> QED BY <3>2
  <2>3. CASE ReadHashes(k)
    <3> DEFINE e == Copies(k, c.window)
    <3>1. e \in CallState /\ e.at = "write" /\ e.window = c.window
      BY <1>0, Copies_Fields DEF CallState
    <3>2. ~Goes(k, e) /\ ~Goes(k, NextWindow(e))
      <4>1. NextWindow(e).at = "read"
        BY <3>1, NextWindow_Fields
      <4> HIDE DEF e
      <4> QED BY <1>0, <3>1, <4>1, Goes_To DEF Resting
    <3>3. Skipped(e) = c.window /\ Cardinality(c.window) < Batch
      BY <2>3, <3>1, <3>2 DEF ReadHashes, Continues
    <3>4. In(k, "drain", "copy") /\ Cardinality(c.window) \in Nat
      BY <1>0, <2>3, Fewer DEF ReadHashes, CallState
    <3>5. owed[k] \cap c.window = {}
      BY <1>0, <2>1, <3>3, <3>4, Nothing_Owed_Here
    <3>6. owed[k] \subseteq c.window
      BY <2>1, <3>3, <3>4, IndexAssumption DEF Passing, In
    <3> QED BY <3>5, <3>6
  <2>4. CASE WriteWindow(k)
    <3>1. Cardinality(c.window) < Batch /\ c.at = "write"
      <4>1. ~Goes(k, NextWindow(c))
        BY <1>0, NextWindow_Fields, Goes_To DEF Resting
      <4> QED BY <2>4, <4>1 DEF WriteWindow, Continues, In
    <3>2. Cardinality(c.window) \in Nat
      BY <1>0, Fewer DEF CallState
    <3>3. owed[k] \subseteq c.window
      BY <2>1, <3>1, <3>2, IndexAssumption DEF Passing
    <3> SUFFICES ASSUME NEW j \in left, j \notin Misfiled(c) PROVE FALSE
      OBVIOUS
    <3>4. j \in c.window /\ (j \in c.selection \/ c.copy[j] = "absent")
      BY <2>1, <3>1, <3>3 DEF Passing
    <3> QED BY <1>0, <2>1, <2>4, <3>4, Written_Off
  <2> QED BY <1>1, <1>3, <2>2, <2>3, <2>4, Going_On
<1>4. CASE c.call = "walk"
  <2>1. Walking(c, owed[k]) /\ left \subseteq {j \in index'[c.key] : hash'[j] = "absent"}
    BY <1>4 DEF PassInv, Debt
  <2>2. In(k, "walk", "read") \/ In(k, "walk", "write")
    BY <1>4, <2>1 DEF Walking, In
  <2>3. CASE WalkRemoves(k) /\ c.todo = {}
    <3>1. index'[c.key] \cap c.window = {}
      BY <1>0, <2>3 DEF WalkRemoves, IndexRemove
    <3> QED BY <2>1, <2>3, <3>1 DEF Walking
  <2>4. ASSUME NEW ids \in SUBSET c.todo, In(k, "walk", "read"), UNCHANGED hash,
               c.todo = ids, Stale(ids) = {}
        PROVE  left = {}
    BY <2>1, <2>4 DEF Walking, In, Stale
  <2> QED BY <1>0, <1>1, <2>2, <2>3, <2>4, Walk_Moves DEF Resting
<1> QED BY <1>2, <1>3, <1>4

\* A drain examines everything its filters select and every entry without a
\* hash, and a walk the latter: the offset steps over nothing but what was
\* kept (_drain_index), unless what it counts on is taken away under it.
THEOREM NothingIsPassedOver == Spec => NothingPassedOver
<1> DEFINE A == \A k \in Keepers \ shifted :
                  (keeper[k].at # Resting /\ keeper'[k].at = Resting) =>
                      owed[k] \cap Debt(keeper[k], hash', index') \subseteq Misfiled(keeper[k])
<1>1. DriftInv /\ WindowInv /\ PassInv /\ [Next]_vars => [A]_vars
  BY Last_Step
<1> QED BY <1>1, PassInvariant, PTL DEF Spec, NothingPassedOver

=============================================================================
