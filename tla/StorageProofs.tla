--------------------------- MODULE StorageProofs ---------------------------
(***************************************************************************)
(* Proofs about StorageRecovery, for any number of coroutines, any bounds  *)
(* and both kinds of driver.                                               *)
(***************************************************************************)
EXTENDS StorageRecovery, TLAPS

\* What the proofs need of the types.
CallTypes ==
    /\ call \in [Coroutines -> CallRecord]
    /\ guard \in BOOLEAN
    /\ driver \in Drivers

Inv == CallTypes /\ GuardInv

-----------------------------------------------------------------------------
(* Updates of a call *)

LEMMA CallsAreRecords ==
  ASSUME CallTypes, NEW c \in Coroutines
  PROVE  /\ call[c] \in CallRecord
         /\ call[c].at \in Points /\ call[c].write \in Writes \cup {NoWork}
         /\ call[c].tries \in 0..MaxRetries /\ call[c].frames \in Seq(Frame)
  BY DEF CallTypes, CallRecord

\* The others keep their calls.
LEMMA OneCall ==
  ASSUME CallTypes, NEW c \in Coroutines, NEW r \in CallRecord,
         call' = [call EXCEPT ![c] = r], UNCHANGED driver, guard' \in BOOLEAN
  PROVE  /\ CallTypes'
         /\ call'[c] = r
         /\ \A d \in Coroutines \ {c} : call'[d] = call[d]
  BY DEF CallTypes

LEMMA FirstFrame ==
  LET f == [stage |-> 1, armed |-> FALSE] IN f \in Frame /\ <<f>> \in Seq(Frame)
<1> DEFINE f == [stage |-> 1, armed |-> FALSE]
<1>1. f \in Frame
  BY DEF Frame, Stages
<1> HIDE DEF f
<1>2. <<f>> \in Seq(Frame)
  BY <1>1
<1> QED
  BY <1>1, <1>2 DEF f

LEMMA NoCallIsCall == NoCall \in CallRecord
  BY StorageAssumption DEF NoCall, CallRecord, Points


-----------------------------------------------------------------------------
(* The kinds of step there are                                             *)

\* A coroutine that does not clean, before and after.
LEMMA OutsideCleanup ==
  ASSUME Inv, NEW c \in Coroutines, NEW r \in CallRecord,
         call[c].at # "clean", r.at # "clean", r.frames = <<>>,
         call' = [call EXCEPT ![c] = r], UNCHANGED <<driver, guard, crowded>>
  PROVE  Inv'
<1>1. /\ CallTypes' /\ call'[c] = r
      /\ \A d \in Coroutines \ {c} : call'[d] = call[d]
  BY OneCall DEF Inv, CallTypes
<1>2. Cleaning' = Cleaning
  BY <1>1 DEF Cleaning
<1>3. GuardReleased'
  BY <1>2 DEF Inv, GuardInv, GuardReleased
<1>4. GuardStopsRecursion'
  BY <1>1 DEF Inv, GuardInv, GuardStopsRecursion, Depth
<1>5. ASSUME NEW d \in (Cleaning \ crowded)'
      PROVE  guard' /\ Cleaning' = {d}
  BY <1>2 DEF Inv, GuardInv
<1>6. ASSUME NEW d \in Coroutines
      PROVE  /\ call'[d].at # "clean" => call'[d].frames = <<>>
             /\ InPrune(d)' => call'[d].frames # <<>>
             /\ \A i \in DOMAIN call'[d].frames :
                   driver' = "pooled" /\ (call'[d].frames[i].armed => d \in crowded')
  BY <1>1 DEF Inv, GuardInv, InPrune
<1> QED
  BY <1>1, <1>3, <1>4, <1>5, <1>6 DEF Inv, GuardInv

\* A cleanup that ends resets the flag; whoever else cleans is crowded.
LEMMA LeavesCleanup ==
  ASSUME Inv, NEW c \in Coroutines, NEW r \in CallRecord,
         call[c].at = "clean", r.at # "clean", r.frames = <<>>,
         call' = [call EXCEPT ![c] = r], guard' = FALSE, UNCHANGED <<driver, crowded>>
  PROVE  Inv'
<1>1. /\ CallTypes' /\ call'[c] = r
      /\ \A d \in Coroutines \ {c} : call'[d] = call[d]
  BY OneCall DEF Inv, CallTypes
<1>2. Cleaning' = Cleaning \ {c} /\ c \in Cleaning
  BY <1>1 DEF Cleaning
<1>3. GuardReleased'
  BY DEF GuardReleased
<1>4. GuardStopsRecursion'
  BY <1>1 DEF Inv, GuardInv, GuardStopsRecursion, Depth
<1>5. (Cleaning \ crowded)' = {}
  BY <1>2 DEF Inv, GuardInv
<1>6. ASSUME NEW d \in Coroutines
      PROVE  /\ call'[d].at # "clean" => call'[d].frames = <<>>
             /\ InPrune(d)' => call'[d].frames # <<>>
             /\ \A i \in DOMAIN call'[d].frames :
                   driver' = "pooled" /\ (call'[d].frames[i].armed => d \in crowded')
  BY <1>1 DEF Inv, GuardInv, InPrune
<1> QED
  BY <1>1, <1>3, <1>4, <1>5, <1>6 DEF Inv, GuardInv

\* A cleanup of a pooled driver goes on: with the flag as it was, or crowded.
LEMMA StaysInCleanup ==
  ASSUME Inv, NEW c \in Coroutines, NEW fs \in Seq(Frame), InPrune(c), fs # <<>>,
         Len(fs) > 1 => c \in crowded,
         \A i \in DOMAIN fs : fs[i].armed => c \in crowded,
         call' = [call EXCEPT ![c] = [call[c] EXCEPT !.frames = fs]],
         guard' \in BOOLEAN, guard' = guard \/ c \in crowded, UNCHANGED <<driver, crowded>>
  PROVE  Inv'
<1> DEFINE r == [call[c] EXCEPT !.frames = fs]
<1>0. r \in CallRecord /\ r.at = "clean" /\ r.frames = fs
  BY CallsAreRecords DEF Inv, CallRecord, InPrune
<1>1. /\ CallTypes' /\ call'[c] = r
      /\ \A d \in Coroutines \ {c} : call'[d] = call[d]
  BY <1>0, OneCall DEF Inv
<1>2. Cleaning' = Cleaning /\ c \in Cleaning
  BY <1>0, <1>1 DEF Cleaning, InPrune
<1>3. GuardReleased'
  BY <1>2 DEF GuardReleased
<1>4. GuardStopsRecursion'
  BY <1>0, <1>1 DEF Inv, GuardInv, GuardStopsRecursion, Depth, InPrune
<1>5. ASSUME NEW d \in (Cleaning \ crowded)'
      PROVE  guard' /\ Cleaning' = {d}
  BY <1>2 DEF Inv, GuardInv
<1>6. ASSUME NEW d \in Coroutines
      PROVE  /\ call'[d].at # "clean" => call'[d].frames = <<>>
             /\ InPrune(d)' => call'[d].frames # <<>>
             /\ \A i \in DOMAIN call'[d].frames :
                   driver' = "pooled" /\ (call'[d].frames[i].armed => d \in crowded')
  BY <1>0, <1>1 DEF Inv, GuardInv, InPrune
<1> QED
  BY <1>1, <1>3, <1>4, <1>5, <1>6 DEF Inv, GuardInv


-----------------------------------------------------------------------------
(* One lemma per action that touches the flag or a cleanup                 *)

LEMMA OverflowsKeeps ==
  ASSUME Inv, NEW c \in Coroutines, Overflows(c)
  PROVE  Inv'
<1> DEFINE fs == IF driver = "sqlite" THEN <<>> ELSE <<[stage |-> 1, armed |-> FALSE]>>
           r == [call[c] EXCEPT !.at = "clean", !.tries = 0, !.frames = fs]
<1>1. fs \in Seq(Frame) /\ Len(fs) <= 1 /\ \A i \in DOMAIN fs : ~fs[i].armed
  <2>1. CASE driver = "sqlite"
    BY <2>1
  <2>2. CASE driver # "sqlite"
    BY <2>2, FirstFrame
  <2> QED
    BY <2>1, <2>2
<1>2. r \in CallRecord /\ r.at = "clean" /\ r.frames = fs
  <2> HIDE DEF fs
  <2>1. "clean" \in Points /\ 0 \in 0..MaxRetries
    BY StorageAssumption DEF Points
  <2>2. call[c] \in CallRecord
    BY CallsAreRecords DEF Inv
  <2> QED
    BY <1>1, <2>1, <2>2 DEF CallRecord
<1>3. call' = [call EXCEPT ![c] = r] /\ guard' = TRUE /\ UNCHANGED driver
  BY CallsAreRecords DEF Overflows, storeVars, Inv, CallTypes
<1>4. /\ CallTypes' /\ call'[c] = r
      /\ \A d \in Coroutines \ {c} : call'[d] = call[d]
  BY <1>2, <1>3, OneCall DEF Inv
<1>5. c \notin Cleaning /\ Cleaning' = Cleaning \cup {c}
  <2>1. call'[c].at = "clean" /\ call[c].at = "first"
    BY <1>2, <1>4 DEF Overflows
  <2> HIDE DEF r
  <2> QED
    BY <2>1, <1>4 DEF Cleaning
<1>6. crowded' = IF Cleaning = {} THEN crowded \ {c} ELSE crowded \cup Cleaning \cup {c}
  BY DEF Overflows
<1>7. GuardReleased'
  BY <1>5 DEF GuardReleased
<1>8. GuardStopsRecursion'
  <2> SUFFICES ASSUME NEW d \in Coroutines, Depth(d)' > 1
               PROVE  d \in crowded' /\ driver' = "pooled"
    BY DEF GuardStopsRecursion
  <2>1. d # c
    <3> HIDE DEF fs, r
    <3>1. call'[c].frames = fs
      BY <1>2, <1>4
    <3>2. ~(Len(fs) > 1)
      BY <1>1
    <3> QED
      BY <3>1, <3>2 DEF Depth
  <2>2. d \in crowded /\ driver = "pooled"
    BY <2>1, <1>4 DEF Inv, GuardInv, GuardStopsRecursion, Depth
  <2> QED
    BY <1>3, <1>6, <2>1, <2>2
<1>9. ASSUME NEW d \in (Cleaning \ crowded)'
      PROVE  guard' /\ Cleaning' = {d}
  BY <1>3, <1>5, <1>6
<1>10. ASSUME NEW d \in Coroutines
       PROVE  /\ call'[d].at # "clean" => call'[d].frames = <<>>
              /\ InPrune(d)' => call'[d].frames # <<>>
              /\ \A i \in DOMAIN call'[d].frames :
                    driver' = "pooled" /\ (call'[d].frames[i].armed => d \in crowded')
  <2>1. CASE d = c
    BY <1>1, <1>2, <1>3, <1>4, <2>1, StorageAssumption DEF Inv, CallTypes, InPrune
  <2>2. CASE d # c
    BY <1>3, <1>4, <1>6, <2>2 DEF Inv, GuardInv, InPrune
  <2> QED
    BY <2>1, <2>2
<1> QED
  BY <1>3, <1>4, <1>7, <1>8, <1>9, <1>10 DEF Inv, GuardInv

\* The cleanup a coroutine of a pooled driver is in.
LEMMA PruneFacts ==
  ASSUME Inv, NEW c \in Coroutines, InPrune(c)
  PROVE  /\ call[c].frames \in Seq(Frame) /\ Depth(c) \in Nat \ {0}
         /\ Top(c) \in Frame
         /\ Depth(c) > 1 => c \in crowded
         /\ \A i \in DOMAIN call[c].frames : call[c].frames[i].armed => c \in crowded
         /\ ~guard => c \in crowded
<1>1. call[c].frames \in Seq(Frame) /\ call[c].frames # <<>>
  BY CallsAreRecords DEF Inv, GuardInv
<1>2. Depth(c) \in Nat \ {0} /\ Top(c) \in Frame
  BY <1>1 DEF Depth, Top
<1>3. ~guard => c \in crowded
  BY DEF Inv, GuardInv, Cleaning, InPrune
<1> QED
  BY <1>1, <1>2, <1>3 DEF Inv, GuardInv, GuardStopsRecursion

LEMMA NextPruneKeeps ==
  ASSUME Inv, NEW c \in Coroutines, InPrune(c), NextPrune(c), UNCHANGED <<driver, crowded>>
  PROVE  Inv'
<1> DEFINE f == [stage |-> Top(c).stage + 1, armed |-> AutoCleanup /\ ~guard]
           fs == SetTop(c, f)
<1>1. f \in Frame
  BY PruneFacts, StorageAssumption DEF NextPrune, Frame, Stages, Inv, CallTypes
<1> HIDE DEF f
<1>2. /\ fs \in Seq(Frame) /\ Len(fs) = Depth(c) /\ fs[Depth(c)] = f
      /\ \A i \in DOMAIN fs : i # Depth(c) => fs[i] = call[c].frames[i]
  BY <1>1, PruneFacts DEF SetTop, Depth
<1>3. \A i \in DOMAIN fs : fs[i].armed => c \in crowded
  <2> SUFFICES ASSUME NEW i \in DOMAIN fs, fs[i].armed PROVE c \in crowded
    OBVIOUS
  <2>1. CASE i = Depth(c)
    <3>0. f.armed
      BY <1>2, <2>1
    <3>1. ~guard
      BY <3>0, Zenon DEF f
    <3> QED
      BY <3>1, PruneFacts
  <2>2. CASE i # Depth(c)
    <3>1. i \in DOMAIN call[c].frames
      BY <1>2, PruneFacts DEF Depth
    <3> QED
      BY <1>2, <2>2, <3>1, PruneFacts
  <2> QED
    BY <2>1, <2>2
<1>4. call' = [call EXCEPT ![c] = [call[c] EXCEPT !.frames = fs]] /\ guard' = guard
  BY DEF NextPrune, f
<1>5. Len(fs) > 1 => c \in crowded
  BY <1>2, <1>4, PruneFacts DEF Inv, CallTypes
<1>6. fs # <<>> /\ guard' \in BOOLEAN
  BY <1>2, <1>4, PruneFacts DEF Inv, CallTypes
<1> HIDE DEF fs
<1> QED
  BY <1>2, <1>3, <1>4, <1>5, <1>6, StaysInCleanup

LEMMA EndsCleanupKeeps ==
  ASSUME Inv, NEW c \in Coroutines, InPrune(c), EndsCleanup(c), UNCHANGED <<driver, crowded>>
  PROVE  Inv'
<1>1. CASE Depth(c) = 1
  <2> DEFINE r == [call[c] EXCEPT !.at = "again", !.frames = <<>>]
  <2>1. r \in CallRecord /\ r.at = "again" /\ r.frames = <<>>
    <3>1. call[c] \in CallRecord /\ <<>> \in Seq(Frame) /\ "again" \in Points
      BY CallsAreRecords DEF Inv, Points
    <3> QED
      BY <3>1 DEF CallRecord
  <2>2. call' = [call EXCEPT ![c] = r] /\ guard' = FALSE
    <3>1. call' = [call EXCEPT ![c].at = "again", ![c].frames = <<>>] /\ guard' = FALSE
      BY <1>1 DEF EndsCleanup
    <3>2. call \in [Coroutines -> CallRecord]
      BY DEF Inv, CallTypes
    <3> QED
      BY <3>1, <3>2
  <2> QED
    BY <2>1, <2>2, LeavesCleanup DEF InPrune
<1>2. CASE Depth(c) > 1
  <2> DEFINE fs == [Front(call[c].frames) EXCEPT ![Depth(c) - 1].armed = FALSE]
  <2>1. fs \in Seq(Frame) /\ Len(fs) = Depth(c) - 1
    <3> DEFINE up == Front(call[c].frames)
    <3>1. up \in Seq(Frame) /\ Len(up) = Depth(c) - 1
      BY <1>2, PruneFacts DEF Front, Depth
    <3>2. Depth(c) - 1 \in 1..Len(up) /\ up[Depth(c) - 1] \in Frame
      BY <1>2, <3>1, PruneFacts
    <3>3. [up[Depth(c) - 1] EXCEPT !.armed = FALSE] \in Frame
      BY <3>2 DEF Frame
    <3> HIDE DEF up
    <3> QED
      BY <3>1, <3>2, <3>3 DEF up
  <2>2. call' = [call EXCEPT ![c] = [call[c] EXCEPT !.frames = fs]] /\ guard' = FALSE
    BY <1>2, PruneFacts DEF EndsCleanup
  <2>3. c \in crowded /\ fs # <<>>
    BY <1>2, <2>1, PruneFacts
  <2> QED
    BY <2>1, <2>2, <2>3, StaysInCleanup
<1> QED
  BY <1>1, <1>2 DEF EndsCleanup

LEMMA PruneOverflowsKeeps ==
  ASSUME Inv, NEW c \in Coroutines, PruneOverflows(c)
  PROVE  Inv'
<1> DEFINE fs == Append(call[c].frames, [stage |-> 1, armed |-> FALSE])
<1>0. InPrune(c)
  BY DEF PruneOverflows
<1>1. fs \in Seq(Frame) /\ fs # <<>>
  BY <1>0, PruneFacts DEF Frame, Stages
<1>2. c \in crowded
  BY <1>0, PruneFacts DEF PruneOverflows, Top, Depth
<1>3. call' = [call EXCEPT ![c] = [call[c] EXCEPT !.frames = fs]]
  BY DEF PruneOverflows
<1>4. guard' = TRUE /\ UNCHANGED <<driver, crowded>>
  BY DEF PruneOverflows, storeVars
<1> QED
  BY <1>0, <1>1, <1>2, <1>3, <1>4, StaysInCleanup

\* A call that ends for whatever reason, inside a cleanup or outside.
LEMMA ReturnsKeeps ==
  ASSUME Inv, NEW c \in Coroutines, Returns(c), UNCHANGED <<driver, crowded>>,
         guard' = IF call[c].at = "clean" THEN FALSE ELSE guard
  PROVE  Inv'
<1>1. NoCall.at # "clean" /\ NoCall.frames = <<>>
  BY DEF NoCall
<1>2. call' = [call EXCEPT ![c] = NoCall]
  BY DEF Returns
<1>3. CASE call[c].at = "clean"
  BY <1>1, <1>2, <1>3, NoCallIsCall, LeavesCleanup
<1>4. CASE call[c].at # "clean"
  BY <1>1, <1>2, <1>4, NoCallIsCall, OutsideCleanup
<1> QED
  BY <1>3, <1>4

-----------------------------------------------------------------------------
(* The invariant                                                           *)

LEMMA InitInv == Init => Inv
<1> SUFFICES ASSUME Init PROVE Inv
  OBVIOUS
<1>1. CallTypes
  BY NoCallIsCall DEF Init, CallTypes
<1>2. \A c \in Coroutines : call[c].at = "none" /\ call[c].frames = <<>>
  BY DEF Init, NoCall
<1>3. Cleaning = {} /\ ~guard
  BY <1>2 DEF Cleaning, Init
<1> QED
  BY <1>1, <1>2, <1>3 DEF Inv, GuardInv, GuardReleased, GuardStopsRecursion, Depth, InPrune

\* The steps of a call outside a cleanup.
LEMMA CallKeeps ==
  ASSUME Inv, NEW c \in Coroutines,
         \/ \E w \in Calls : Begins(c, w)
         \/ Locks(c) \/ Succeeds(c) \/ FindsLocked(c) \/ IsRefused(c)
  PROVE  Inv'
<1>1. ASSUME NEW w \in Calls, Begins(c, w) PROVE Inv'
  <2> DEFINE r == [NoCall EXCEPT !.at = IF driver = "sqlite" THEN "lock" ELSE Checked,
                                 !.write = w]
  <2>1. r \in CallRecord /\ r.at # "clean" /\ r.frames = <<>>
    <3>1. Checked \in Points \ {"clean"} /\ "lock" \in Points /\ w \in Writes
      BY StorageAssumption DEF Checked, Points
    <3>2. NoCall \in CallRecord /\ NoCall.frames = <<>>
      BY NoCallIsCall DEF NoCall
    <3> QED
      BY <3>1, <3>2 DEF CallRecord
  <2>2. call' = [call EXCEPT ![c] = r] /\ call[c].at # "clean"
    BY <1>1 DEF Begins
  <2> QED
    BY <1>1, <2>1, <2>2, OutsideCleanup DEF Begins, storeVars, historyVars
<1>2. CASE Locks(c)
  <2> DEFINE r == [call[c] EXCEPT !.at = Checked]
  <2>1. call[c].at # "clean" /\ call[c].frames = <<>>
    BY <1>2 DEF Locks, Inv, GuardInv
  <2>2. r \in CallRecord /\ r.at # "clean" /\ r.frames = <<>>
    BY <2>1, CallsAreRecords DEF Inv, CallRecord, Points, Checked
  <2>3. call' = [call EXCEPT ![c] = r]
    BY <1>2 DEF Locks
  <2> QED
    BY <1>2, <2>1, <2>2, <2>3, OutsideCleanup DEF Locks, storeVars, historyVars
<1>3. CASE Succeeds(c)
  <2>1. call[c].at # "clean" /\ Returns(c) /\ UNCHANGED <<driver, guard, crowded>>
    BY <1>3 DEF Succeeds
  <2> QED
    BY <2>1, ReturnsKeeps
<1>4. CASE FindsLocked(c)
  <2>1. call[c].at # "clean" /\ UNCHANGED <<driver, guard, crowded>>
    BY <1>4 DEF FindsLocked, storeVars, historyVars
  <2>2. CASE Returns(c)
    BY <2>1, <2>2, ReturnsKeeps
  <2>3. CASE call[c].tries < MaxRetries - 1 /\ call' = [call EXCEPT ![c].tries = @ + 1]
    <3> DEFINE r == [call[c] EXCEPT !.tries = @ + 1]
    <3>1. r \in CallRecord /\ r.at # "clean" /\ r.frames = <<>>
      BY <2>1, <2>3, CallsAreRecords, StorageAssumption DEF Inv, GuardInv, CallRecord
    <3>2. call' = [call EXCEPT ![c] = r]
      BY <2>3
    <3> QED
      BY <2>1, <3>1, <3>2, OutsideCleanup
  <2> QED
    BY <1>4, <2>2, <2>3 DEF FindsLocked
<1>5. CASE IsRefused(c)
  <2>1. call[c].at # "clean" /\ Returns(c) /\ UNCHANGED <<driver, guard, crowded>>
    BY <1>5 DEF IsRefused, storeVars, historyVars
  <2> QED
    BY <2>1, ReturnsKeeps
<1> QED
  BY <1>1, <1>2, <1>3, <1>4, <1>5

\* The steps of a cleanup, and what ends a call from outside.
LEMMA CleanupKeeps ==
  ASSUME Inv, NEW c \in Coroutines,
         Prunes(c) \/ PruneFails(c) \/ Purges(c) \/ PurgeFails(c) \/ Cancels(c)
  PROVE  Inv'
<1>1. CASE Prunes(c)
  BY <1>1, NextPruneKeeps, EndsCleanupKeeps DEF Prunes, historyVars
<1>2. CASE PruneFails(c)
  BY <1>2, NextPruneKeeps, EndsCleanupKeeps DEF PruneFails, storeVars
<1>3. CASE Purges(c)
  <2> DEFINE r == [call[c] EXCEPT !.at = "again"]
  <2>1. call[c].at = "clean" /\ driver = "sqlite"
    BY <1>3 DEF Purges, InPurge
  <2>2. call[c].frames = <<>>
    <3>1. \A i \in DOMAIN call[c].frames : FALSE
      BY <2>1 DEF Inv, GuardInv
    <3>2. call[c].frames \in Seq(Frame)
      BY CallsAreRecords DEF Inv
    <3>3. Len(call[c].frames) = 0
      <4>1. Len(call[c].frames) > 0 => 1 \in DOMAIN call[c].frames
        BY <3>2
      <4> QED
        BY <3>1, <3>2, <4>1
    <3> QED
      BY <3>2, <3>3
  <2>3. r \in CallRecord /\ r.at # "clean" /\ r.frames = <<>>
    BY <2>2, CallsAreRecords DEF Inv, CallRecord, Points
  <2>4. call' = [call EXCEPT ![c] = r]
    BY <1>3 DEF Purges
  <2> QED
    BY <1>3, <2>1, <2>3, <2>4, LeavesCleanup DEF Purges, historyVars
<1>4. CASE PurgeFails(c)
  BY <1>4, ReturnsKeeps DEF PurgeFails, InPurge, historyVars
<1>5. CASE Cancels(c)
  <2>1. UNCHANGED <<driver, crowded>>
    BY <1>5 DEF Cancels, storeVars
  <2> QED
    BY <1>5, <2>1, ReturnsKeeps DEF Cancels
<1> QED
  BY <1>1, <1>2, <1>3, <1>4, <1>5

LEMMA NextInv == Inv /\ [Next]_vars => Inv'
<1> SUFFICES ASSUME Inv, [Next]_vars PROVE Inv'
  OBVIOUS
<1>1. CASE UNCHANGED <<driver, guard, call, crowded>>
  BY <1>1 DEF Inv, CallTypes, GuardInv, GuardReleased, GuardStopsRecursion, Cleaning,
              Depth, InPrune
<1>2. ASSUME NEW c \in Coroutines,
             \/ \E w \in Calls : Begins(c, w)
             \/ Locks(c) \/ Proceeds(c) \/ Cancels(c)
      PROVE  Inv'
  BY <1>2, CallKeeps, CleanupKeeps, OverflowsKeeps, PruneOverflowsKeeps DEF Proceeds
<1>3. ASSUME NEW c \in Coroutines, StrayEnds(c) PROVE Inv'
  BY <1>1, <1>3 DEF StrayEnds
<1>4. ASSUME NEW w \in Calls, Elsewhere(w) PROVE Inv'
  BY <1>1, <1>4 DEF Elsewhere
<1>6. CASE Vacuum
  BY <1>1, <1>6 DEF Vacuum, historyVars
<1>5. CASE UNCHANGED vars
  BY <1>1, <1>5 DEF vars, storeVars, historyVars
<1> QED
  BY <1>2, <1>3, <1>4, <1>5, <1>6 DEF Next

LEMMA Invariant == Spec => []Inv
<1>1. Init => Inv
  BY InitInv
<1>2. Inv /\ [Next]_vars => Inv'
  BY NextInv
<1> QED
  BY <1>1, <1>2, PTL DEF Spec

\* The flag of the recovery is set only while some coroutine is in a cleanup,
\* whatever raises or is cancelled (the finally clause of
\* _with_disk_full_recovery and of _execute_with_retry).
THEOREM FlagIsReleased == Spec => []GuardReleased
<1>1. Inv => GuardReleased
  BY DEF Inv, GuardInv
<1> QED
  BY <1>1, Invariant, PTL

\* A cleanup starts another one only when two coroutines have been in cleanups
\* at once, and on the sqlite driver never.
THEOREM RecursionTakesTwo == Spec => []GuardStopsRecursion
<1>1. Inv => GuardStopsRecursion
  BY DEF Inv, GuardInv
<1> QED
  BY <1>1, Invariant, PTL

-----------------------------------------------------------------------------
(* Room: what a cleanup has yet to purge, and what it leaves               *)

\* The rows that are left if the prunes from stage s on leave none of theirs.
Kept(s) ==
    rows["open"] + (IF s > 1 THEN rows["completed"] ELSE 0)
                 + (IF s > 2 THEN rows["failed"] ELSE 0)
                 + (IF s > 3 THEN rows["cancelled"] ELSE 0)
                 + (IF s > 4 THEN rows["metrics"] ELSE 0)

\* The prune a cleanup is at; sqlite makes all four at once.
Stage(c) == IF driver = "sqlite" THEN 1 ELSE Top(c).stage

\* A coroutine without an excuse finds room when it tries again, and while it
\* cleans there will be room after the prunes still to come.
Room(c) ==
    /\ call[c].at = "again" => Kept(5) + call[c].write.size <= Capacity
    /\ call[c].at = "clean" => Kept(Stage(c)) + call[c].write.size <= Capacity
    /\ InPrune(c) => Depth(c) = 1

SpaceInv ==
    /\ rows \in [Kinds -> Nat]
    /\ stray \in [Coroutines -> Writes \cup {NoWork, Purge}]
    /\ \A c \in Coroutines \ excused : Room(c)

\* What a step may do to the rows that takes nobody's room.
Shrinks ==
    /\ rows' \in [Kinds -> Nat]
    /\ \A s \in 1..5 : Kept(s)' <= Kept(s)

LEMMA StagesAreKinds ==
  /\ DOMAIN Stages = 1..4 /\ Len(Stages) = 4
  /\ Stages[1] = "completed" /\ Stages[2] = "failed"
  /\ Stages[3] = "cancelled" /\ Stages[4] = "metrics"
  BY DEF Stages

LEMMA RowCounts ==
  ASSUME rows \in [Kinds -> Nat]
  PROVE  /\ rows["open"] \in Nat /\ rows["completed"] \in Nat /\ rows["failed"] \in Nat
         /\ rows["cancelled"] \in Nat /\ rows["metrics"] \in Nat /\ rows["dead"] \in Nat
         /\ \A s \in 1..5 : Kept(s) \in Nat
         /\ Kept(5) = Held
<1>1. {"open", "completed", "failed", "cancelled", "metrics", "dead"} = Kinds
  BY DEF Kinds
<1> QED
  BY <1>1 DEF Kept, Held

\* Fewer or equal rows of every kind but the dead.
LEMMA LessIsKept ==
  ASSUME rows \in [Kinds -> Nat], rows' \in [Kinds -> Nat],
         \A k \in Kinds \ {"dead"} : rows'[k] <= rows[k]
  PROVE  Shrinks
<1>1. /\ rows'["open"] <= rows["open"] /\ rows'["completed"] <= rows["completed"]
      /\ rows'["failed"] <= rows["failed"] /\ rows'["cancelled"] <= rows["cancelled"]
      /\ rows'["metrics"] <= rows["metrics"]
  BY DEF Kinds
<1>2. /\ rows'["open"] \in Nat /\ rows'["completed"] \in Nat /\ rows'["failed"] \in Nat
      /\ rows'["cancelled"] \in Nat /\ rows'["metrics"] \in Nat
  BY DEF Kinds
<1> QED
  BY <1>1, <1>2, RowCounts DEF Shrinks, Kept

LEMMA RowsStay ==
  ASSUME SpaceInv, UNCHANGED rows
  PROVE  Shrinks
  BY LessIsKept, RowCounts DEF SpaceInv, Kinds

\* The kinds of the stages from m to n are gone.
LEMMA PurgesShrink ==
  ASSUME rows \in [Kinds -> Nat], NEW m \in Nat, NEW n \in Nat, rows' = Purged(m, n)
  PROVE  /\ Shrinks
         /\ \A k \in Kinds : rows'[k] <= rows[k]
         /\ \A i \in DOMAIN Stages : i \in m..n => rows'[Stages[i]] = 0
<1>1. /\ rows' \in [Kinds -> Nat]
      /\ \A k \in Kinds : rows'[k] <= rows[k]
      /\ \A i \in DOMAIN Stages : i \in m..n => rows'[Stages[i]] = 0
  BY StagesAreKinds DEF Purged, Kinds
<1> QED
  BY <1>1, LessIsKept

\* So they are after one prune, wherever their space is.
LEMMA PruneShrinks ==
  ASSUME rows \in [Kinds -> Nat], NEW i \in 1..4, PrunesStage(i)
  PROVE  Shrinks /\ Kept(i + 1)' <= Kept(i)
<1>1. Stages[i] \in Kinds \ {"dead"} /\ i \in DOMAIN Stages
  BY StagesAreKinds DEF Kinds
<1>2. Purged(i, i) \in [Kinds -> Nat]
  BY DEF Purged
<1>3. /\ \A k \in Kinds : Purged(i, i)[k] <= rows[k]
      /\ Purged(i, i)[Stages[i]] = 0
  BY <1>1 DEF Purged
<1>5. /\ rows' \in [Kinds -> Nat]
      /\ \A k \in Kinds \ {"dead"} : rows'[k] <= rows[k]
      /\ rows'[Stages[i]] = 0
  <2>1. CASE rows' = Purged(i, i)
    BY <1>1, <1>2, <1>3, <2>1
  <2>2. CASE rows' = [Purged(i, i) EXCEPT !["dead"] = @ + rows[Stages[i]]]
    <3>1. rows[Stages[i]] \in Nat /\ Purged(i, i)["dead"] \in Nat
      BY <1>1, <1>2 DEF Kinds
    <3>2. Purged(i, i)["dead"] + rows[Stages[i]] \in Nat
      BY <3>1
    <3> QED
      BY <1>1, <1>2, <1>3, <2>2, <3>2
  <2> QED
    BY <2>1, <2>2 DEF PrunesStage
<1>6. Shrinks
  BY <1>5, LessIsKept
<1>7. /\ rows'["open"] \in Nat /\ rows'["completed"] \in Nat /\ rows'["failed"] \in Nat
      /\ rows'["cancelled"] \in Nat /\ rows'["metrics"] \in Nat
  BY <1>5 DEF Kinds
<1>8. /\ rows'["open"] <= rows["open"] /\ rows'["completed"] <= rows["completed"]
      /\ rows'["failed"] <= rows["failed"] /\ rows'["cancelled"] <= rows["cancelled"]
      /\ rows'["metrics"] <= rows["metrics"]
  BY <1>5 DEF Kinds
<1>9. Kept(i + 1)' <= Kept(i)
  <2>1. CASE i = 1
    BY <1>5, <1>7, <1>8, <2>1, RowCounts, StagesAreKinds DEF Kept
  <2>2. CASE i = 2
    BY <1>5, <1>7, <1>8, <2>2, RowCounts, StagesAreKinds DEF Kept
  <2>3. CASE i = 3
    BY <1>5, <1>7, <1>8, <2>3, RowCounts, StagesAreKinds DEF Kept
  <2>4. CASE i = 4
    BY <1>5, <1>7, <1>8, <2>4, RowCounts, StagesAreKinds DEF Kept
  <2> QED
    BY <2>1, <2>2, <2>3, <2>4
<1> QED
  BY <1>6, <1>9

LEMMA TakesShrink ==
  ASSUME rows \in [Kinds -> Nat], NEW w \in Writes, Takes(w)
  PROVE  /\ rows' \in [Kinds -> Nat]
         /\ w.from # Nothing => Shrinks
<1>0. \A k \in Kinds : rows[k] \in Nat
  OBVIOUS
<1>1. /\ w.from = Nothing \/ (w.from = "open" /\ w.size = 1)
      /\ w.to \in {"open", "completed", "failed", "metrics"} /\ w.size \in Nat
      /\ w.from = "open" => w.to # "metrics" /\ rows["open"] > 0
  BY <1>0 DEF Writes, Takes, Doable, Nothing, Kinds
<1>2. /\ \A k \in Kinds : rows'[k] = (rows[k] + (IF k = w.to THEN w.size ELSE 0))
                                         - (IF k = w.from THEN w.size ELSE 0)
      /\ DOMAIN rows' = Kinds /\ rows' = [k \in Kinds |-> rows'[k]]
  BY DEF Takes
<1>3. ASSUME NEW k \in Kinds PROVE rows'[k] \in Nat
  <2>1. /\ rows[k] \in Nat /\ (k = w.from => rows[k] > 0 /\ w.size = 1)
        /\ rows'[k] = (rows[k] + (IF k = w.to THEN w.size ELSE 0))
                        - (IF k = w.from THEN w.size ELSE 0)
    BY <1>0, <1>1, <1>2 DEF Nothing, Kinds
  <2>2. CASE k = w.from
    BY <1>1, <2>1, <2>2
  <2>3. CASE k # w.from
    BY <1>1, <2>1, <2>3
  <2> QED
    BY <2>2, <2>3
<1>4. rows' \in [Kinds -> Nat]
  BY <1>2, <1>3
<1>5. ASSUME w.from = "open" PROVE Shrinks
  <2>1. \A k \in Kinds : rows'[k] = (rows[k] + (IF k = w.to THEN 1 ELSE 0))
                                       - (IF k = "open" THEN 1 ELSE 0)
    BY <1>1, <1>2, <1>5 DEF Nothing
  <2>2. {"open", "completed", "failed", "cancelled", "metrics", "dead"} = Kinds
    BY DEF Kinds
  <2>3. CASE w.to = "open"
    <3>1. \A k \in Kinds : rows'[k] <= rows[k]
      BY <1>0, <2>1, <2>3
    <3> QED
      BY <1>4, <3>1, LessIsKept
  <2>4. CASE w.to = "completed"
    <3>1. /\ rows'["open"] = rows["open"] - 1 /\ rows'["completed"] = rows["completed"] + 1
          /\ rows'["failed"] = rows["failed"] /\ rows'["cancelled"] = rows["cancelled"]
          /\ rows'["metrics"] = rows["metrics"]
      BY <1>0, <2>1, <2>2, <2>4
    <3> QED
      BY <1>4, <3>1, RowCounts DEF Shrinks, Kept
  <2>5. CASE w.to = "failed"
    <3>1. /\ rows'["open"] = rows["open"] - 1 /\ rows'["completed"] = rows["completed"]
          /\ rows'["failed"] = rows["failed"] + 1 /\ rows'["cancelled"] = rows["cancelled"]
          /\ rows'["metrics"] = rows["metrics"]
      BY <1>0, <2>1, <2>2, <2>5
    <3> QED
      BY <1>4, <3>1, RowCounts DEF Shrinks, Kept
  <2> QED
    BY <1>1, <1>5, <2>3, <2>4, <2>5
<1> QED
  BY <1>1, <1>4, <1>5

\* How many rows the write of a call adds or changes.
LEMMA WriteSizes ==
  ASSUME CallTypes, NEW c \in Coroutines
  PROVE  call[c].write.size \in Nat
  BY CallsAreRecords DEF Writes, NoWork

\* A coroutine that has no part in the step keeps its room.
LEMMA OthersKeepRoom ==
  ASSUME SpaceInv, NEW d \in Coroutines, Room(d), Shrinks,
         call'[d] = call[d], UNCHANGED driver, Inv
  PROVE  Room(d)'
<1>1. call[d].write.size \in Nat /\ call'[d].write = call[d].write /\ Capacity \in Nat
  BY WriteSizes, StorageAssumption DEF Inv
<1>2. \A s \in 1..5 : Kept(s) \in Nat /\ Kept(s)' \in Nat
  BY RowCounts DEF SpaceInv, Shrinks, Kept, Kinds
<1>3. call[d].at = "clean" => Stage(d) \in 1..5 /\ Stage(d)' = Stage(d)
  <2>1. driver = "sqlite" \/ driver = "pooled"
    BY StorageAssumption DEF Inv, CallTypes
  <2>2. InPrune(d) => Top(d) \in Frame
    BY PruneFacts
  <2> QED
    BY <2>1, <2>2, StagesAreKinds DEF Stage, Top, Depth, InPrune, Frame
<1>4. call'[d].at = "clean" => Kept(Stage(d))' <= Kept(Stage(d)) /\ Kept(Stage(d)) \in Nat
                               /\ Kept(Stage(d))' \in Nat
  <2> SUFFICES ASSUME call'[d].at = "clean"
               PROVE  Kept(Stage(d))' <= Kept(Stage(d)) /\ Kept(Stage(d)) \in Nat
                      /\ Kept(Stage(d))' \in Nat
    OBVIOUS
  <2>1. PICK s \in 1..5 : s = Stage(d) /\ s = Stage(d)'
    BY <1>3
  <2>2. Kept(s)' <= Kept(s) /\ Kept(s) \in Nat /\ Kept(s)' \in Nat
    BY <1>2 DEF Shrinks
  <2>3. Kept(Stage(d)) = Kept(s) /\ Kept(Stage(d))' = Kept(s)'
    BY <2>1
  <2> QED
    BY <2>2, <2>3
<1>5. /\ call'[d].at = "again" => Kept(5)' + call'[d].write.size <= Capacity
      /\ call'[d].at = "clean" => Kept(Stage(d))' + call'[d].write.size <= Capacity
  BY <1>1, <1>2, <1>4 DEF Room, Shrinks
<1>6. InPrune(d)' => Depth(d)' = 1
  BY DEF Room, InPrune, Depth
<1> QED
  BY <1>5, <1>6 DEF Room

\* A step of one coroutine that takes no room.
LEMMA RoomStays ==
  ASSUME Inv, SpaceInv, NEW c, Shrinks, UNCHANGED driver,
         \A d \in Coroutines \ {c} : call'[d] = call[d],
         excused \subseteq excused' \cup {c},
         c \in Coroutines \ excused' => Room(c)',
         stray' \in [Coroutines -> Writes \cup {NoWork, Purge}]
  PROVE  SpaceInv'
<1>1. ASSUME NEW d \in Coroutines, d \notin excused' PROVE Room(d)'
  <2>1. CASE d = c
    BY <1>1, <2>1
  <2>2. CASE d # c
    BY <1>1, <2>2, OthersKeepRoom DEF SpaceInv
  <2> QED
    BY <2>1, <2>2
<1> QED
  BY <1>1 DEF SpaceInv, Shrinks

\* A write that is carried out, for a call, for a thread left behind or in
\* another process: whoever it crowds out is excused.
LEMMA WriteKeepsRoom ==
  ASSUME Inv, SpaceInv, NEW w \in Writes, Takes(w), NEW self, excused' = Crowds(w, self),
         UNCHANGED driver, \A d \in Coroutines \ {self} : call'[d] = call[d],
         self \in Coroutines => call'[self].at = "none",
         stray' \in [Coroutines -> Writes \cup {NoWork, Purge}]
  PROVE  SpaceInv'
<1>1. rows' \in [Kinds -> Nat] /\ (w.from # Nothing => Shrinks)
  BY TakesShrink DEF SpaceInv
<1>2. ASSUME NEW d \in Coroutines, d \notin excused' PROVE Room(d)'
  <2>1. CASE d = self
    BY <2>1 DEF Room, InPrune
  <2>2. CASE d # self /\ w.from = Nothing
    <3>1. call[d].at \notin {"clean", "again"} /\ call'[d] = call[d]
      BY <1>2, <2>2 DEF Crowds
    <3> QED
      BY <3>1 DEF Room, InPrune
  <2>3. CASE d # self /\ w.from # Nothing
    <3>1. d \notin excused
      BY <1>2, <2>3 DEF Crowds
    <3> QED
      BY <1>1, <2>3, <3>1, OthersKeepRoom DEF SpaceInv
  <2> QED
    BY <2>1, <2>2, <2>3
<1> QED
  BY <1>1, <1>2 DEF SpaceInv

LEMMA CrowdsMore == \A w, self : excused \subseteq Crowds(w, self)
  BY DEF Crowds

\* A call that returns.
LEMMA ReturnsTo ==
  ASSUME CallTypes, NEW c \in Coroutines, Returns(c)
  PROVE  /\ call'[c].at = "none" /\ Room(c)'
         /\ \A d \in Coroutines \ {c} : call'[d] = call[d]
<1>1. call'[c] = NoCall /\ \A d \in Coroutines \ {c} : call'[d] = call[d]
  BY DEF Returns, CallTypes
<1> QED
  BY <1>1 DEF NoCall, Room, InPrune

\* A record of a call of which only some fields are replaced.
LEMMA OnlyAt ==
  ASSUME CallTypes, NEW c \in Coroutines, NEW p \in Points,
         call' = [call EXCEPT ![c] = [call[c] EXCEPT !.at = p]]
  PROVE  /\ call'[c].at = p /\ call'[c].frames = call[c].frames
         /\ call'[c].write = call[c].write
         /\ \A d \in Coroutines \ {c} : call'[d] = call[d]
<1>1. call'[c] = [call[c] EXCEPT !.at = p] /\ \A d \in Coroutines \ {c} : call'[d] = call[d]
  BY DEF CallTypes
<1> QED
  BY <1>1, CallsAreRecords DEF CallRecord

\* The steps of a call outside a cleanup.
LEMMA CallKeepsRoom ==
  ASSUME Inv, SpaceInv, NEW c \in Coroutines,
         \/ \E w \in Calls : Begins(c, w)
         \/ Locks(c) \/ FindsLocked(c) \/ IsRefused(c) \/ Succeeds(c)
  PROVE  SpaceInv'
<1>0. CallTypes /\ stray \in [Coroutines -> Writes \cup {NoWork, Purge}]
  BY DEF Inv, SpaceInv
<1>1. ASSUME NEW w \in Calls, Begins(c, w) PROVE SpaceInv'
  <2> DEFINE p == IF driver = "sqlite" THEN "lock" ELSE Checked
             r == [NoCall EXCEPT !.at = p, !.write = w]
  <2>1. p \notin {"clean", "again"} /\ r.at = p
    BY DEF Checked, NoCall
  <2> HIDE DEF p
  <2>2. call' = [call EXCEPT ![c] = r]
    BY <1>1 DEF Begins, p
  <2> HIDE DEF r
  <2>3. call'[c] = r /\ \A d \in Coroutines \ {c} : call'[d] = call[d]
    BY <1>0, <2>2 DEF CallTypes
  <2>4. Room(c)'
    BY <2>1, <2>3 DEF Room, InPrune
  <2> QED
    BY <1>0, <1>1, <2>3, <2>4, RowsStay, RoomStays DEF Begins, storeVars, historyVars
<1>2. CASE Locks(c)
  <2>1. Checked \in Points /\ Checked \notin {"clean", "again"}
    BY DEF Checked, Points
  <2>2. call' = [call EXCEPT ![c] = [call[c] EXCEPT !.at = Checked]]
    BY <1>2 DEF Locks
  <2>3. call'[c].at = Checked /\ \A d \in Coroutines \ {c} : call'[d] = call[d]
    BY <1>0, <2>1, <2>2, OnlyAt
  <2>4. Room(c)'
    BY <2>1, <2>3 DEF Room, InPrune
  <2> QED
    BY <1>0, <1>2, <2>3, <2>4, RowsStay, RoomStays DEF Locks, storeVars, historyVars
<1>3. CASE FindsLocked(c)
  <2>0. UNCHANGED <<rows, stray, excused, driver>>
    BY <1>3 DEF FindsLocked, storeVars, historyVars
  <2>1. CASE Returns(c)
    BY <1>0, <2>0, <2>1, ReturnsTo, RowsStay, RoomStays
  <2>2. CASE call' = [call EXCEPT ![c].tries = @ + 1]
    <3>1. /\ call'[c] = [call[c] EXCEPT !.tries = @ + 1]
          /\ \A d \in Coroutines \ {c} : call'[d] = call[d]
      BY <1>0, <2>2 DEF CallTypes
    <3>2. call'[c].at = call[c].at /\ call[c].at # "clean"
      BY <1>0, <1>3, <3>1, CallsAreRecords DEF CallRecord, FindsLocked
    <3>3. call'[c].write = call[c].write
      BY <1>0, <3>1, CallsAreRecords DEF CallRecord
    <3>4. c \notin excused' => Room(c)'
      BY <2>0, <3>2, <3>3 DEF SpaceInv, Room, InPrune, Kept
    <3> QED
      BY <1>0, <2>0, <3>1, <3>4, RowsStay, RoomStays
  <2> QED
    BY <1>3, <2>1, <2>2 DEF FindsLocked
<1>4. CASE IsRefused(c)
  <2>1. UNCHANGED <<rows, stray, excused, driver>> /\ Returns(c)
    BY <1>4 DEF IsRefused, storeVars, historyVars
  <2> QED
    BY <1>0, <2>1, ReturnsTo, RowsStay, RoomStays
<1>5. CASE Succeeds(c)
  <2>1. /\ UNCHANGED <<stray, driver>> /\ Returns(c)
        /\ excused' = Crowds(call[c].write, c)
    BY <1>5 DEF Succeeds
  <2>2. CASE UNCHANGED rows
    BY <1>0, <2>1, <2>2, CrowdsMore, ReturnsTo, RowsStay, RoomStays
  <2>3. CASE Takes(call[c].write)
    <3>1. CASE call[c].write \in Writes
      BY <1>0, <2>1, <2>3, <3>1, ReturnsTo, WriteKeepsRoom
    <3>2. CASE call[c].write = NoWork
      <4>1. rows' = [k \in Kinds |-> (rows[k] + 0) - 0]
        BY <2>3, <3>2 DEF Takes, NoWork, Nothing, Kinds
      <4>2. rows' = rows
        BY <1>0, <4>1 DEF SpaceInv
      <4> QED
        BY <2>2, <4>2
    <3> QED
      BY <1>0, <3>1, <3>2, CallsAreRecords
  <2> QED
    BY <1>5, <2>2, <2>3 DEF Succeeds
<1> QED
  BY <1>1, <1>2, <1>3, <1>4, <1>5

\* A cleanup starts: what it purges will make room, or nothing does.
LEMMA OverflowsKeepsRoom ==
  ASSUME Inv, SpaceInv, NEW c \in Coroutines, Overflows(c)
  PROVE  SpaceInv'
<1> DEFINE fs == IF driver = "sqlite" THEN <<>> ELSE <<[stage |-> 1, armed |-> FALSE]>>
           r == [call[c] EXCEPT !.at = "clean", !.tries = 0, !.frames = fs]
<1>0. CallTypes /\ UNCHANGED <<driver, rows, stray>>
  BY DEF Inv, SpaceInv, Overflows, storeVars
<1>1. r.at = "clean" /\ r.frames = fs /\ r.write = call[c].write
  BY <1>0, CallsAreRecords DEF CallRecord
<1>2. call' = [call EXCEPT ![c] = r]
  BY <1>0, CallsAreRecords DEF Overflows, CallTypes
<1> HIDE DEF r
<1>3. call'[c].at = "clean" /\ call'[c].frames = fs /\ call'[c].write = call[c].write
      /\ \A d \in Coroutines \ {c} : call'[d] = call[d]
  BY <1>0, <1>1, <1>2 DEF CallTypes
<1>4. excused \subseteq excused' \cup {c} /\ (c \notin excused' => ~Hopeless(c))
  BY DEF Overflows
<1>5. Stage(c)' = 1 /\ (InPrune(c)' => Depth(c)' = 1)
  <2>1. CASE driver = "sqlite"
    BY <1>0, <2>1 DEF Stage, InPrune
  <2>2. CASE driver # "sqlite"
    <3>1. call'[c].frames = <<[stage |-> 1, armed |-> FALSE]>>
      BY <1>3, <2>2
    <3>2. Depth(c)' = 1 /\ Top(c)' = [stage |-> 1, armed |-> FALSE]
      BY <3>1 DEF Depth, Top
    <3> QED
      BY <1>0, <2>2, <3>2 DEF Stage
  <2> QED
    BY <2>1, <2>2
<1>6. c \notin excused' => Room(c)'
  <2>1. Kept(Stage(c))' = rows["open"]
    BY <1>0, <1>5, RowCounts DEF Kept, SpaceInv
  <2>2. rows["open"] + call[c].write.size \in Nat /\ Capacity \in Nat
    BY <1>0, RowCounts, WriteSizes, StorageAssumption DEF SpaceInv
  <2> QED
    BY <1>3, <1>4, <1>5, <2>1, <2>2 DEF Room, Hopeless
<1>7. stray' \in [Coroutines -> Writes \cup {NoWork, Purge}]
  BY <1>0 DEF SpaceInv
<1> QED
  BY <1>0, <1>3, <1>4, <1>6, <1>7, RowsStay, RoomStays

\* The frames of a cleanup after one of its prunes.
LEMMA AfterPrune ==
  ASSUME Inv, NEW c \in Coroutines, InPrune(c), NextPrune(c) \/ EndsCleanup(c)
  PROVE  /\ \A d \in Coroutines \ {c} : call'[d] = call[d]
         /\ call'[c].write = call[c].write
         /\ Depth(c) = 1 =>
               \/ /\ call'[c].at = "clean" /\ Depth(c)' = 1
                  /\ Top(c)'.stage = Top(c).stage + 1
               \/ call'[c].at = "again" /\ Top(c).stage = 4
<1>0. CallTypes /\ call[c] \in CallRecord /\ call[c].at = "clean"
      /\ call[c].frames \in Seq(Frame)
  BY CallsAreRecords DEF Inv, InPrune
<1>1. CASE NextPrune(c)
  <2> DEFINE f == [stage |-> Top(c).stage + 1, armed |-> AutoCleanup /\ ~guard]
             fs == SetTop(c, f)
  <2>1. call' = [call EXCEPT ![c] = [call[c] EXCEPT !.frames = fs]]
    BY <1>1 DEF NextPrune
  <2>2. call'[c] = [call[c] EXCEPT !.frames = fs]
        /\ \A d \in Coroutines \ {c} : call'[d] = call[d]
    BY <1>0, <2>1 DEF CallTypes
  <2>3. call'[c].at = "clean" /\ call'[c].frames = fs /\ call'[c].write = call[c].write
    BY <1>0, <2>2 DEF CallRecord
  <2>4. f.stage = Top(c).stage + 1
    OBVIOUS
  <2> HIDE DEF f
  <2>5. Depth(c) = 1 => Len(fs) = 1 /\ fs[1] = f
    BY <1>0 DEF SetTop, Depth
  <2> QED
    BY <2>2, <2>3, <2>4, <2>5 DEF Depth, Top
<1>2. CASE EndsCleanup(c) /\ Depth(c) = 1
  <2>1. call' = [call EXCEPT ![c].at = "again", ![c].frames = <<>>] /\ Top(c).stage = 4
    BY <1>2, StagesAreKinds DEF EndsCleanup
  <2>2. call'[c] = [call[c] EXCEPT !.at = "again", !.frames = <<>>]
        /\ \A d \in Coroutines \ {c} : call'[d] = call[d]
    BY <1>0, <2>1 DEF CallTypes
  <2>3. call'[c].at = "again" /\ call'[c].write = call[c].write
    BY <1>0, <2>2 DEF CallRecord
  <2> QED
    BY <2>1, <2>2, <2>3
<1>3. CASE EndsCleanup(c) /\ Depth(c) # 1
  <2> DEFINE fs == [Front(call[c].frames) EXCEPT ![Depth(c) - 1].armed = FALSE]
  <2>1. call' = [call EXCEPT ![c] = [call[c] EXCEPT !.frames = fs]]
    BY <1>3 DEF EndsCleanup
  <2> HIDE DEF fs
  <2>2. call'[c] = [call[c] EXCEPT !.frames = fs]
        /\ \A d \in Coroutines \ {c} : call'[d] = call[d]
    BY <1>0, <2>1 DEF CallTypes
  <2> QED
    BY <1>0, <1>3, <2>2 DEF CallRecord
<1> QED
  BY <1>1, <1>2, <1>3

LEMMA PruneKeepsRoom ==
  ASSUME Inv, SpaceInv, NEW c \in Coroutines,
         Prunes(c) \/ PruneFails(c) \/ PruneOverflows(c)
  PROVE  SpaceInv'
<1>0. /\ CallTypes /\ InPrune(c) /\ driver = "pooled" /\ call[c].at = "clean"
      /\ stray' = stray /\ driver' = driver
      /\ stray' \in [Coroutines -> Writes \cup {NoWork, Purge}]
  BY DEF Inv, SpaceInv, Prunes, PruneFails, PruneOverflows, InPrune, storeVars
<1>1. CASE Prunes(c)
  <2>0. Top(c).stage \in 1..4
    BY <1>0, PruneFacts, StagesAreKinds DEF Frame
  <2>1. PICK s \in 1..4 : s = Top(c).stage
    BY <2>0
  <2>2. PrunesStage(s) /\ excused' = excused
    BY <1>1, <2>1 DEF Prunes, historyVars
  <2>3. /\ \A d \in Coroutines \ {c} : call'[d] = call[d]
        /\ call'[c].write = call[c].write
        /\ Depth(c) = 1 =>
              \/ call'[c].at = "clean" /\ Depth(c)' = 1 /\ Top(c)'.stage = s + 1
              \/ call'[c].at = "again" /\ s = 4
    BY <1>0, <1>1, <2>1, AfterPrune DEF Prunes
  <2>4. c \notin excused => Depth(c) = 1 /\ Kept(s) + call[c].write.size <= Capacity
    BY <1>0, <2>1 DEF SpaceInv, Room, Stage
  <2>5. Shrinks /\ Kept(s + 1)' <= Kept(s) /\ Kept(s) \in Nat /\ Kept(s + 1)' \in Nat
    <3>1. Shrinks /\ Kept(s + 1)' <= Kept(s)
      BY <2>2, PruneShrinks DEF SpaceInv
    <3>2. Kept(s) \in Nat
      BY RowCounts DEF SpaceInv
    <3>3. Kept(s + 1)' \in Nat
      BY <3>1 DEF Shrinks, Kept, Kinds
    <3> QED
      BY <3>1, <3>2, <3>3
  <2>6. ASSUME c \notin excused' PROVE Room(c)'
    <3>1. call[c].write.size \in Nat /\ Capacity \in Nat
      BY <1>0, WriteSizes, StorageAssumption
    <3>2. Kept(s + 1)' + call'[c].write.size <= Capacity
      BY <2>2, <2>3, <2>4, <2>5, <2>6, <3>1
    <3>3. CASE call'[c].at = "clean" /\ Depth(c)' = 1 /\ Top(c)'.stage = s + 1
      <4>1. Stage(c)' = s + 1
        BY <1>0, <3>3 DEF Stage
      <4>2. Kept(Stage(c))' = Kept(s + 1)'
        BY <4>1
      <4> QED
        BY <3>2, <3>3, <4>2 DEF Room
    <3>4. CASE call'[c].at = "again" /\ s = 4
      <4>1. Kept(5)' + call'[c].write.size <= Capacity
        BY <3>2, <3>4
      <4> QED
        BY <3>4, <4>1 DEF Room, InPrune
    <3> QED
      BY <2>2, <2>3, <2>4, <2>6, <3>3, <3>4
  <2> QED
    BY <1>0, <2>2, <2>3, <2>5, <2>6, RoomStays
<1>2. CASE PruneFails(c)
  <2>1. rows' = rows /\ excused' = excused \cup {c}
    BY <1>2 DEF PruneFails, storeVars
  <2>2. \A d \in Coroutines \ {c} : call'[d] = call[d]
    BY <1>0, <1>2, AfterPrune DEF PruneFails
  <2> QED
    BY <1>0, <2>1, <2>2, RowsStay, RoomStays
<1>3. CASE PruneOverflows(c)
  <2>1. rows' = rows /\ excused' = excused \cup {c}
    BY <1>3 DEF PruneOverflows, storeVars
  <2>2. \A d \in Coroutines \ {c} : call'[d] = call[d]
    BY <1>0, <1>3 DEF PruneOverflows, CallTypes
  <2> QED
    BY <1>0, <2>1, <2>2, RowsStay, RoomStays
<1> QED
  BY <1>1, <1>2, <1>3

LEMMA PurgeKeepsRoom ==
  ASSUME Inv, SpaceInv, NEW c \in Coroutines, Purges(c) \/ PurgeFails(c)
  PROVE  SpaceInv'
<1>0. /\ CallTypes /\ driver = "sqlite" /\ call[c].at = "clean"
      /\ driver' = driver /\ excused' = excused
      /\ stray' \in [Coroutines -> Writes \cup {NoWork, Purge}]
  BY DEF Inv, SpaceInv, Purges, PurgeFails, InPurge, historyVars
<1>1. CASE Purges(c)
  <2>1. rows' = Purged(1, 4)
    BY <1>1, StagesAreKinds DEF Purges
  <2>2. Shrinks /\ \A i \in DOMAIN Stages : rows'[Stages[i]] = 0
    BY <2>1, PurgesShrink, StagesAreKinds DEF SpaceInv
  <2>3. call'[c].at = "again" /\ call'[c].write = call[c].write
        /\ \A d \in Coroutines \ {c} : call'[d] = call[d]
    <3>1. call' = [call EXCEPT ![c] = [call[c] EXCEPT !.at = "again"]] /\ "again" \in Points
      BY <1>1 DEF Purges, Points
    <3> QED
      BY <1>0, <3>1, OnlyAt
  <2>4. ASSUME c \notin excused' PROVE Room(c)'
    <3>1. Kept(1) + call[c].write.size <= Capacity
      BY <1>0, <2>4 DEF SpaceInv, Room, Stage
    <3>2. Kept(1)' <= Kept(1) /\ Kept(1) \in Nat
      BY <2>2, RowCounts DEF Shrinks, SpaceInv
    <3>3. rows'["open"] \in Nat
      BY <2>2 DEF Shrinks, Kinds
    <3>4. Kept(5)' = Kept(1)'
      BY <2>2, <3>3, StagesAreKinds DEF Kept
    <3>5. Kept(1)' \in Nat
      BY <3>3 DEF Kept
    <3>6. call[c].write.size \in Nat /\ Capacity \in Nat
      BY <1>0, WriteSizes, StorageAssumption
    <3>7. Kept(5)' + call'[c].write.size <= Capacity
      BY <2>3, <3>1, <3>2, <3>4, <3>5, <3>6
    <3> QED
      BY <2>3, <3>7 DEF Room, InPrune
  <2> QED
    BY <1>0, <2>2, <2>3, <2>4, RoomStays
<1>2. CASE PurgeFails(c)
  <2>1. PICK last \in 0..(Len(Stages) - 1) : rows' = Purged(1, last)
    BY <1>2 DEF PurgeFails
  <2>2. Shrinks
    BY <2>1, PurgesShrink, StagesAreKinds DEF SpaceInv
  <2> QED
    BY <1>0, <1>2, <2>2, ReturnsTo, RoomStays DEF PurgeFails
<1> QED
  BY <1>1, <1>2

\* A call that is cancelled may have done its work, or leave it to a thread.
LEMMA CancelsKeepsRoom ==
  ASSUME Inv, SpaceInv, NEW c \in Coroutines, Cancels(c)
  PROVE  SpaceInv'
<1>0. CallTypes /\ Returns(c)
  BY DEF Inv, SpaceInv, Cancels
<1>1. /\ call'[c].at = "none" /\ Room(c)'
      /\ \A d \in Coroutines \ {c} : call'[d] = call[d]
  BY <1>0, ReturnsTo
<1>2. CASE UNCHANGED <<storeVars, excused>>
  BY <1>0, <1>1, <1>2, RowsStay, RoomStays DEF storeVars, SpaceInv
<1>3. CASE /\ UNCHANGED <<driver, stray>> /\ Takes(call[c].write)
           /\ excused' = Crowds(call[c].write, c)
  <2>1. CASE call[c].write \in Writes
    BY <1>0, <1>1, <1>3, <2>1, WriteKeepsRoom DEF SpaceInv
  <2>2. CASE call[c].write = NoWork
    <3>1. rows' = [k \in Kinds |-> (rows[k] + 0) - 0]
      BY <1>3, <2>2 DEF Takes, NoWork, Nothing, Kinds
    <3>2. rows' = rows
      BY <3>1 DEF SpaceInv
    <3> QED
      BY <1>0, <1>1, <1>3, <3>2, CrowdsMore, RowsStay, RoomStays DEF SpaceInv
  <2> QED
    BY <1>0, <2>1, <2>2, CallsAreRecords
<1>4. CASE /\ driver = "pooled" /\ call[c].at = "clean"
           /\ PrunesStage(Top(c).stage)
           /\ UNCHANGED <<driver, stray, excused>>
  <2>1. Top(c).stage \in 1..4
    BY <1>4, PruneFacts, StagesAreKinds DEF Frame, InPrune
  <2>2. Shrinks
    BY <1>4, <2>1, PruneShrinks DEF SpaceInv
  <2> QED
    BY <1>0, <1>1, <1>4, <2>2, RoomStays DEF SpaceInv
<1>5. CASE /\ UNCHANGED <<driver, rows, excused>>
           /\ stray' = [stray EXCEPT ![c] =
                 IF call[c].at = "clean" THEN Purge ELSE call[c].write]
  <2>1. (IF call[c].at = "clean" THEN Purge ELSE call[c].write) \in Writes \cup {NoWork, Purge}
    BY <1>0, CallsAreRecords
  <2>2. stray' \in [Coroutines -> Writes \cup {NoWork, Purge}]
    BY <1>5, <2>1 DEF SpaceInv
  <2> QED
    BY <1>0, <1>1, <1>5, <2>2, RowsStay, RoomStays
<1> QED
  BY <1>2, <1>3, <1>4, <1>5 DEF Cancels

\* What happens without a call: a thread that was left behind ends, and other
\* processes write.
LEMMA OutsideKeepsRoom ==
  ASSUME Inv, SpaceInv,
         \/ \E c \in Coroutines : StrayEnds(c)
         \/ \E w \in Calls : Elsewhere(w)
         \/ Vacuum
  PROVE  SpaceInv'
<1>0. UNCHANGED <<call, driver>> /\ NoOne \notin Coroutines
  BY StorageAssumption DEF SpaceInv, StrayEnds, Elsewhere, Vacuum
<1>1. ASSUME NEW c \in Coroutines, StrayEnds(c) PROVE SpaceInv'
  <2>1. stray' \in [Coroutines -> Writes \cup {NoWork, Purge}]
        /\ stray[c] \in Writes \cup {Purge}
    BY <1>1 DEF StrayEnds, SpaceInv
  <2>2. Shrinks /\ excused' = excused => (c \notin excused' => Room(c)')
    BY <1>0, OthersKeepRoom DEF SpaceInv
  <2>3. CASE UNCHANGED <<rows, excused>>
    BY <1>0, <2>1, <2>2, <2>3, RowsStay, RoomStays
  <2>4. CASE rows' = Purged(1, Len(Stages)) /\ UNCHANGED excused
    BY <1>0, <2>1, <2>2, <2>4, PurgesShrink, StagesAreKinds, RoomStays DEF SpaceInv
  <2>5. CASE stray[c] # Purge /\ Takes(stray[c]) /\ excused' = Crowds(stray[c], NoOne)
    BY <1>0, <2>1, <2>5, WriteKeepsRoom
  <2> QED
    BY <1>1, <2>3, <2>4, <2>5 DEF StrayEnds
<1>2. ASSUME NEW w \in Calls, Elsewhere(w) PROVE SpaceInv'
  <2>1. w \in Writes /\ Takes(w) /\ excused' = Crowds(w, NoOne) /\ stray' = stray
    BY <1>2, StorageAssumption DEF Elsewhere
  <2> QED
    BY <1>0, <2>1, WriteKeepsRoom DEF SpaceInv
<1>3. CASE Vacuum
  <2>1. PICK n \in 0..(rows["dead"] - 1) : rows' = [rows EXCEPT !["dead"] = n]
    BY <1>3 DEF Vacuum
  <2>2. n \in Nat
    BY <2>1, RowCounts DEF SpaceInv
  <2>3. Shrinks
    BY <2>1, <2>2, LessIsKept, RowCounts DEF SpaceInv, Kinds
  <2>4. UNCHANGED <<stray, excused>>
    BY <1>3 DEF Vacuum, historyVars
  <2> QED
    BY <1>0, <2>3, <2>4, RoomStays DEF SpaceInv
<1> QED
  BY <1>1, <1>2, <1>3

LEMMA InitSpace == Init => SpaceInv
<1> SUFFICES ASSUME Init PROVE SpaceInv
  OBVIOUS
<1>1. \A c \in Coroutines : call[c].at = "none"
  BY DEF Init, NoCall
<1>2. rows \in [Kinds -> Nat]
  BY StorageAssumption DEF Init
<1> QED
  BY <1>1, <1>2 DEF Init, SpaceInv, Room, InPrune

LEMMA NextSpace == Inv /\ SpaceInv /\ [Next]_vars => SpaceInv'
<1> SUFFICES ASSUME Inv, SpaceInv, [Next]_vars PROVE SpaceInv'
  OBVIOUS
<1>1. CASE UNCHANGED vars
  BY <1>1 DEF vars, storeVars, historyVars, SpaceInv, Room, Kept, Stage, InPrune,
              Depth, Top
<1>2. ASSUME NEW c \in Coroutines,
             \/ \E w \in Calls : Begins(c, w)
             \/ Locks(c) \/ Proceeds(c) \/ Cancels(c)
      PROVE  SpaceInv'
  BY <1>2, CallKeepsRoom, OverflowsKeepsRoom, PruneKeepsRoom, PurgeKeepsRoom,
     CancelsKeepsRoom DEF Proceeds
<1> QED
  BY <1>1, <1>2, OutsideKeepsRoom DEF Next

\* When a write is tried again after its cleanup, everything that was finished
\* is gone, be it one row or many that it adds: it fits into what the store
\* holds unless the unfinished rows alone did not leave room, a prune failed or
\* others have taken the room (_with_disk_full_recovery, _execute_with_retry).
THEOREM CleanupsMakeRoom == Spec => []SpaceIsReclaimed
<1>1. Init => Inv /\ SpaceInv
  BY InitInv, InitSpace
<1>2. Inv /\ SpaceInv /\ [Next]_vars => (Inv /\ SpaceInv)'
  BY NextInv, NextSpace
<1>3. Inv /\ SpaceInv => SpaceIsReclaimed
  BY RowCounts DEF SpaceInv, SpaceIsReclaimed, Room
<1> QED
  BY <1>1, <1>2, <1>3, PTL DEF Spec

=============================================================================
