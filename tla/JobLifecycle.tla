---------------------------- MODULE JobLifecycle ----------------------------
(***************************************************************************)
(* What the queue promises, without saying how: a job is run by at most    *)
(* one worker at a time, only the worker that holds it decides its         *)
(* outcome, a completed job stays completed, a job whose worker died goes  *)
(* back to its queue, and a job that was removed never comes back.  The    *)
(* drivers together with the worker loop are checked to implement it.      *)
(***************************************************************************)
CONSTANTS Jobs, Workers,
          Nobody   \* not a worker

VARIABLES state,     \* the job's place in its life
          holder     \* the worker running it

lifeVars == <<state, holder>>

States == {"new", "pending", "processing", "completed", "failed", "removed"}

LifeTypeOK ==
    /\ state \in [Jobs -> States]
    /\ holder \in [Jobs -> Workers \cup {Nobody}]

LifeInit ==
    /\ state = [j \in Jobs |-> "new"]
    /\ holder = [j \in Jobs |-> Nobody]

\* One or several jobs are dispatched.
Dispatch ==
    \E S \in SUBSET {j \in Jobs : state[j] = "new"} :
        /\ state' = [j \in Jobs |-> IF j \in S THEN "pending" ELSE state[j]]
        /\ UNCHANGED holder

Take(w, j) ==
    /\ state[j] = "pending" /\ holder[j] = Nobody
    /\ \A k \in Jobs : holder[k] # w
    /\ state' = [state EXCEPT ![j] = "processing"]
    /\ holder' = [holder EXCEPT ![j] = w]

\* The holder decides; a job removed meanwhile stays removed.
Settle(w, j, outcome) ==
    /\ holder[j] = w
    /\ holder' = [holder EXCEPT ![j] = Nobody]
    /\ state' = [state EXCEPT ![j] = IF @ = "removed" THEN @ ELSE outcome]

\* The holder is gone and the job's outcome with it.
Lose(j) ==
    /\ holder[j] # Nobody
    /\ holder' = [holder EXCEPT ![j] = Nobody]
    /\ UNCHANGED state

\* Jobs nobody runs any more return to their queues.
Recover ==
    \E S \in SUBSET {j \in Jobs : state[j] = "processing" /\ holder[j] = Nobody} :
        /\ state' = [j \in Jobs |-> IF j \in S THEN "pending" ELSE state[j]]
        /\ UNCHANGED holder

Retry(j) ==
    /\ state[j] = "failed"
    /\ state' = [state EXCEPT ![j] = "pending"]
    /\ UNCHANGED holder

Remove ==
    \E S \in SUBSET {j \in Jobs : state[j] # "new"} :
        /\ state' = [j \in Jobs |-> IF j \in S THEN "removed" ELSE state[j]]
        /\ UNCHANGED holder

LifeNext ==
    \/ Dispatch \/ Recover \/ Remove
    \/ \E j \in Jobs :
          \/ Lose(j)
          \/ Retry(j)
          \/ \E w \in Workers :
                \/ Take(w, j)
                \/ \E o \in {"completed", "pending", "failed"} : Settle(w, j, o)

LifeSpec == LifeInit /\ [][LifeNext]_lifeVars

=============================================================================
