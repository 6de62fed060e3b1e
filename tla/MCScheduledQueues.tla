------------------------ MODULE MCScheduledQueues ------------------------
(* Small instances of ScheduledQueues. *)
EXTENDS ScheduledQueues

\* A class that cannot be imported, two intervals of one class, an entry that
\* shares its key with an earlier one, and one that is malformed.
Schedule ==
    <<[class |-> "Missing", period |-> "hourly", queue |-> "mail"],
      [class |-> "Report", period |-> "often", queue |-> "mail"],
      [class |-> "Report", period |-> "hourly", queue |-> "slow"],
      [class |-> "Report", period |-> "often", queue |-> "slow"],
      [class |-> "Report", period |-> "61 * * * *", queue |-> "mail"]>>

OneWorker == [w \in Workers |-> <<"mail", "default", "slow">>]

============================================================================
