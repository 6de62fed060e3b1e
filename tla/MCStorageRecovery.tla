------------------------- MODULE MCStorageRecovery -------------------------
(* Small instances of StorageRecovery. *)
EXTENDS StorageRecovery

AllDrivers == {"pooled", "sqlite"}

\* A write that takes the room of two rows, and one that makes a row that can
\* be purged.
PushManyAndComplete ==
    {[from |-> Nothing, to |-> "open", size |-> 2],
     [from |-> "open", to |-> "completed", size |-> 1]}

=============================================================================
