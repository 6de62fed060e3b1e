--------------------------- MODULE MCBatchTracker ---------------------------
(* Small instances of BatchTracker. *)
EXTENDS BatchTracker

=============================================================================
