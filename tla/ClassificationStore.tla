------------------------- MODULE ClassificationStore -------------------------
(***************************************************************************)
(* The two tables as state: what the request handlers and the worker loops *)
(* read and write, and all they share.                                     *)
(***************************************************************************)
EXTENDS ClassificationTables

VARIABLES runs,  \* classification_runs: [Runs -> RunRow \cup {NoRow}]
          jobs   \* classification_jobs: [Runs -> JobRow \cup {NoRow}]
=============================================================================
