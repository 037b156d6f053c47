---------------------------- MODULE MCTaskBoard ----------------------------
(***************************************************************************)
(* Instance of TaskBoard for TLC.                                         *)
(***************************************************************************)
EXTENDS TaskBoard

\* The default column, the gated one and any other, which the handlers do not
\* tell from the default.
MCStatuses == {"inbox", "review", "done"}

============================================================================
