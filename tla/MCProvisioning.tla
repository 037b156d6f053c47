-------------------------- MODULE MCProvisioning --------------------------
(***************************************************************************)
(* Instances of Provisioning for TLC.  The configurations differ in how    *)
(* many run requests overlap and in which failures may happen.             *)
(***************************************************************************)
EXTENDS Provisioning, TLC

\* A live decommission that removes the user, which beside a bootstrap is the
\* pair that matters when run requests overlap.
MCDecommissionBodies ==
    {[dryRun |-> FALSE, removeUser |-> TRUE, removeDirs |-> TRUE]}

\* Also a dry one that removes only the directories.
MCAllDecommissionBodies == MCDecommissionBodies \cup
    {[dryRun |-> TRUE, removeUser |-> FALSE, removeDirs |-> TRUE]}

\* Posted jobs: a one-step live update and a bootstrap without a port.
MCJobBodies ==
    {[type |-> "update", dryRun |-> FALSE, reqDry |-> FALSE, port |-> FALSE,
      plan |-> <<"custom">>],
     [type |-> "bootstrap", dryRun |-> TRUE, reqDry |-> TRUE, port |-> FALSE,
      plan |-> <<"custom">>]}

\* Also a body whose two dry-run flags disagree and a job without a plan,
\* which no run request can start.
MCAllJobBodies == MCJobBodies \cup
    {[type |-> "update", dryRun |-> FALSE, reqDry |-> TRUE, port |-> FALSE,
      plan |-> <<"custom">>],
     [type |-> "update", dryRun |-> TRUE, reqDry |-> TRUE, port |-> FALSE,
      plan |-> <<>>]}

\* Administrators, jobs and run requests are interchangeable.
Symmetry == Permutations(Admins) \cup Permutations(JobIds) \cup Permutations(Runs)
===========================================================================
