----------------------------- MODULE MCHistory ------------------------------
(***************************************************************************)
(* Instance of AgentReplies for TLC: one user writes in the War Room, in a *)
(* conversation that goes on.                                              *)
(***************************************************************************)
EXTENDS AgentReplies

OneUserInTheRoom ==
  {[via |-> "room", override |-> "none", contact |-> "ann", conv |-> "known"]}
=============================================================================
