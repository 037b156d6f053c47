----------------------------- MODULE MCMessages -----------------------------
(***************************************************************************)
(* Instance for TLC of the components that answer: the delivery of         *)
(* notifications, the agents' replies to Telegram and the war room, and    *)
(* the panels that load what the user picks.  They share no variable; in a *)
(* behaviour one of them moves and the others stay as they started.        *)
(***************************************************************************)
EXTENDS Notifications, AgentReplies, Viewers, TLC

VARIABLE focus  \* the component that moves

messageVars == <<noteVars, replyVars, viewVars, focus>>

Telegram(b, m, g, n, c) ==
  [via |-> "telegram", bot |-> b, media |-> m, group |-> g, named |-> n, contact |-> c]
Room(o, c, k) == [via |-> "room", override |-> o, contact |-> c, conv |-> k]

MCIncoming ==
  {Telegram("JESSY", "photo", TRUE, {"APEX", "JESSY"}, "bob"),
   Telegram("APEX", "text", TRUE, {"JESSY"}, "ann"),
   Telegram("CLAUD", "other", FALSE, {}, "ann"),
   Telegram("CLAUD", "text", FALSE, {}, "ann"),
   Telegram("GEM", "video", FALSE, {}, "bob"),
   Telegram("CLAWDIO", "text", TRUE, {"CLAWDIO"}, "ann"),
   Telegram("APEX", "video", FALSE, {}, "bob"),
   Room("none", "none", "known"), Room("APEX", "ann", "known")}

Init ==
  /\ focus \in {"notifications", "replies", "viewers"}
  /\ NoteInit /\ ReplyInit /\ ViewInit
  /\ focus = "viewers" \/ viewer = "job"

Next ==
  /\ UNCHANGED focus
  /\ IF focus = "notifications" THEN NoteNext ELSE UNCHANGED noteVars
  /\ IF focus = "replies" THEN ReplyNext ELSE UNCHANGED replyVars
  /\ IF focus = "viewers" THEN ViewNext ELSE UNCHANGED viewVars

\* The fairness of each component, for the behaviours in which it moves.
On(component, A) == focus = component /\ A

Fairness ==
  /\ WF_noteVars(On("notifications", DaemonStep))
  /\ \A c \in Callers : WF_noteVars(On("notifications", DeliveryStep(c)))
  /\ \A j \in 1..MaxJobs : WF_replyVars(On("replies", JobStep(j)))
  /\ WF_viewVars(On("viewers", ServeFirst)) /\ WF_viewVars(On("viewers", PollView))

FairSpec == Init /\ [][Next]_messageVars /\ Fairness
=============================================================================
