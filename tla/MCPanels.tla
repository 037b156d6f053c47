----------------------------- MODULE MCPanels ------------------------------
(***************************************************************************)
(* Instance for TLC of the panels and of what they edit: their forms, the  *)
(* memory browser, the log and activity feeds, the owners of a gateway     *)
(* connection, registered gateways, alert rules and the configuration      *)
(* files.  They share no variable; in a behaviour one of them moves and    *)
(* the others stay as they started.                                        *)
(***************************************************************************)
EXTENDS AdminPanels, MemoryFiles, Feeds, GatewayClient, Gateways,
        Alerts, SharedFiles

VARIABLE focus  \* the component that moves

bundleVars == <<panelVars, memVars, feedVars, gatewayVars, gwVars, alertVars,
                fileVars, focus>>

Condition(e, o, v) == [entity |-> e, op |-> o, value |-> v]
MCConditions == {Condition("agent", "equals", "error"),
                 Condition("agent", "count_below", "1"),
                 Condition("session", "count_above", "0"),
                 Condition("agent", "age_above", "1")}

\* A new primary under a name, no primary, a move, a status.
Body(n, a, p, s) == [name |-> n, addr |-> a, primary |-> p, status |-> s]
MCGwBodies == {Body(2, 0, "set", "no"), Body(0, 0, "unset", "no"),
               Body(0, 2, "no", "no"), Body(0, 0, "no", "maintenance")}

Init ==
  /\ focus \in {"panels", "memory", "feeds", "gateway", "gateways", "alerts",
                "files"}
  /\ PanelInit /\ MemInit /\ FeedInit /\ GatewayInit /\ GwInit
  /\ AlertInit /\ FileInit
  /\ focus = "panels" \/ panel = CHOOSE p \in PanelKinds : TRUE
  /\ focus = "feeds" \/ feedKind = CHOOSE k \in FeedKinds : TRUE

Next ==
  /\ UNCHANGED focus
  /\ IF focus = "panels" THEN PanelNext ELSE UNCHANGED panelVars
  /\ IF focus = "memory" THEN MemNext ELSE UNCHANGED memVars
  /\ IF focus = "feeds" THEN FeedNext ELSE UNCHANGED feedVars
  /\ IF focus = "gateway" THEN GatewayNext ELSE UNCHANGED gatewayVars
  /\ IF focus = "gateways" THEN GwNext ELSE UNCHANGED gwVars
  /\ IF focus = "alerts" THEN AlertNext ELSE UNCHANGED alertVars
  /\ IF focus = "files" THEN FileNext ELSE UNCHANGED fileVars

Spec == Init /\ [][Next]_bundleVars
============================================================================
