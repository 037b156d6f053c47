------------------------------- MODULE Alerts -------------------------------
(***************************************************************************)
(* Alert rules and their evaluation on request (app/api/alerts/route.ts).  *)
(* A rule names an entity, a column, an operator and a value; evaluating   *)
(* goes through the enabled rules, leaves out those that fired less than   *)
(* their cooldown ago, and records and announces the ones whose condition  *)
(* holds.  The handler never waits, so an evaluation is one step.  Of the  *)
(* conditions, those on the status and last_seen of agents and on sessions *)
(* are modelled; task and activity rules only read other tables.           *)
(***************************************************************************)
EXTENDS Naturals, FiniteSets, Sequences

CONSTANTS
  RuleIds,       \* ids a rule may get
  Conditions,    \* the conditions a rule may have, of ConditionSet
  Cooldowns,     \* cooldown_minutes POST accepts, positive
  Watched,       \* the agents of the workspace
  MaxAlertTime,  \* bound on the clock
  MaxFirings     \* bound: times a rule fires

ConditionSet ==
  [entity : {"agent", "session"},
   op : {"equals", "not_equals", "count_above", "count_below", "age_above"},
   value : {"idle", "busy", "error", "offline", "0", "1"}]

ASSUME AlertsAssumption ==
  /\ Conditions \subseteq ConditionSet
  /\ Cooldowns \subseteq Nat \ {0}
  /\ MaxAlertTime \in Nat /\ MaxFirings \in Nat

VARIABLES
  alertNow,    \* the clock, in minutes since long after the epoch
  rules,       \* id -> rule, for the rules that exist
  agentState,  \* agent -> [status, seen]
  announced,   \* id -> notifications made for that rule: [at, cooldown then]
  muted        \* rules that ever had an action_config no notification comes of

alertVars == <<alertNow, rules, agentState, announced, muted>>

AgentStatus == {"idle", "busy", "error", "offline"}
NotTriggered == 0

\* parseInt of a status is NaN, and no comparison with NaN holds.
IsNumber(v) == v \in {"0", "1"}
ParseInt(v) == IF v = "1" THEN 1 ELSE 0
Above(n, v) == IsNumber(v) /\ n > ParseInt(v)
Below(n, v) == IsNumber(v) /\ n < ParseInt(v)

\* evaluateAgentRule over the status column.  The count is taken of the rows
\* whose status equals the very value it is then compared with; every other
\* operator looks only at agents that are not offline.
CountEqual(v) == Cardinality({a \in Watched : agentState[a].status = v})
Online == {a \in Watched : agentState[a].status # "offline"}
EvaluateAgentRule(k) ==
  CASE k.op = "count_above" -> Above(CountEqual(k.value), k.value)
    [] k.op = "count_below" -> Below(CountEqual(k.value), k.value)
    [] k.op = "age_above" ->
         IsNumber(k.value) /\
         \E a \in Online : agentState[a].seen + ParseInt(k.value) < alertNow
    [] k.op = "equals" -> \E a \in Online : agentState[a].status = k.value
    [] k.op = "not_equals" -> \E a \in Online : agentState[a].status # k.value

\* evaluateSessionRule counts the busy agents; every other operator is false.
EvaluateSessionRule(k) ==
  k.op = "count_above" /\ Above(CountEqual("busy"), k.value)

EvaluateRule(k) ==
  \/ k.entity = "agent" /\ EvaluateAgentRule(k)
  \/ k.entity = "session" /\ EvaluateSessionRule(k)

\* POST: a rule starts enabled and has never fired.  Its action_config may be
\* one (a recipient that is no text) under which making the notification throws.
CreateRule(id, k, m, tells) ==
  /\ id \notin DOMAIN rules
  /\ rules' = [i \in DOMAIN rules \cup {id} |->
                 IF i = id THEN [cond |-> k, cooldown |-> m, enabled |-> TRUE, tells |-> tells,
                                 last |-> NotTriggered, count |-> 0]
                 ELSE rules[i]]
  /\ announced' = [announced EXCEPT ![id] = <<>>]
  /\ muted' = IF tells THEN muted \ {id} ELSE muted \cup {id}
  /\ UNCHANGED <<alertNow, agentState>>

\* PUT writes any of the fields, unvalidated, and keeps when the rule last fired;
\* a body with several of them is as good as one after the other.  A cooldown
\* that is zero, negative or no number never holds a rule back: NoCooldown.
NoCooldown == 0
UpdateRule(id) ==
  /\ id \in DOMAIN rules
  /\ \/ /\ \/ \E k \in Conditions : rules' = [rules EXCEPT ![id].cond = k]
           \/ \E m \in Cooldowns \cup {NoCooldown} : rules' = [rules EXCEPT ![id].cooldown = m]
           \/ \E on \in BOOLEAN : rules' = [rules EXCEPT ![id].enabled = on]
        /\ UNCHANGED muted
     \/ \E tells \in BOOLEAN :
          /\ rules' = [rules EXCEPT ![id].tells = tells]
          /\ muted' = IF tells THEN muted ELSE muted \cup {id}
  /\ UNCHANGED <<alertNow, agentState, announced>>

DeleteRule(id) ==
  /\ id \in DOMAIN rules
  /\ rules' = [i \in DOMAIN rules \ {id} |-> rules[i]]
  /\ UNCHANGED <<alertNow, agentState, announced, muted>>

\* evaluateRules.
InCooldownLate(id) ==
  rules[id].last # NotTriggered /\ alertNow - rules[id].last + 1 < rules[id].cooldown
InCooldown(id) ==
  rules[id].last # NotTriggered /\ alertNow - rules[id].last < rules[id].cooldown
Triggered ==
  {id \in DOMAIN rules :
     rules[id].enabled /\ ~InCooldown(id) /\ EvaluateRule(rules[id].cond)}
Notified(id) ==
  IF rules[id].tells
  THEN Append(announced[id], [at |-> alertNow, cooldown |-> rules[id].cooldown])
  ELSE announced[id]
EvaluateRules ==
  /\ \A id \in DOMAIN rules : rules[id].count < MaxFirings
  /\ rules' = [id \in DOMAIN rules |->
                 IF id \in Triggered
                 THEN [rules[id] EXCEPT !.last = alertNow, !.count = @ + 1]
                 ELSE rules[id]]
  /\ announced' = [id \in RuleIds |-> IF id \in Triggered THEN Notified(id) ELSE announced[id]]
  /\ UNCHANGED <<alertNow, agentState, muted>>

\* The agents change status, and are seen when they do unless they go offline.
AgentMoves(a, s) ==
  /\ agentState' = [agentState EXCEPT ![a] =
                      [status |-> s, seen |-> IF s = "offline" THEN @.seen ELSE alertNow]]
  /\ UNCHANGED <<alertNow, rules, announced, muted>>

MinutePasses ==
  /\ alertNow < MaxAlertTime
  /\ alertNow' = alertNow + 1
  /\ UNCHANGED <<rules, agentState, announced, muted>>

AlertInit ==
  /\ alertNow = 1
  /\ rules = [i \in {} |-> 0]
  /\ agentState = [a \in Watched |-> [status |-> "idle", seen |-> 1]]
  /\ announced = [i \in RuleIds |-> <<>>]
  /\ muted = {}

AlertNext ==
  \/ \E id \in RuleIds, k \in Conditions, m \in Cooldowns, tells \in BOOLEAN :
       CreateRule(id, k, m, tells)
  \/ \E id \in RuleIds : UpdateRule(id) \/ DeleteRule(id)
  \/ EvaluateRules \/ MinutePasses
  \/ \E a \in Watched, s \in AgentStatus : AgentMoves(a, s)

AlertSpec == AlertInit /\ [][AlertNext]_alertVars

-----------------------------------------------------------------------------
\* A rule announces itself at most once per cooldown, the one it has when it
\* fires again, however often it is evaluated, switched off and on, or given
\* another condition or cooldown meanwhile; and its trigger count is the number
\* of notifications there are, unless an action_config of its kept one from
\* being made, when it is no less.
QuietInCooldown ==
  \A id \in DOMAIN rules :
    /\ \A i, j \in 1..Len(announced[id]) :
         i < j => announced[id][j].at - announced[id][i].at >= announced[id][j].cooldown
    /\ Len(announced[id]) <= rules[id].count
    /\ id \notin muted => Len(announced[id]) = rules[id].count
=============================================================================
