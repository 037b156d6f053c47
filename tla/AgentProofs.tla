---------------------------- MODULE AgentProofs ----------------------------
(***************************************************************************)
(* Proofs about the agents and what is sent to them and of them:           *)
(* QuietInCooldown of the alert rules, for any rules, cooldowns and        *)
(* evaluations; FleetSafe of agents and their direct connections, for any  *)
(* agents and requests; RepliesSafe of the answers, for any number of      *)
(* messages worked on at once; ConfigSafe of the agents' rows,             *)
(* openclaw.json and workspaces, whatever updates contain; HookSafe of the *)
(* outbound webhooks, for any number of webhooks, events, retries,         *)
(* administrators' operations and crashes; and DeliverySafe of the         *)
(* notifications, for any number of agents, notifications, delivery        *)
(* requests and failed commands.                                           *)
(***************************************************************************)
EXTENDS Alerts, AgentFleet, AgentReplies, AgentConfig, WebhookDelivery, Notifications,
        FiniteSetTheorems, TLAPS

(***************************************************************************)
(* Alerts.                                                                 *)
(***************************************************************************)
RuleRows == [cond : Conditions, cooldown : Nat, enabled : BOOLEAN, tells : BOOLEAN,
             last : Nat, count : Nat]
Announcements == [at : Nat, cooldown : Nat]

AlertTypeInv ==
    /\ alertNow \in Nat \ {0}
    /\ DOMAIN rules \subseteq RuleIds
    /\ rules \in [DOMAIN rules -> RuleRows]
    /\ announced \in [RuleIds -> Seq(Announcements)]

\* evaluateRules stamps the rule with the time it announces it at: no
\* notification is younger than last_triggered_at, and a rule that never fired
\* has none; and a rule no notification can be made for is known to be one.
StampInv ==
    \A id \in DOMAIN rules :
        /\ rules[id].last <= alertNow
        /\ \A i \in 1..Len(announced[id]) : announced[id][i].at <= rules[id].last
        /\ rules[id].last = NotTriggered => announced[id] = <<>>
        /\ ~rules[id].tells => id \in muted

AlertInv == AlertTypeInv /\ StampInv /\ QuietInCooldown

---------------------------------------------------------------------------
\* A new rule has fired at no time, whatever a deleted one of its id did.
LEMMA CreateRuleInv ==
    ASSUME AlertInv, NEW id \in RuleIds, NEW k \in Conditions, NEW m \in Cooldowns,
           NEW tells \in BOOLEAN, CreateRule(id, k, m, tells)
    PROVE  AlertInv'
<1> DEFINE row == [cond |-> k, cooldown |-> m, enabled |-> TRUE, tells |-> tells,
                   last |-> NotTriggered, count |-> 0]
<1>1. /\ row \in RuleRows /\ row.last = 0 /\ row.count = 0 /\ row.tells = tells
  BY AlertsAssumption DEF RuleRows, NotTriggered
<1>2. /\ DOMAIN rules' = DOMAIN rules \cup {id}
      /\ rules'[id] = row
      /\ \A i \in DOMAIN rules : i # id /\ rules'[i] = rules[i]
      /\ rules' = [i \in DOMAIN rules \cup {id} |-> rules'[i]]
  BY DEF CreateRule
<1> HIDE DEF row
<1>3. /\ announced' = [announced EXCEPT ![id] = <<>>] /\ alertNow' = alertNow
      /\ ~tells => id \in muted'
      /\ \A i : i # id => (i \in muted' <=> i \in muted)
  BY DEF CreateRule
<1>4. /\ announced' \in [RuleIds -> Seq(Announcements)]
      /\ announced'[id] = <<>> /\ Len(announced'[id]) = 0
      /\ \A i \in DOMAIN rules : announced'[i] = announced[i]
  BY <1>2, <1>3 DEF AlertInv, AlertTypeInv
<1>5. AlertTypeInv'
  <2>1. \A i \in DOMAIN rules' : rules'[i] \in RuleRows
    BY <1>1, <1>2 DEF AlertInv, AlertTypeInv
  <2>2. rules' \in [DOMAIN rules' -> RuleRows]
    BY <1>2, <2>1
  <2> QED BY <1>2, <1>3, <1>4, <2>2 DEF AlertInv, AlertTypeInv
<1>7. StampInv'
  BY <1>1, <1>2, <1>3, <1>4 DEF AlertInv, AlertTypeInv, StampInv, NotTriggered
<1>8. QuietInCooldown'
  BY <1>1, <1>2, <1>3, <1>4 DEF AlertInv, QuietInCooldown
<1> QED BY <1>5, <1>7, <1>8 DEF AlertInv

\* What a PUT leaves of a row: when the rule fired, and how often.
FiredAsBefore(r, q) ==
    r \in RuleRows /\ r.last = q.last /\ r.count = q.count

\* PUT and DELETE leave when the rules fired as it was.
LEMMA ChangeRuleInv ==
    ASSUME AlertInv, NEW id \in RuleIds, UpdateRule(id) \/ DeleteRule(id)
    PROVE  AlertInv'
<1>0. \A i \in DOMAIN rules : rules[i] \in RuleRows
  BY DEF AlertInv, AlertTypeInv
<1>1. announced' = announced /\ alertNow' = alertNow
  BY DEF UpdateRule, DeleteRule
<1>2. /\ DOMAIN rules' \subseteq DOMAIN rules
      /\ rules' = [i \in DOMAIN rules' |-> rules'[i]]
      /\ \A i \in DOMAIN rules' : FiredAsBefore(rules'[i], rules[i])
      /\ \A i \in DOMAIN rules' : ~rules'[i].tells => i \in muted'
      /\ muted \subseteq muted'
  <2>1. CASE DeleteRule(id)
    <3>1. rules' = [i \in DOMAIN rules \ {id} |-> rules[i]] /\ muted' = muted
      BY <2>1 DEF DeleteRule
    <3> QED BY <1>0, <3>1 DEF FiredAsBefore, AlertInv, StampInv
  <2>2. ASSUME id \in DOMAIN rules, NEW row, rules' = [rules EXCEPT ![id] = row],
               FiredAsBefore(row, rules[id]),
               ~row.tells => id \in muted', muted \subseteq muted'
        PROVE  <1>2!1 /\ <1>2!2 /\ <1>2!3 /\ <1>2!4 /\ <1>2!5
    <3>1. /\ DOMAIN rules' = DOMAIN rules /\ rules'[id] = row
          /\ \A i \in DOMAIN rules \ {id} : rules'[i] = rules[i]
          /\ rules' = [i \in DOMAIN rules' |-> rules'[i]]
      BY <2>2 DEF AlertInv, AlertTypeInv
    <3>2. \A i \in DOMAIN rules : ~rules[i].tells => i \in muted
      BY DEF AlertInv, StampInv
    <3>3. \A i \in DOMAIN rules' : FiredAsBefore(rules'[i], rules[i])
      BY <1>0, <2>2, <3>1 DEF FiredAsBefore
    <3> QED BY <2>2, <3>1, <3>2, <3>3
  <2>3. CASE UpdateRule(id)
    <3>1. id \in DOMAIN rules /\ rules[id] \in RuleRows
      BY <1>0, <2>3 DEF UpdateRule
    <3>2. ~rules[id].tells => id \in muted
      BY <3>1 DEF AlertInv, StampInv
    <3>3. ASSUME NEW k \in Conditions, rules' = [rules EXCEPT ![id].cond = k], UNCHANGED muted
          PROVE  <1>2!1 /\ <1>2!2 /\ <1>2!3 /\ <1>2!4 /\ <1>2!5
      <4> DEFINE row == [rules[id] EXCEPT !.cond = k]
      <4>1. rules' = [rules EXCEPT ![id] = row]
        BY <3>3
      <4>2. FiredAsBefore(row, rules[id]) /\ row.tells = rules[id].tells
        BY <3>1 DEF RuleRows, FiredAsBefore
      <4> HIDE DEF row
      <4> QED BY <2>2, <3>1, <3>2, <3>3, <4>1, <4>2
    <3>4. ASSUME NEW m \in Cooldowns \cup {NoCooldown},
                 rules' = [rules EXCEPT ![id].cooldown = m], UNCHANGED muted
          PROVE  <1>2!1 /\ <1>2!2 /\ <1>2!3 /\ <1>2!4 /\ <1>2!5
      <4> DEFINE row == [rules[id] EXCEPT !.cooldown = m]
      <4>1. rules' = [rules EXCEPT ![id] = row]
        BY <3>4
      <4>2. m \in Nat
        BY AlertsAssumption DEF NoCooldown
      <4>3. FiredAsBefore(row, rules[id]) /\ row.tells = rules[id].tells
        BY <3>1, <4>2 DEF RuleRows, FiredAsBefore
      <4> HIDE DEF row
      <4> QED BY <2>2, <3>1, <3>2, <3>4, <4>1, <4>3
    <3>5. ASSUME NEW on \in BOOLEAN, rules' = [rules EXCEPT ![id].enabled = on],
                 UNCHANGED muted
          PROVE  <1>2!1 /\ <1>2!2 /\ <1>2!3 /\ <1>2!4 /\ <1>2!5
      <4> DEFINE row == [rules[id] EXCEPT !.enabled = on]
      <4>1. rules' = [rules EXCEPT ![id] = row]
        BY <3>5
      <4>2. FiredAsBefore(row, rules[id]) /\ row.tells = rules[id].tells
        BY <3>1 DEF RuleRows, FiredAsBefore
      <4> HIDE DEF row
      <4> QED BY <2>2, <3>1, <3>2, <3>5, <4>1, <4>2
    <3>6. ASSUME NEW tells \in BOOLEAN, rules' = [rules EXCEPT ![id].tells = tells],
                 muted' = IF tells THEN muted ELSE muted \cup {id}
          PROVE  <1>2!1 /\ <1>2!2 /\ <1>2!3 /\ <1>2!4 /\ <1>2!5
      <4> DEFINE row == [rules[id] EXCEPT !.tells = tells]
      <4>1. rules' = [rules EXCEPT ![id] = row]
        BY <3>6
      <4>2. FiredAsBefore(row, rules[id]) /\ row.tells = tells
        BY <3>1 DEF RuleRows, FiredAsBefore
      <4> HIDE DEF row
      <4> QED BY <2>2, <3>1, <3>6, <4>1, <4>2
    <3> QED BY <2>3, <3>3, <3>4, <3>5, <3>6 DEF UpdateRule
  <2> QED BY <2>1, <2>3
<1>3. AlertTypeInv'
  BY <1>1, <1>2 DEF AlertInv, AlertTypeInv, FiredAsBefore
<1>4. StampInv'
  BY <1>1, <1>2 DEF AlertInv, StampInv, FiredAsBefore
<1>5. QuietInCooldown'
  BY <1>1, <1>2 DEF AlertInv, QuietInCooldown, FiredAsBefore
<1> QED BY <1>3, <1>4, <1>5 DEF AlertInv

\* A rule that fires is out of its cooldown: its notifications are all at
\* least that far back, and the new one, if it can be made, is the last.
LEMMA EvaluateRulesInv ==
    ASSUME AlertInv, EvaluateRules
    PROVE  AlertInv'
<1>1. /\ DOMAIN rules' = DOMAIN rules
      /\ rules' = [i \in DOMAIN rules' |-> rules'[i]]
      /\ alertNow' = alertNow /\ muted' = muted
      /\ Triggered \subseteq DOMAIN rules /\ DOMAIN rules \subseteq RuleIds
      /\ alertNow \in Nat /\ alertNow > 0
  <2>1. /\ DOMAIN rules' = DOMAIN rules /\ rules' = [i \in DOMAIN rules' |-> rules'[i]]
        /\ alertNow' = alertNow /\ muted' = muted
    BY DEF EvaluateRules
  <2>2. Triggered \subseteq DOMAIN rules
    BY DEF Triggered
  <2> QED BY <2>1, <2>2 DEF AlertInv, AlertTypeInv
<1>2. \A i \in DOMAIN rules : i \notin Triggered =>
         rules'[i] = rules[i] /\ announced'[i] = announced[i]
  BY <1>1 DEF EvaluateRules
<1>3. \A i \in Triggered :
         /\ rules'[i] = [rules[i] EXCEPT !.last = alertNow, !.count = rules[i].count + 1]
         /\ announced'[i] = Notified(i)
  BY <1>1 DEF EvaluateRules
<1>5. \A i \in DOMAIN rules : /\ rules[i] \in RuleRows
                              /\ announced[i] \in Seq(Announcements)
  BY <1>1 DEF AlertInv, AlertTypeInv
<1>6. ASSUME NEW i \in Triggered
      PROVE  /\ rules'[i] \in RuleRows
             /\ rules'[i].last = alertNow
             /\ rules'[i].count = rules[i].count + 1
             /\ rules'[i].tells = rules[i].tells
  <2>1. rules[i] \in RuleRows
    BY <1>1, <1>5
  <2> DEFINE c == rules[i].count + 1
  <2>2. c \in Nat
    BY <2>1 DEF RuleRows
  <2>3. rules'[i] = [rules[i] EXCEPT !.last = alertNow, !.count = c]
    BY <1>3
  <2> HIDE DEF c
  <2>4. /\ rules'[i] \in RuleRows /\ rules'[i].last = alertNow
        /\ rules'[i].count = c /\ rules'[i].tells = rules[i].tells
    BY <1>1, <2>1, <2>2, <2>3 DEF RuleRows
  <2> QED BY <2>4 DEF c
<1>7. ASSUME NEW i \in Triggered
      PROVE  /\ announced'[i] \in Seq(Announcements)
             /\ \A j \in 1..Len(announced'[i]) : announced'[i][j].at <= alertNow
             /\ \A j, n \in 1..Len(announced'[i]) :
                  j < n => announced'[i][n].at - announced'[i][j].at >= announced'[i][n].cooldown
             /\ rules[i].tells => Len(announced'[i]) = Len(announced[i]) + 1
             /\ ~rules[i].tells => Len(announced'[i]) = Len(announced[i])
  <2> DEFINE old == announced[i]
             note == [at |-> alertNow, cooldown |-> rules[i].cooldown]
  <2>1. /\ rules[i] \in RuleRows /\ i \in DOMAIN rules /\ ~InCooldown(i)
        /\ old \in Seq(Announcements)
    BY <1>1, <1>5 DEF Triggered
  <2>2. rules[i].last \in Nat /\ rules[i].cooldown \in Nat /\ rules[i].tells \in BOOLEAN
    BY <2>1 DEF RuleRows
  <2>3. rules[i].last = 0 \/ alertNow - rules[i].last >= rules[i].cooldown
    BY <1>1, <2>1, <2>2 DEF InCooldown, NotTriggered
  <2>4. /\ \A j \in 1..Len(old) : old[j].at <= rules[i].last
        /\ rules[i].last = 0 => old = <<>>
        /\ rules[i].last <= alertNow
    BY <2>1 DEF AlertInv, StampInv, NotTriggered
  <2>5. \A j \in 1..Len(old) : /\ old[j].at \in Nat /\ old[j].cooldown \in Nat
                               /\ old[j].at <= alertNow
                               /\ alertNow - old[j].at >= rules[i].cooldown
    <3> SUFFICES ASSUME NEW j \in 1..Len(old)
                 PROVE  /\ old[j].at \in Nat /\ old[j].cooldown \in Nat
                        /\ old[j].at <= alertNow
                        /\ alertNow - old[j].at >= rules[i].cooldown
      OBVIOUS
    <3>1. old[j] \in Announcements /\ old # <<>>
      BY <2>1
    <3>2. old[j].at \in Nat /\ old[j].cooldown \in Nat
      BY <3>1 DEF Announcements
    <3>3. old[j].at <= rules[i].last
      BY <2>4
    <3> HIDE DEF old
    <3> QED BY <1>1, <2>2, <2>3, <2>4, <3>1, <3>2, <3>3
  <2>6. \A j, n \in 1..Len(old) : j < n => old[n].at - old[j].at >= old[n].cooldown
    BY <2>1 DEF AlertInv, QuietInCooldown
  <2>7. note \in Announcements /\ note.at = alertNow /\ note.cooldown = rules[i].cooldown
    BY <1>1, <2>2 DEF Announcements
  <2>8. announced'[i] = IF rules[i].tells THEN Append(old, note) ELSE old
    BY <1>3 DEF Notified
  <2> HIDE DEF old, note
  <2>9. CASE rules[i].tells
    <3> DEFINE new == Append(old, note)
    <3>1. /\ new \in Seq(Announcements) /\ Len(new) = Len(old) + 1 /\ Len(old) \in Nat
          /\ new[Len(new)] = note /\ \A j \in 1..Len(old) : new[j] = old[j]
      BY <2>1, <2>7
    <3>2. announced'[i] = new
      BY <2>8, <2>9
    <3> HIDE DEF new
    <3>3. \A j \in 1..Len(new) : j \in 1..Len(old) \/ j = Len(new)
      BY <3>1
    <3>4. \A j \in 1..Len(new) : new[j].at <= alertNow
      BY <1>1, <2>5, <2>7, <3>1, <3>3
    <3>5. ASSUME NEW j \in 1..Len(new), NEW n \in 1..Len(new), j < n
          PROVE  new[n].at - new[j].at >= new[n].cooldown
      <4>1. j \in 1..Len(old)
        BY <3>1, <3>5
      <4>2. CASE n = Len(new)
        BY <2>5, <2>7, <3>1, <4>1, <4>2
      <4>3. CASE n \in 1..Len(old)
        BY <2>6, <3>1, <3>5, <4>1, <4>3
      <4> QED BY <3>3, <4>2, <4>3
    <3>6. Len(announced'[i]) = Len(announced[i]) + 1
      BY <3>1, <3>2 DEF old
    <3> QED BY <2>9, <3>1, <3>2, <3>4, <3>5, <3>6
  <2>10. CASE ~rules[i].tells
    <3>1. announced'[i] = old
      BY <2>8, <2>10
    <3>2. Len(announced'[i]) = Len(announced[i])
      BY <3>1 DEF old
    <3> QED BY <2>1, <2>5, <2>6, <2>10, <3>1, <3>2
  <2> QED BY <2>2, <2>9, <2>10
<1>8. AlertTypeInv'
  <2>1. \A i \in DOMAIN rules' : rules'[i] \in RuleRows
    BY <1>1, <1>2, <1>5, <1>6
  <2>2. announced' = [i \in RuleIds |-> announced'[i]]
    BY DEF EvaluateRules
  <2>3. \A i \in RuleIds : announced'[i] \in Seq(Announcements)
    <3> SUFFICES ASSUME NEW i \in RuleIds
                 PROVE  announced'[i] \in Seq(Announcements)
      OBVIOUS
    <3>1. CASE i \in Triggered
      BY <1>7, <3>1
    <3>2. CASE i \notin Triggered
      <4>1. announced'[i] = announced[i]
        BY <3>2 DEF EvaluateRules
      <4> QED BY <4>1 DEF AlertInv, AlertTypeInv
    <3> QED BY <3>1, <3>2
  <2>4. announced' \in [RuleIds -> Seq(Announcements)]
    BY <2>2, <2>3
  <2> QED BY <1>1, <2>1, <2>4 DEF AlertInv, AlertTypeInv
<1>9. StampInv'
  <2> SUFFICES ASSUME NEW i \in DOMAIN rules
               PROVE  /\ rules'[i].last <= alertNow
                      /\ \A j \in 1..Len(announced'[i]) : announced'[i][j].at <= rules'[i].last
                      /\ rules'[i].last = NotTriggered => announced'[i] = <<>>
                      /\ ~rules'[i].tells => i \in muted
    BY <1>1 DEF StampInv
  <2>1. CASE i \in Triggered
    <3>1. ~rules'[i].tells => i \in muted
      BY <1>6, <2>1 DEF AlertInv, StampInv
    <3>2. rules'[i].last = alertNow /\ alertNow # NotTriggered
      BY <1>1, <1>6, <2>1 DEF NotTriggered
    <3>3. \A j \in 1..Len(announced'[i]) : announced'[i][j].at <= alertNow
      BY <1>7, <2>1
    <3> QED BY <1>1, <3>1, <3>2, <3>3
  <2>2. CASE i \notin Triggered
    BY <1>2, <2>2 DEF AlertInv, StampInv
  <2> QED BY <2>1, <2>2
<1>10. QuietInCooldown'
  <2> SUFFICES ASSUME NEW i \in DOMAIN rules
               PROVE  /\ \A j, n \in 1..Len(announced'[i]) :
                           j < n => announced'[i][n].at - announced'[i][j].at
                                      >= announced'[i][n].cooldown
                      /\ Len(announced'[i]) <= rules'[i].count
                      /\ i \notin muted => Len(announced'[i]) = rules'[i].count
    BY <1>1 DEF QuietInCooldown
  <2>1. CASE i \in Triggered
    <3>1. /\ Len(announced[i]) <= rules[i].count
          /\ i \notin muted => Len(announced[i]) = rules[i].count
      BY DEF AlertInv, QuietInCooldown
    <3>2. rules[i].count \in Nat /\ Len(announced[i]) \in Nat
      BY <1>5 DEF RuleRows
    <3>3. i \notin muted => rules[i].tells
      BY DEF AlertInv, StampInv
    <3>4. /\ Len(announced'[i]) <= rules'[i].count
          /\ i \notin muted => Len(announced'[i]) = rules'[i].count
      <4>1. rules'[i].count = rules[i].count + 1
        BY <1>6, <2>1
      <4>2. /\ rules[i].tells => Len(announced'[i]) = Len(announced[i]) + 1
            /\ ~rules[i].tells => Len(announced'[i]) = Len(announced[i])
        BY <1>7, <2>1
      <4>3. CASE rules[i].tells
        BY <3>1, <3>2, <4>1, <4>2, <4>3
      <4>4. CASE ~rules[i].tells
        BY <3>1, <3>2, <3>3, <4>1, <4>2, <4>4
      <4> QED BY <4>3, <4>4
    <3> QED BY <1>7, <2>1, <3>4
  <2>2. CASE i \notin Triggered
    BY <1>2, <2>2 DEF AlertInv, QuietInCooldown
  <2> QED BY <2>1, <2>2
<1> QED BY <1>8, <1>9, <1>10 DEF AlertInv

\* No rules, no notifications.
LEMMA AlertInitInv == AlertInit => AlertInv
<1> SUFFICES ASSUME AlertInit
             PROVE  AlertInv
  OBVIOUS
<1>1. DOMAIN rules = {} /\ rules \in [DOMAIN rules -> RuleRows] /\ alertNow = 1
  BY DEF AlertInit
<1>2. announced \in [RuleIds -> Seq(Announcements)]
  BY DEF AlertInit
<1> QED BY <1>1, <1>2 DEF AlertInv, AlertTypeInv, StampInv, QuietInCooldown

\* The clock goes forward, and what the agents do leaves the rules alone.
LEMMA AlertNextInv == AlertInv /\ [AlertNext]_alertVars => AlertInv'
<1> SUFFICES ASSUME AlertInv, [AlertNext]_alertVars
             PROVE  AlertInv'
  OBVIOUS
<1>1. CASE MinutePasses
  <2>1. /\ alertNow' = alertNow + 1 /\ rules' = rules /\ announced' = announced
        /\ muted' = muted
    BY <1>1 DEF MinutePasses
  <2>2. AlertTypeInv'
    BY <2>1 DEF AlertInv, AlertTypeInv
  <2>3. StampInv'
    <3>1. \A i \in DOMAIN rules : rules[i].last \in Nat
      BY DEF AlertInv, AlertTypeInv, RuleRows
    <3>2. \A i \in DOMAIN rules : rules[i].last <= alertNow + 1
      BY <3>1 DEF AlertInv, AlertTypeInv, StampInv
    <3> QED BY <2>1, <3>2 DEF AlertInv, StampInv
  <2> QED BY <2>1, <2>2, <2>3 DEF AlertInv, QuietInCooldown
<1>2. ASSUME NEW a \in Watched, NEW s \in AgentStatus, AgentMoves(a, s)
      PROVE  AlertInv'
  <2>1. alertNow' = alertNow /\ rules' = rules /\ announced' = announced /\ muted' = muted
    BY <1>2 DEF AgentMoves
  <2> QED BY <2>1 DEF AlertInv, AlertTypeInv, StampInv, QuietInCooldown
<1>3. CASE UNCHANGED alertVars
  BY <1>3 DEF alertVars, AlertInv, AlertTypeInv, StampInv, QuietInCooldown
<1>4. CASE EvaluateRules
  BY <1>4, EvaluateRulesInv
<1> QED BY <1>1, <1>2, <1>3, <1>4, CreateRuleInv, ChangeRuleInv DEF AlertNext

\* POST, PUT, DELETE and evaluateRules keep the stamps of the rules right.
THEOREM AlertInvHolds == AlertSpec => []AlertInv
<1>1. AlertInit => AlertInv
  BY AlertInitInv
<1>2. AlertInv /\ [AlertNext]_alertVars => AlertInv'
  BY AlertNextInv
<1> QED BY <1>1, <1>2, PTL DEF AlertSpec

\* evaluateRules: a rule announces itself at most once per cooldown and counts
\* what it announced, for any rules, cooldowns, changes and order of requests.
THEOREM AlertsCorrect == AlertSpec => []QuietInCooldown
<1>1. AlertInv => QuietInCooldown
  BY DEF AlertInv
<1> QED BY <1>1, AlertInvHolds, PTL

(***************************************************************************)
(* Agents and their direct connections.                                    *)
(***************************************************************************)
FleetStatus == {"offline", "online", "busy", "idle"}
FleetRows == [id : Nat, status : FleetStatus, seen : Nat \cup {Never}]
ConnRows == [id : Nat, agent : Nat, status : {"connected", "disconnected"},
             beat : Nat \cup {Never}]

\* AUTOINCREMENT: the id of an agent is its own, and an agent that is made
\* again under its name gets another.
FleetTypeInv ==
    /\ lastAgentId \in Nat /\ fleetCalls \in Nat
    /\ fleet \in [DOMAIN fleet -> FleetRows]
    /\ conns \subseteq ConnRows
    /\ \A n \in DOMAIN fleet : fleet[n].id <= lastAgentId
    /\ \A m, n \in DOMAIN fleet : fleet[m].id = fleet[n].id => m = n

\* OneLiveConnection without counting.
LiveInv ==
    \A c, d \in conns :
        c.agent = d.agent /\ c.status = "connected" /\ d.status = "connected" => c = d

FleetInv == FleetTypeInv /\ LiveInv /\ ConnectionHasAgent /\ HeardIsNotOffline

---------------------------------------------------------------------------
\* What changes neither the agents' ids nor whose the connections are leaves
\* every connection with its agent.
LEMMA SameAgents ==
    ASSUME FleetInv, DOMAIN fleet' = DOMAIN fleet, fleetCalls' \in Nat,
           fleet' = [n \in DOMAIN fleet |-> fleet'[n]],
           \A n \in DOMAIN fleet : fleet'[n] \in FleetRows /\ fleet'[n].id = fleet[n].id,
           lastAgentId' = lastAgentId, conns' \subseteq ConnRows,
           \A c \in conns' : \E d \in conns : c.agent = d.agent
    PROVE  FleetTypeInv' /\ ConnectionHasAgent'
<1>1. FleetTypeInv'
  BY DEF FleetInv, FleetTypeInv
<1>2. ConnectionHasAgent'
  <2> SUFFICES ASSUME NEW c \in conns'
               PROVE  \E n \in DOMAIN fleet' : fleet'[n].id = c.agent
    BY DEF ConnectionHasAgent
  <2>1. PICK d \in conns : c.agent = d.agent
    OBVIOUS
  <2>2. PICK n \in DOMAIN fleet : fleet[n].id = d.agent
    BY DEF FleetInv, ConnectionHasAgent
  <2> QED BY <2>1, <2>2
<1> QED BY <1>1, <1>2

\* The rows are rows, and the ages compare.
LEMMA FleetRowFacts ==
    ASSUME FleetInv, NEW n \in DOMAIN fleet
    PROVE  /\ fleet[n] \in FleetRows /\ fleet[n].id \in Nat /\ fleet[n].status \in FleetStatus
           /\ fleet[n].seen \in Int /\ fleet[n].seen >= -1
<1>1. fleet[n] \in FleetRows
  BY DEF FleetInv, FleetTypeInv
<1> QED BY <1>1 DEF FleetRows, Never

\* updateAgentStatus and PUT: status and last_seen of one row.
LEMMA OneRowSet ==
    ASSUME FleetInv, NEW n \in DOMAIN fleet, NEW s \in FleetStatus,
           fleet' = [fleet EXCEPT ![n].status = s, ![n].seen = 0]
    PROVE  /\ DOMAIN fleet' = DOMAIN fleet
           /\ fleet' = [m \in DOMAIN fleet |-> fleet'[m]]
           /\ \A m \in DOMAIN fleet : fleet'[m] \in FleetRows /\ fleet'[m].id = fleet[m].id
           /\ fleet'[n].status = s /\ fleet'[n].seen = 0
           /\ \A m \in DOMAIN fleet \ {n} : fleet'[m] = fleet[m]
<1>1. fleet[n] \in FleetRows /\ fleet \in [DOMAIN fleet -> FleetRows]
  BY DEF FleetInv, FleetTypeInv
<1> DEFINE row == [fleet[n] EXCEPT !.status = s, !.seen = 0]
<1>2. /\ row \in FleetRows /\ row.id = fleet[n].id
      /\ row.status = s /\ row.seen = 0
  BY <1>1 DEF FleetRows
<1>3. fleet' = [fleet EXCEPT ![n] = row]
  BY <1>1 DEF FleetRows
<1> HIDE DEF row
<1>4. /\ DOMAIN fleet' = DOMAIN fleet /\ fleet'[n] = row
      /\ \A m \in DOMAIN fleet \ {n} : fleet'[m] = fleet[m]
      /\ fleet' = [m \in DOMAIN fleet |-> fleet'[m]]
  BY <1>1, <1>3
<1> QED BY <1>1, <1>2, <1>4

\* A heartbeat or a successful wake: the agent is idle and was seen now, or
\* it has been deleted meanwhile and nothing happens.
LEMMA SeenIdleKeeps ==
    ASSUME FleetInv, NEW n, SeenIdle(n)
    PROVE  /\ DOMAIN fleet' = DOMAIN fleet
           /\ fleet' = [m \in DOMAIN fleet |-> fleet'[m]]
           /\ \A m \in DOMAIN fleet : fleet'[m] \in FleetRows /\ fleet'[m].id = fleet[m].id
           /\ \A m \in DOMAIN fleet : fleet'[m].status = "offline" => m # n /\ fleet'[m] = fleet[m]
           /\ HeardIsNotOffline'
<1>1. CASE Registered(n)
  <2>1. n \in DOMAIN fleet /\ fleet' = [fleet EXCEPT ![n].status = "idle", ![n].seen = 0]
        /\ toldOff' = toldOff \ {n}
    BY <1>1 DEF SeenIdle, Registered
  <2>2. "idle" \in FleetStatus
    BY DEF FleetStatus
  <2>3. /\ DOMAIN fleet' = DOMAIN fleet
        /\ fleet' = [m \in DOMAIN fleet |-> fleet'[m]]
        /\ \A m \in DOMAIN fleet : fleet'[m] \in FleetRows /\ fleet'[m].id = fleet[m].id
        /\ fleet'[n].status = "idle"
        /\ \A m \in DOMAIN fleet \ {n} : fleet'[m] = fleet[m]
    BY <2>1, <2>2, OneRowSet
  <2>4. HeardIsNotOffline'
    BY <2>1, <2>3 DEF FleetInv, HeardIsNotOffline
  <2> QED BY <2>3, <2>4
<1>2. CASE ~Registered(n)
  <2>1. fleet' = fleet /\ toldOff' = toldOff \ {n} /\ n \notin DOMAIN fleet
    BY <1>2 DEF SeenIdle, Registered
  <2>2. HeardIsNotOffline'
    BY <2>1 DEF FleetInv, HeardIsNotOffline
  <2>3. \A m \in DOMAIN fleet : fleet[m] \in FleetRows
    BY FleetRowFacts
  <2>4. fleet = [m \in DOMAIN fleet |-> fleet[m]]
    BY DEF FleetInv, FleetTypeInv
  <2> QED BY <2>1, <2>2, <2>3, <2>4
<1> QED BY <1>1, <1>2

\* A new row has an id nobody had, and was never seen.
LEMMA AddAgentInv ==
    ASSUME FleetInv, NEW n, AddAgent(n)
    PROVE  FleetInv'
<1> DEFINE row == [id |-> lastAgentId + 1, status |-> "offline", seen |-> Never]
<1>1. /\ n \notin DOMAIN fleet /\ fleet' = WithAgent(n, row)
      /\ lastAgentId' = lastAgentId + 1 /\ fleetCalls' = fleetCalls + 1
      /\ conns' = conns /\ toldOff' = toldOff
  BY DEF AddAgent, FleetCall, Registered
<1>2. /\ row \in FleetRows /\ row.id = lastAgentId + 1 /\ row.seen = -1
  BY DEF FleetInv, FleetTypeInv, FleetRows, FleetStatus, Never
<1> HIDE DEF row
<1>3. /\ DOMAIN fleet' = DOMAIN fleet \cup {n} /\ fleet'[n] = row
      /\ \A m \in DOMAIN fleet : m # n /\ fleet'[m] = fleet[m]
      /\ fleet' = [m \in DOMAIN fleet' |-> fleet'[m]]
  BY <1>1 DEF WithAgent
<1>4. \A m \in DOMAIN fleet : fleet[m] \in FleetRows /\ fleet[m].id \in Nat /\ fleet[m].id <= lastAgentId
  BY FleetRowFacts DEF FleetInv, FleetTypeInv
<1>5. lastAgentId \in Nat /\ fleetCalls \in Nat
  BY DEF FleetInv, FleetTypeInv
<1>6. FleetTypeInv'
  <2>1. fleet' \in [DOMAIN fleet' -> FleetRows]
    BY <1>2, <1>3, <1>4
  <2>2. \A m \in DOMAIN fleet' : fleet'[m].id <= lastAgentId'
    BY <1>1, <1>2, <1>3, <1>4, <1>5
  <2>3. \A m, x \in DOMAIN fleet' : fleet'[m].id = fleet'[x].id => m = x
    <3>1. \A m \in DOMAIN fleet : fleet[m].id # row.id
      BY <1>2, <1>4, <1>5
    <3>2. \A m, x \in DOMAIN fleet : fleet[m].id = fleet[x].id => m = x
      BY DEF FleetInv, FleetTypeInv
    <3> QED BY <1>3, <3>1, <3>2
  <2>4. conns' \subseteq ConnRows
    BY <1>1 DEF FleetInv, FleetTypeInv
  <2> QED BY <1>1, <1>5, <2>1, <2>2, <2>3, <2>4 DEF FleetTypeInv
<1>7. LiveInv'
  BY <1>1 DEF FleetInv, LiveInv
<1>8. ConnectionHasAgent'
  BY <1>1, <1>3 DEF FleetInv, ConnectionHasAgent
<1>9. HeardIsNotOffline'
  BY <1>1, <1>2, <1>3, AgentFleetAssumption DEF FleetInv, HeardIsNotOffline
<1> QED BY <1>6, <1>7, <1>8, <1>9 DEF FleetInv

\* With an agent go its connections, and no other agent has its id.
LEMMA RemoveAgentInv ==
    ASSUME FleetInv, NEW n, RemoveAgent(n)
    PROVE  FleetInv'
<1>1. /\ n \in DOMAIN fleet /\ fleet' = [x \in DOMAIN fleet \ {n} |-> fleet[x]]
      /\ conns' = {c \in conns : c.agent # fleet[n].id}
      /\ toldOff' = toldOff \ {n} /\ lastAgentId' = lastAgentId
      /\ fleetCalls' = fleetCalls + 1
  BY DEF RemoveAgent, FleetCall, Registered, Cascade
<1>2. /\ DOMAIN fleet' = DOMAIN fleet \ {n}
      /\ \A m \in DOMAIN fleet' : fleet'[m] = fleet[m]
      /\ fleet' = [m \in DOMAIN fleet' |-> fleet'[m]]
  BY <1>1
<1>3. /\ conns' \subseteq conns /\ \A c \in conns' : c.agent # fleet[n].id
  BY <1>1
<1>4. FleetTypeInv'
  <2>1. \A m \in DOMAIN fleet : fleet[m] \in FleetRows
    BY FleetRowFacts
  <2>2. fleet' \in [DOMAIN fleet' -> FleetRows]
    BY <1>2, <2>1
  <2>3. lastAgentId' = lastAgentId /\ fleetCalls' = fleetCalls + 1
    BY <1>1
  <2> QED BY <1>2, <1>3, <2>2, <2>3 DEF FleetInv, FleetTypeInv
<1>5. LiveInv'
  BY <1>3 DEF FleetInv, LiveInv
<1>6. ConnectionHasAgent'
  BY <1>2, <1>3 DEF FleetInv, ConnectionHasAgent
<1>7. HeardIsNotOffline'
  BY <1>1, <1>2 DEF FleetInv, HeardIsNotOffline
<1> QED BY <1>4, <1>5, <1>6, <1>7 DEF FleetInv

\* PUT with 'offline' is somebody saying so.
LEMMA PutStatusInv ==
    ASSUME FleetInv, NEW n, NEW s \in {"offline", "busy"}, PutStatus(n, s)
    PROVE  FleetInv'
<1>1. /\ n \in DOMAIN fleet
      /\ fleet' = [fleet EXCEPT ![n].status = s, ![n].seen = 0]
      /\ toldOff' = IF s = "offline" THEN toldOff \cup {n} ELSE toldOff \ {n}
  BY DEF PutStatus, Registered
<1>2. conns' = conns /\ lastAgentId' = lastAgentId /\ fleetCalls' = fleetCalls + 1
  BY DEF PutStatus, FleetCall
<1>3. s \in FleetStatus
  BY DEF FleetStatus
<1>4. /\ DOMAIN fleet' = DOMAIN fleet
      /\ fleet' = [m \in DOMAIN fleet |-> fleet'[m]]
      /\ \A m \in DOMAIN fleet : fleet'[m] \in FleetRows /\ fleet'[m].id = fleet[m].id
      /\ fleet'[n].status = s
      /\ \A m \in DOMAIN fleet \ {n} : fleet'[m] = fleet[m]
  BY <1>1, <1>3, OneRowSet
<1>5. fleetCalls' \in Nat /\ conns' \subseteq ConnRows
  BY <1>2 DEF FleetInv, FleetTypeInv
<1>6. FleetTypeInv' /\ ConnectionHasAgent'
  BY <1>2, <1>4, <1>5, SameAgents
<1>7. LiveInv'
  BY <1>2 DEF FleetInv, LiveInv
<1>8. HeardIsNotOffline'
  <2>1. s # "offline" => fleet'[n].status # "offline"
    BY <1>4
  <2>2. s = "offline" => n \in toldOff'
    BY <1>1
  <2>3. \A m \in DOMAIN fleet \ {n} : m \in toldOff => m \in toldOff'
    BY <1>1
  <2> QED BY <1>4, <2>1, <2>2, <2>3 DEF FleetInv, HeardIsNotOffline
<1> QED BY <1>6, <1>7, <1>8 DEF FleetInv

\* A heartbeat refreshes connections in place.
LEMMA AgentHeartbeatInv ==
    ASSUME FleetInv, NEW n, NEW cid, AgentHeartbeat(n, cid)
    PROVE  FleetInv'
<1>1. /\ SeenIdle(n) /\ lastAgentId' = lastAgentId /\ fleetCalls' = fleetCalls + 1
      /\ conns' = {IF c.id = cid /\ c.status = "connected" THEN [c EXCEPT !.beat = 0] ELSE c : c \in conns}
  BY DEF AgentHeartbeat, FleetCall
<1>2. conns \subseteq ConnRows
  BY DEF FleetInv, FleetTypeInv
<1>3. \A x \in conns' : \E c \in conns :
         x = IF c.id = cid /\ c.status = "connected" THEN [c EXCEPT !.beat = 0] ELSE c
  BY <1>1
<1>4. \A c \in ConnRows :
         /\ [c EXCEPT !.beat = 0] \in ConnRows
         /\ [c EXCEPT !.beat = 0].agent = c.agent /\ [c EXCEPT !.beat = 0].status = c.status
  BY DEF ConnRows
<1>5. \A x \in conns' : x \in ConnRows /\ \E c \in conns : x.agent = c.agent
  <2> SUFFICES ASSUME NEW x \in conns'
               PROVE  x \in ConnRows /\ \E c \in conns : x.agent = c.agent
    OBVIOUS
  <2>1. PICK c \in conns : x = IF c.id = cid /\ c.status = "connected" THEN [c EXCEPT !.beat = 0] ELSE c
    BY <1>3
  <2>2. x \in ConnRows /\ x.agent = c.agent
    BY <1>2, <1>4, <2>1
  <2> QED BY <2>2
<1>6. FleetTypeInv' /\ ConnectionHasAgent' /\ HeardIsNotOffline'
  <2>1. fleetCalls' \in Nat
    BY <1>1 DEF FleetInv, FleetTypeInv
  <2> QED BY <1>1, <1>5, <2>1, SeenIdleKeeps, SameAgents
<1>7. LiveInv'
  <2> SUFFICES ASSUME NEW x \in conns', NEW y \in conns', x.agent = y.agent,
                      x.status = "connected", y.status = "connected"
               PROVE  x = y
    BY DEF LiveInv
  <2>1. PICK c \in conns : x = IF c.id = cid /\ c.status = "connected" THEN [c EXCEPT !.beat = 0] ELSE c
    BY <1>3
  <2>2. PICK d \in conns : y = IF d.id = cid /\ d.status = "connected" THEN [d EXCEPT !.beat = 0] ELSE d
    BY <1>3
  <2>3. x.agent = c.agent /\ x.status = c.status /\ y.agent = d.agent /\ y.status = d.status
    BY <1>2, <1>4, <2>1, <2>2
  <2>4. c = d
    BY <2>3 DEF FleetInv, LiveInv
  <2> QED BY <2>1, <2>2, <2>4
<1> QED BY <1>6, <1>7 DEF FleetInv

\* A wake leaves the connections alone, whatever became of the agent.
LEMMA WakeInv ==
    ASSUME FleetInv, NEW n, StartWake(n) \/ \E ok \in BOOLEAN : WakeEnds(n, ok)
    PROVE  FleetInv'
<1>1. conns' = conns /\ lastAgentId' = lastAgentId /\ fleetCalls' \in Nat
  <2>1. fleetCalls \in Nat
    BY DEF FleetInv, FleetTypeInv
  <2>2. fleetCalls' = fleetCalls \/ fleetCalls' = fleetCalls + 1
    BY DEF StartWake, WakeEnds, FleetCall
  <2>3. conns' = conns /\ lastAgentId' = lastAgentId
    BY DEF StartWake, WakeEnds
  <2> QED BY <2>1, <2>2, <2>3
<1>2. conns' \subseteq ConnRows /\ LiveInv'
  BY <1>1 DEF FleetInv, FleetTypeInv, LiveInv
<1>3. CASE SeenIdle(n)
  BY <1>1, <1>2, <1>3, SeenIdleKeeps, SameAgents DEF FleetInv
<1>4. CASE fleet' = fleet /\ toldOff' = toldOff
  <2>1. ConnectionHasAgent' /\ HeardIsNotOffline'
    BY <1>1, <1>4 DEF FleetInv, ConnectionHasAgent, HeardIsNotOffline
  <2>2. FleetTypeInv'
    BY <1>1, <1>2, <1>4 DEF FleetInv, FleetTypeInv
  <2> QED BY <1>2, <2>1, <2>2 DEF FleetInv
<1> QED BY <1>3, <1>4 DEF StartWake, WakeEnds

\* POST /api/connect, the connections: those the agent had are replaced.
LEMMA ReplacedConns ==
    ASSUME FleetInv, NEW id \in Nat,
           conns' = Replaced(id) \cup
                      {[id |-> fleetCalls, agent |-> id, status |-> "connected", beat |-> 0]}
    PROVE  /\ conns' \subseteq ConnRows /\ LiveInv'
           /\ \A x \in conns' : x.agent = id \/ \E c \in conns : x.agent = c.agent
<1> DEFINE new == [id |-> fleetCalls, agent |-> id, status |-> "connected", beat |-> 0]
<1>1. new \in ConnRows /\ new.agent = id
  BY DEF FleetInv, FleetTypeInv, ConnRows
<1>2. \A x \in conns' : x = new \/ x \in Replaced(id)
  OBVIOUS
<1> HIDE DEF new
<1>3. \A x \in Replaced(id) : \E c \in conns :
         x = IF c.agent = id THEN [c EXCEPT !.status = "disconnected"] ELSE c
  BY DEF Replaced
<1>4. \A c \in conns : c \in ConnRows
  BY DEF FleetInv, FleetTypeInv
<1>5. \A c \in ConnRows :
         /\ [c EXCEPT !.status = "disconnected"] \in ConnRows
         /\ [c EXCEPT !.status = "disconnected"].agent = c.agent
         /\ [c EXCEPT !.status = "disconnected"].status = "disconnected"
  BY DEF ConnRows
<1>6. \A x \in Replaced(id) :
         /\ x \in ConnRows /\ \E c \in conns : x.agent = c.agent
         /\ x.status = "connected" => x.agent # id /\ x \in conns
  <2> SUFFICES ASSUME NEW x \in Replaced(id)
               PROVE  /\ x \in ConnRows /\ \E c \in conns : x.agent = c.agent
                      /\ x.status = "connected" => x.agent # id /\ x \in conns
    OBVIOUS
  <2>1. PICK c \in conns : x = IF c.agent = id THEN [c EXCEPT !.status = "disconnected"] ELSE c
    BY <1>3
  <2>2. CASE c.agent = id
    <3>1. /\ x \in ConnRows /\ x.agent = c.agent /\ x.status = "disconnected"
      BY <1>4, <1>5, <2>1, <2>2
    <3> QED BY <3>1
  <2>3. CASE c.agent # id
    BY <1>4, <2>1, <2>3
  <2> QED BY <2>2, <2>3
<1>7. LiveInv'
  BY <1>1, <1>2, <1>6 DEF FleetInv, LiveInv
<1> QED BY <1>1, <1>2, <1>6, <1>7

\* POST /api/connect, the agent: its row is found, or made with a new id.
LEMMA FleetConnectInv ==
    ASSUME FleetInv, NEW n, FleetConnect(n)
    PROVE  FleetInv'
<1>0. lastAgentId \in Nat /\ fleetCalls \in Nat
  BY DEF FleetInv, FleetTypeInv
<1>1. CASE n \in DOMAIN fleet
  <2> DEFINE id == fleet[n].id
             row == [fleet[n] EXCEPT !.status = "online"]
  <2>1. /\ fleet' = [fleet EXCEPT ![n].status = "online"] /\ lastAgentId' = lastAgentId
        /\ toldOff' = toldOff \ {n} /\ fleetCalls' = fleetCalls + 1
        /\ conns' = Replaced(id) \cup
                      {[id |-> fleetCalls, agent |-> id, status |-> "connected", beat |-> 0]}
    BY <1>1 DEF FleetConnect, FleetCall, Registered
  <2>2. fleet[n] \in FleetRows /\ id \in Nat /\ fleet \in [DOMAIN fleet -> FleetRows]
    BY <1>1, FleetRowFacts DEF FleetInv, FleetTypeInv
  <2>3. row \in FleetRows /\ row.id = id /\ row.status = "online"
    BY <2>2 DEF FleetRows, FleetStatus
  <2>4. fleet' = [fleet EXCEPT ![n] = row]
    BY <2>1, <2>2 DEF FleetRows
  <2> HIDE DEF row
  <2>5. /\ DOMAIN fleet' = DOMAIN fleet /\ fleet'[n] = row
        /\ \A m \in DOMAIN fleet \ {n} : fleet'[m] = fleet[m]
        /\ fleet' = [m \in DOMAIN fleet |-> fleet'[m]]
    BY <1>1, <2>2, <2>4
  <2>6. /\ conns' \subseteq ConnRows /\ LiveInv'
        /\ \A x \in conns' : x.agent = id \/ \E c \in conns : x.agent = c.agent
    BY <2>1, <2>2, ReplacedConns
  <2>7. FleetTypeInv'
    <3>1. fleet' \in [DOMAIN fleet' -> FleetRows]
      BY <2>2, <2>3, <2>5
    <3>2. \A m \in DOMAIN fleet' : fleet'[m].id = fleet[m].id
      BY <2>3, <2>5
    <3>3. lastAgentId' = lastAgentId /\ fleetCalls' = fleetCalls + 1
      BY <2>1
    <3> QED BY <2>5, <2>6, <3>1, <3>2, <3>3 DEF FleetInv, FleetTypeInv
  <2>8. ConnectionHasAgent'
    <3>1. \A m \in DOMAIN fleet : fleet'[m].id = fleet[m].id
      BY <2>3, <2>5
    <3> QED BY <1>1, <2>5, <2>6, <3>1 DEF FleetInv, ConnectionHasAgent
  <2>9. HeardIsNotOffline'
    BY <2>1, <2>3, <2>5 DEF FleetInv, HeardIsNotOffline
  <2> QED BY <2>6, <2>7, <2>8, <2>9 DEF FleetInv
<1>2. CASE n \notin DOMAIN fleet
  <2> DEFINE id == lastAgentId + 1
             row == [id |-> id, status |-> "online", seen |-> Never]
  <2>1. /\ fleet' = WithAgent(n, row) /\ lastAgentId' = id
        /\ toldOff' = toldOff \ {n} /\ fleetCalls' = fleetCalls + 1
        /\ conns' = Replaced(id) \cup
                      {[id |-> fleetCalls, agent |-> id, status |-> "connected", beat |-> 0]}
    BY <1>2 DEF FleetConnect, FleetCall, Registered
  <2>2. id \in Nat /\ id > lastAgentId
    BY <1>0
  <2>3. row \in FleetRows /\ row.id = id /\ row.status = "online"
    BY <2>2 DEF FleetRows, FleetStatus, Never
  <2> HIDE DEF row
  <2>5. /\ DOMAIN fleet' = DOMAIN fleet \cup {n} /\ fleet'[n] = row
        /\ \A m \in DOMAIN fleet : m # n /\ fleet'[m] = fleet[m]
        /\ fleet' = [m \in DOMAIN fleet' |-> fleet'[m]]
    BY <1>2, <2>1 DEF WithAgent
  <2>6. /\ conns' \subseteq ConnRows /\ LiveInv'
        /\ \A x \in conns' : x.agent = id \/ \E c \in conns : x.agent = c.agent
    BY <2>1, <2>2, ReplacedConns
  <2> HIDE DEF id
  <2>7. FleetTypeInv'
    <3>1. \A m \in DOMAIN fleet : /\ fleet[m] \in FleetRows /\ fleet[m].id \in Nat
                                  /\ fleet[m].id <= lastAgentId
      BY FleetRowFacts DEF FleetInv, FleetTypeInv
    <3>2. fleet' \in [DOMAIN fleet' -> FleetRows]
      BY <2>3, <2>5, <3>1
    <3>3. lastAgentId' \in Nat /\ fleetCalls' \in Nat
      BY <1>0, <2>1, <2>2
    <3>4. \A m \in DOMAIN fleet : fleet[m].id < id
      BY <1>0, <2>2, <3>1
    <3>5. \A m \in DOMAIN fleet' : fleet'[m].id <= lastAgentId'
      BY <2>1, <2>2, <2>3, <2>5, <3>1, <3>4
    <3>6. \A m, x \in DOMAIN fleet' : fleet'[m].id = fleet'[x].id => m = x
      <4>1. \A m \in DOMAIN fleet : fleet[m].id # id
        BY <2>2, <3>1, <3>4
      <4>2. \A m, x \in DOMAIN fleet : fleet[m].id = fleet[x].id => m = x
        BY DEF FleetInv, FleetTypeInv
      <4> QED BY <2>3, <2>5, <4>1, <4>2
    <3> QED BY <2>6, <3>2, <3>3, <3>5, <3>6 DEF FleetTypeInv
  <2>8. ConnectionHasAgent'
    BY <2>3, <2>5, <2>6 DEF FleetInv, ConnectionHasAgent
  <2>9. HeardIsNotOffline'
    BY <2>1, <2>3, <2>5 DEF FleetInv, HeardIsNotOffline
  <2> QED BY <2>6, <2>7, <2>8, <2>9 DEF FleetInv
<1> QED BY <1>1, <1>2

\* DELETE /api/connect: the connection is ended, the agent with its last one.
LEMMA FleetDisconnectInv ==
    ASSUME FleetInv, NEW c \in conns, FleetDisconnect(c)
    PROVE  FleetInv'
<1> DEFINE name == {n \in DOMAIN fleet : fleet[n].id = c.agent}
           ended == [c EXCEPT !.status = "disconnected"]
<1>1. /\ conns' = (conns \ {c}) \cup {ended}
      /\ lastAgentId' = lastAgentId /\ fleetCalls' = fleetCalls + 1
  BY DEF FleetDisconnect, FleetCall
<1>2. /\ ended \in ConnRows /\ ended.agent = c.agent /\ ended.status = "disconnected"
      /\ conns \subseteq ConnRows
  BY DEF FleetInv, FleetTypeInv, ConnRows
<1> HIDE DEF ended
<1>3. /\ conns' \subseteq ConnRows /\ LiveInv'
      /\ \A x \in conns' : \E d \in conns : x.agent = d.agent
  BY <1>1, <1>2 DEF FleetInv, LiveInv
<1>4. fleetCalls' \in Nat
  BY <1>1 DEF FleetInv, FleetTypeInv
<1>5. /\ DOMAIN fleet' = DOMAIN fleet
      /\ fleet' = [n \in DOMAIN fleet |-> fleet'[n]]
      /\ \A n \in DOMAIN fleet : fleet'[n] \in FleetRows /\ fleet'[n].id = fleet[n].id
      /\ HeardIsNotOffline'
  <2>1. CASE LastOne(c)
    <3>1. /\ fleet' = [n \in DOMAIN fleet |->
                         IF n \in name THEN [fleet[n] EXCEPT !.status = "offline"] ELSE fleet[n]]
          /\ toldOff' = toldOff \cup name
      BY <2>1 DEF FleetDisconnect
    <3> HIDE DEF name
    <3>2. \A row \in FleetRows :
             /\ [row EXCEPT !.status = "offline"] \in FleetRows
             /\ [row EXCEPT !.status = "offline"].id = row.id
      BY DEF FleetRows, FleetStatus
    <3>3. \A n \in DOMAIN fleet : fleet[n] \in FleetRows
      BY FleetRowFacts
    <3>4. /\ DOMAIN fleet' = DOMAIN fleet /\ fleet' = [n \in DOMAIN fleet |-> fleet'[n]]
          /\ \A n \in DOMAIN fleet : n \notin name => fleet'[n] = fleet[n]
          /\ \A n \in DOMAIN fleet : n \in name => fleet'[n] = [fleet[n] EXCEPT !.status = "offline"]
      BY <3>1
    <3>5. \A n \in DOMAIN fleet : fleet'[n] \in FleetRows /\ fleet'[n].id = fleet[n].id
      BY <3>2, <3>3, <3>4
    <3>6. HeardIsNotOffline'
      BY <3>1, <3>4 DEF FleetInv, HeardIsNotOffline
    <3> QED BY <3>4, <3>5, <3>6
  <2>2. CASE ~LastOne(c)
    <3>1. fleet' = fleet /\ toldOff' = toldOff
      BY <2>2 DEF FleetDisconnect
    <3>2. \A n \in DOMAIN fleet : fleet[n] \in FleetRows
      BY FleetRowFacts
    <3>3. fleet = [n \in DOMAIN fleet |-> fleet[n]]
      BY DEF FleetInv, FleetTypeInv
    <3>4. HeardIsNotOffline'
      BY <3>1 DEF FleetInv, HeardIsNotOffline
    <3> QED BY <3>1, <3>2, <3>3, <3>4
  <2> QED BY <2>1, <2>2
<1>6. FleetTypeInv' /\ ConnectionHasAgent'
  BY <1>1, <1>3, <1>4, <1>5, SameAgents
<1> QED BY <1>3, <1>5, <1>6 DEF FleetInv

---------------------------------------------------------------------------
\* Time passes for everybody, and an age within the timeout was within it.
LEMMA TimePassesInv ==
    ASSUME FleetInv, TimePasses
    PROVE  FleetInv'
<1>1. /\ fleet' = [n \in DOMAIN fleet |-> [fleet[n] EXCEPT !.seen = Older(fleet[n].seen)]]
      /\ conns' = {[c EXCEPT !.beat = Older(c.beat)] : c \in conns}
      /\ lastAgentId' = lastAgentId /\ fleetCalls' = fleetCalls /\ toldOff' = toldOff
  BY DEF TimePasses
<1>2. \A a \in Nat \cup {Never} :
         /\ Older(a) \in Nat \cup {Never}
         /\ Older(a) \in 0..TimeoutTicks => a \in 0..TimeoutTicks
  BY AgentFleetAssumption DEF Older, Never
<1>3. /\ DOMAIN fleet' = DOMAIN fleet /\ fleet' = [n \in DOMAIN fleet |-> fleet'[n]]
      /\ \A n \in DOMAIN fleet :
            /\ fleet'[n] \in FleetRows /\ fleet'[n].id = fleet[n].id
            /\ fleet'[n].status = fleet[n].status /\ fleet'[n].seen = Older(fleet[n].seen)
            /\ fleet[n].seen \in Nat \cup {Never}
  <2>1. DOMAIN fleet' = DOMAIN fleet /\ fleet' = [n \in DOMAIN fleet |-> fleet'[n]]
    BY <1>1
  <2>2. ASSUME NEW n \in DOMAIN fleet
        PROVE  /\ fleet'[n] \in FleetRows /\ fleet'[n].id = fleet[n].id
               /\ fleet'[n].status = fleet[n].status /\ fleet'[n].seen = Older(fleet[n].seen)
               /\ fleet[n].seen \in Nat \cup {Never}
    <3> DEFINE age == Older(fleet[n].seen)
    <3>1. fleet[n] \in FleetRows /\ fleet[n].seen \in Nat \cup {Never}
      BY FleetRowFacts DEF FleetRows
    <3>2. age \in Nat \cup {Never}
      BY <1>2, <3>1
    <3>3. fleet'[n] = [fleet[n] EXCEPT !.seen = age]
      BY <1>1
    <3> HIDE DEF age
    <3>4. /\ fleet'[n] \in FleetRows /\ fleet'[n].id = fleet[n].id
          /\ fleet'[n].status = fleet[n].status /\ fleet'[n].seen = age
      BY <3>1, <3>2, <3>3 DEF FleetRows
    <3> QED BY <3>1, <3>4 DEF age
  <2> QED BY <2>1, <2>2
<1>4. ASSUME NEW c \in ConnRows
      PROVE  LET x == [c EXCEPT !.beat = Older(c.beat)] IN
             x \in ConnRows /\ x.agent = c.agent /\ x.status = c.status
  <2> DEFINE age == Older(c.beat)
  <2>1. age \in Nat \cup {Never}
    BY <1>2 DEF ConnRows
  <2> HIDE DEF age
  <2>2. /\ [c EXCEPT !.beat = age] \in ConnRows /\ [c EXCEPT !.beat = age].agent = c.agent
        /\ [c EXCEPT !.beat = age].status = c.status
    BY <2>1 DEF ConnRows
  <2> QED BY <2>2 DEF age
<1>5. \A x \in conns' : \E c \in conns :
         /\ x = [c EXCEPT !.beat = Older(c.beat)]
         /\ x \in ConnRows /\ x.agent = c.agent /\ x.status = c.status
  <2> SUFFICES ASSUME NEW x \in conns'
               PROVE  \E c \in conns : /\ x = [c EXCEPT !.beat = Older(c.beat)]
                                       /\ x \in ConnRows /\ x.agent = c.agent /\ x.status = c.status
    OBVIOUS
  <2>1. PICK c \in conns : x = [c EXCEPT !.beat = Older(c.beat)]
    BY <1>1
  <2>2. c \in ConnRows
    BY DEF FleetInv, FleetTypeInv
  <2>3. x \in ConnRows /\ x.agent = c.agent /\ x.status = c.status
    BY <1>4, <2>1, <2>2
  <2> QED BY <2>1, <2>3
<1>6. FleetTypeInv' /\ ConnectionHasAgent'
  <2>1. fleetCalls' \in Nat /\ lastAgentId' = lastAgentId
    BY <1>1 DEF FleetInv, FleetTypeInv
  <2>2. conns' \subseteq ConnRows /\ \A x \in conns' : \E c \in conns : x.agent = c.agent
    BY <1>5
  <2> QED BY <1>3, <2>1, <2>2, SameAgents
<1>7. LiveInv'
  <2> SUFFICES ASSUME NEW x \in conns', NEW y \in conns', x.agent = y.agent,
                      x.status = "connected", y.status = "connected"
               PROVE  x = y
    BY DEF LiveInv
  <2>1. PICK c \in conns : /\ x = [c EXCEPT !.beat = Older(c.beat)]
                           /\ x.agent = c.agent /\ x.status = c.status
    BY <1>5
  <2>2. PICK d \in conns : /\ y = [d EXCEPT !.beat = Older(d.beat)]
                           /\ y.agent = d.agent /\ y.status = d.status
    BY <1>5
  <2>3. c = d
    BY <2>1, <2>2 DEF FleetInv, LiveInv
  <2> QED BY <2>1, <2>2, <2>3
<1>8. HeardIsNotOffline'
  <2>1. toldOff' = toldOff
    BY <1>1
  <2> QED BY <1>2, <1>3, <2>1 DEF FleetInv, HeardIsNotOffline
<1> QED BY <1>6, <1>7, <1>8 DEF FleetInv

\* runHeartbeatCheck takes offline who was never seen or is silent too long.
LEMMA HeartbeatCheckInv ==
    ASSUME FleetInv, HeartbeatCheck
    PROVE  FleetInv'
<1>1. /\ fleet' = [n \in DOMAIN fleet |-> IF Stale(fleet[n])
                                          THEN [fleet[n] EXCEPT !.status = "offline"] ELSE fleet[n]]
      /\ conns' = conns /\ lastAgentId' = lastAgentId /\ fleetCalls' = fleetCalls
      /\ toldOff' = toldOff
  BY DEF HeartbeatCheck
<1>2. \A row \in FleetRows :
         /\ [row EXCEPT !.status = "offline"] \in FleetRows
         /\ [row EXCEPT !.status = "offline"].id = row.id
         /\ [row EXCEPT !.status = "offline"].seen = row.seen
  BY DEF FleetRows, FleetStatus
<1>3. \A n \in DOMAIN fleet : fleet[n] \in FleetRows
  BY FleetRowFacts
<1>4. /\ DOMAIN fleet' = DOMAIN fleet /\ fleet' = [n \in DOMAIN fleet |-> fleet'[n]]
      /\ \A n \in DOMAIN fleet : ~Stale(fleet[n]) => fleet'[n] = fleet[n]
      /\ \A n \in DOMAIN fleet : Stale(fleet[n]) => fleet'[n] = [fleet[n] EXCEPT !.status = "offline"]
  BY <1>1
<1>5. \A n \in DOMAIN fleet :
         /\ fleet'[n] \in FleetRows /\ fleet'[n].id = fleet[n].id
         /\ fleet'[n].seen = fleet[n].seen
  BY <1>2, <1>3, <1>4
<1>6. \A n \in DOMAIN fleet : Stale(fleet[n]) => fleet[n].seen \notin 0..TimeoutTicks
  BY FleetRowFacts, AgentFleetAssumption DEF Stale, Never
<1>7. FleetTypeInv' /\ ConnectionHasAgent' /\ LiveInv'
  <2>1. /\ conns' = conns /\ lastAgentId' = lastAgentId /\ fleetCalls' = fleetCalls
    BY <1>1
  <2>2. conns' \subseteq ConnRows /\ fleetCalls' \in Nat /\ LiveInv'
    BY <2>1 DEF FleetInv, FleetTypeInv, LiveInv
  <2> QED BY <1>4, <1>5, <2>1, <2>2, SameAgents
<1>8. HeardIsNotOffline'
  <2>1. toldOff' = toldOff
    BY <1>1
  <2> QED BY <1>4, <1>5, <1>6, <2>1 DEF FleetInv, HeardIsNotOffline
<1> QED BY <1>7, <1>8 DEF FleetInv

\* No agents, no connections.
LEMMA FleetInitInv == FleetInit => FleetInv
<1> SUFFICES ASSUME FleetInit
             PROVE  FleetInv
  OBVIOUS
<1>1. DOMAIN fleet = {} /\ fleet \in [DOMAIN fleet -> FleetRows]
  BY DEF FleetInit
<1>2. conns = {} /\ lastAgentId = 0 /\ fleetCalls = 0
  BY DEF FleetInit
<1> QED BY <1>1, <1>2 DEF FleetInv, FleetTypeInv, LiveInv, ConnectionHasAgent, HeardIsNotOffline

\* Every request, the clock and the scheduler's check preserve the invariant.
LEMMA FleetNextInv == FleetInv /\ [FleetNext]_fleetVars => FleetInv'
<1> SUFFICES ASSUME FleetInv, [FleetNext]_fleetVars
             PROVE  FleetInv'
  OBVIOUS
<1>1. CASE UNCHANGED fleetVars
  BY <1>1 DEF fleetVars, FleetInv, FleetTypeInv, LiveInv, ConnectionHasAgent, HeardIsNotOffline
<1>2. CASE \E n \in FleetNames :
              \/ AddAgent(n) \/ RemoveAgent(n) \/ FleetConnect(n) \/ StartWake(n)
              \/ \E s \in {"offline", "busy"} : PutStatus(n, s)
              \/ \E cid \in {c.id : c \in conns} \cup {Never} : AgentHeartbeat(n, cid)
              \/ \E ok \in BOOLEAN : WakeEnds(n, ok)
  BY <1>2, AddAgentInv, RemoveAgentInv, FleetConnectInv, WakeInv, PutStatusInv, AgentHeartbeatInv
<1>3. CASE TimePasses \/ HeartbeatCheck \/ \E c \in conns : FleetDisconnect(c)
  BY <1>3, TimePassesInv, HeartbeatCheckInv, FleetDisconnectInv
<1> QED BY <1>1, <1>2, <1>3 DEF FleetNext

\* Agents, connections and what was said of them agree after any requests.
THEOREM FleetInvHolds == FleetSpec => []FleetInv
<1>1. FleetInit => FleetInv
  BY FleetInitInv
<1>2. FleetInv /\ [FleetNext]_fleetVars => FleetInv'
  BY FleetNextInv
<1> QED BY <1>1, <1>2, PTL DEF FleetSpec

\* ConnectedStaysUp, of one step.
StaysUp ==
    \A n \in DOMAIN fleet \cap DOMAIN fleet' :
        /\ fleet[n].status # "offline" /\ fleet'[n].status = "offline"
        /\ LiveConns(fleet[n].id)' # {}
        => Stale(fleet[n]) \/ fleet'[n].seen = 0

\* Only PUT, the end of the last connection and the check take an agent down.
LEMMA FleetStaysUp == FleetInv /\ [FleetNext]_fleetVars => StaysUp
<1> SUFFICES ASSUME FleetInv, [FleetNext]_fleetVars,
                    NEW m \in DOMAIN fleet \cap DOMAIN fleet',
                    fleet[m].status # "offline", fleet'[m].status = "offline",
                    LiveConns(fleet[m].id)' # {}
             PROVE  Stale(fleet[m]) \/ fleet'[m].seen = 0
  BY DEF StaysUp
<1>1. ASSUME NEW n, AddAgent(n) \/ RemoveAgent(n) \/ StartWake(n)
      PROVE  FALSE
  <2>1. m \in DOMAIN fleet /\ m \in DOMAIN fleet'
    OBVIOUS
  <2>2. CASE AddAgent(n)
    BY <2>1, <2>2 DEF AddAgent, Registered, WithAgent
  <2>3. CASE RemoveAgent(n)
    BY <2>1, <2>3 DEF RemoveAgent
  <2>4. CASE StartWake(n)
    BY <2>4 DEF StartWake
  <2> QED BY <1>1, <2>2, <2>3, <2>4
<1>2. ASSUME NEW n, NEW s \in {"offline", "busy"}, PutStatus(n, s)
      PROVE  fleet'[m].seen = 0
  <2>1. n \in DOMAIN fleet /\ fleet' = [fleet EXCEPT ![n].status = s, ![n].seen = 0]
    BY <1>2 DEF PutStatus, Registered
  <2>2. s \in FleetStatus
    BY DEF FleetStatus
  <2>3. fleet'[n].seen = 0 /\ \A x \in DOMAIN fleet \ {n} : fleet'[x] = fleet[x]
    BY <2>1, <2>2, OneRowSet
  <2> QED BY <2>3
<1>3. ASSUME NEW n, SeenIdle(n)
      PROVE  FALSE
  BY <1>3, SeenIdleKeeps
<1>4. ASSUME NEW n, FleetConnect(n)
      PROVE  FALSE
  <2>1. CASE n \in DOMAIN fleet
    <3>1. fleet' = [fleet EXCEPT ![n].status = "online"] /\ fleet[n] \in FleetRows
      BY <1>4, <2>1, FleetRowFacts DEF FleetConnect, Registered
    <3>2. fleet'[n] = [fleet[n] EXCEPT !.status = "online"]
          /\ \A x \in DOMAIN fleet \ {n} : fleet'[x] = fleet[x]
      BY <2>1, <3>1
    <3>3. fleet'[n].status = "online"
      BY <3>1, <3>2 DEF FleetRows
    <3> QED BY <3>2, <3>3
  <2>2. CASE n \notin DOMAIN fleet
    BY <1>4, <2>2 DEF FleetConnect, Registered, WithAgent
  <2> QED BY <2>1, <2>2
<1>5. ASSUME NEW c \in conns, FleetDisconnect(c)
      PROVE  FALSE
  <2> DEFINE name == {n \in DOMAIN fleet : fleet[n].id = c.agent}
             ended == [c EXCEPT !.status = "disconnected"]
  <2>1. conns' = (conns \ {c}) \cup {ended}
    BY <1>5 DEF FleetDisconnect
  <2>2. ended.status = "disconnected"
    BY DEF FleetInv, FleetTypeInv, ConnRows
  <2> HIDE DEF ended
  <2>3. LastOne(c) /\ m \in name
    BY <1>5 DEF FleetDisconnect
  <2>4. fleet'[m].id = fleet[m].id
    <3>1. fleet' = [n \in DOMAIN fleet |->
                      IF n \in name THEN [fleet[n] EXCEPT !.status = "offline"] ELSE fleet[n]]
      BY <1>5, <2>3 DEF FleetDisconnect
    <3>2. fleet'[m] = [fleet[m] EXCEPT !.status = "offline"] /\ fleet[m] \in FleetRows
      BY <2>3, <3>1, FleetRowFacts
    <3> QED BY <3>2 DEF FleetRows
  <2>5. fleet[m].id = c.agent
    BY <2>3
  <2>6. \A x \in conns : x.agent = c.agent /\ x.status = "connected" => x = c
    BY <2>3 DEF LastOne, LiveConns
  <2>7. LiveConns(fleet[m].id)' = {}
    BY <2>1, <2>2, <2>4, <2>5, <2>6 DEF LiveConns
  <2> QED BY <2>7
<1>6. ASSUME TimePasses
      PROVE  FALSE
  <2>1. fleet'[m] = [fleet[m] EXCEPT !.seen = Older(fleet[m].seen)] /\ fleet[m] \in FleetRows
    BY <1>6, FleetRowFacts DEF TimePasses
  <2>2. fleet'[m].status = fleet[m].status
    BY <2>1 DEF FleetRows
  <2> QED BY <2>2
<1>7. ASSUME HeartbeatCheck
      PROVE  Stale(fleet[m])
  BY <1>7 DEF HeartbeatCheck
<1>8. CASE UNCHANGED fleetVars
  BY <1>8 DEF fleetVars
<1>9. ASSUME NEW n, NEW ok \in BOOLEAN, WakeEnds(n, ok)
      PROVE  FALSE
  BY <1>3, <1>9 DEF WakeEnds
<1>10. ASSUME NEW n, NEW cid, AgentHeartbeat(n, cid)
      PROVE  FALSE
  BY <1>3, <1>10 DEF AgentHeartbeat
<1> QED BY <1>1, <1>2, <1>4, <1>5, <1>6, <1>7, <1>8, <1>9, <1>10 DEF FleetNext

\* A set in which any two are one has at most one element.
LEMMA AtMostOne ==
    ASSUME NEW S, \A x, y \in S : x = y
    PROVE  IsFiniteSet(S) /\ Cardinality(S) <= 1
<1>1. CASE S = {}
  BY <1>1, FS_EmptySet
<1>2. CASE S # {}
  <2>1. PICK x \in S : TRUE
    BY <1>2
  <2>2. S = {x}
    BY <2>1
  <2>3. IsFiniteSet(S) /\ Cardinality(S) = 1
    BY <2>2, FS_Singleton
  <2> QED BY <2>3
<1> QED BY <1>1, <1>2

\* An agent has one live connection, every connection an agent, and an agent
\* goes offline by silence, by request or with its last connection only, for
\* any number of agents, connections, wakes and deletions.
THEOREM FleetCorrect == FleetSpec => FleetSafe
<1>1. FleetInv => OneLiveConnection
  <2> SUFFICES ASSUME FleetInv, NEW c \in conns
               PROVE  Cardinality(LiveConns(c.agent)) <= 1
    BY DEF OneLiveConnection
  <2>1. \A x, y \in LiveConns(c.agent) : x = y
    BY DEF FleetInv, LiveInv, LiveConns
  <2> QED BY <2>1, AtMostOne
<1>2. FleetInv => OneLiveConnection /\ ConnectionHasAgent /\ HeardIsNotOffline
  BY <1>1 DEF FleetInv
<1>3. FleetInv /\ [FleetNext]_fleetVars => [StaysUp]_fleetVars
  BY FleetStaysUp
<1>4. FleetSpec => [](OneLiveConnection /\ ConnectionHasAgent /\ HeardIsNotOffline)
  BY <1>2, FleetInvHolds, PTL
<1>5. FleetSpec => ConnectedStaysUp
  <2>1. FleetSpec => [][StaysUp]_fleetVars
    BY <1>3, FleetInvHolds, PTL DEF FleetSpec
  <2> QED BY <2>1, PTL DEF ConnectedStaysUp, StaysUp
<1> QED BY <1>4, <1>5, PTL DEF FleetSafe

(***************************************************************************)
(* Agents' answers.                                                        *)
(***************************************************************************)
AgentOrNone == AgentNameSet \cup {"none", FallbackAgent}
ReplyWords == {"none", "error", "could_not_read", "redirect", "answer", "limit"}
TalkRows == [from : {"user", "agent"}, job : Nat]
MemUsers == ({"conversation"} \X Conversations) \cup ({"contact"} \X {"ann", "bob"})
MemoryRows == [agent : AgentOrNone, user : MemUsers, job : Nat]

\* The stages in which the question of a job is in its conversation, and those
\* in which the answer may be.
Ended == {"send", "answered", "unheard"}
Stored == {"recall", "model"} \cup Ended
Stages == {"ignored", "fetch", "route", "claud", "gem", "routing", "load", "agent"} \cup Stored

\* A job stores its question before it recalls, and does not return to its
\* model once that has answered.
Forward(old, new) ==
    /\ old \in Stored => new \in Stored
    /\ old \in Ended => new \in Ended
    /\ new \in {"recall", "model"} => old \in {"recall", "model"}

JobRows ==
    [msg : Incoming, conv : Conversations, agent : AgentOrNone, reply : ReplyWords,
     history : Seq(TalkRows), recalled : SUBSET MemoryRows, turn : Nat, stage : Stages]

ReplyTypeInv ==
    /\ jobs \in Seq(JobRows) /\ Len(jobs) <= MaxJobs
    /\ talk \in [Conversations -> Seq(TalkRows)]
    /\ memories \subseteq MemoryRows /\ toMemorize \subseteq MemoryRows

\* A bot that keeps silent has dropped the message at once.
GroupInv ==
    \A j \in JobIds :
        /\ jobs[j].msg.via = "telegram" /\ jobs[j].msg.group /\ jobs[j].stage # "ignored"
        => jobs[j].msg.bot \in jobs[j].msg.named

\* The rows of a conversation are of its own jobs, and say how far those got;
\* a job whose model is at work has its question there.
TalkInv ==
    /\ \A c \in Conversations : \A i \in DOMAIN talk[c] :
         /\ talk[c][i].job \in JobIds
         /\ jobs[talk[c][i].job].conv = c
         /\ jobs[talk[c][i].job].stage \in Stored
         /\ talk[c][i].from = "agent" => jobs[talk[c][i].job].stage \in Ended
    /\ \A j \in JobIds : jobs[j].stage \in {"recall", "model"} =>
         \E k \in DOMAIN talk[jobs[j].conv] : talk[jobs[j].conv][k] = [from |-> "user", job |-> j]

ReplyInv == /\ ReplyTypeInv /\ GroupInv /\ TalkInv
            /\ MemoryStaysWithUser /\ AnswerFollowsQuestion

---------------------------------------------------------------------------
\* A job is a row of its message's conversation.
LEMMA JobFacts ==
    ASSUME ReplyInv, NEW j \in JobIds
    PROVE  /\ jobs[j] \in JobRows /\ jobs[j].conv \in Conversations
           /\ MemUser(j) \in MemUsers /\ j \in Nat /\ j \in DOMAIN jobs
<1>1. jobs[j] \in JobRows /\ j \in Nat /\ j \in DOMAIN jobs
  BY DEF ReplyInv, ReplyTypeInv, JobIds
<1>2. jobs[j].conv \in Conversations /\ jobs[j].msg \in Incoming
  BY <1>1 DEF JobRows
<1>3. jobs[j].msg.contact \in {"ann", "bob", "none"}
  BY <1>2, AgentRepliesAssumption DEF IncomingSet
<1>4. MemUser(j) \in MemUsers
  BY <1>2, <1>3 DEF MemUser, MemUsers
<1> QED BY <1>1, <1>2, <1>4

\* A step of one job that goes forward and writes no message leaves what is
\* stored in order.
LEMMA JobKeeps ==
    ASSUME ReplyInv, NEW j \in JobIds, NEW row \in JobRows,
           jobs' = [jobs EXCEPT ![j] = row],
           row.msg = jobs[j].msg, row.conv = jobs[j].conv,
           jobs[j].stage # "ignored", Forward(jobs[j].stage, row.stage),
           \A m \in row.recalled : m.user = MemUser(j),
           talk' = talk, memories' \subseteq MemoryRows, toMemorize' \subseteq MemoryRows
    PROVE  ReplyInv'
<1>1. /\ jobs \in Seq(JobRows) /\ j \in DOMAIN jobs /\ JobIds = DOMAIN jobs
      /\ Len(jobs) <= MaxJobs
  BY DEF ReplyInv, ReplyTypeInv, JobIds
<1>2. /\ jobs' \in Seq(JobRows) /\ Len(jobs') = Len(jobs) /\ jobs'[j] = row
      /\ \A x \in DOMAIN jobs \ {j} : jobs'[x] = jobs[x]
  BY <1>1
<1>3. JobIds' = JobIds /\ \A x \in JobIds : jobs'[x].msg = jobs[x].msg /\ jobs'[x].conv = jobs[x].conv
  BY <1>1, <1>2 DEF JobIds
<1>4. ReplyTypeInv'
  BY <1>1, <1>2 DEF ReplyInv, ReplyTypeInv
<1>5. GroupInv'
  BY <1>1, <1>2, <1>3 DEF ReplyInv, GroupInv
<1>6. TalkInv'
  <2>1. \A x \in JobIds : /\ jobs[x].stage \in Stored => jobs'[x].stage \in Stored
                          /\ jobs[x].stage \in Ended => jobs'[x].stage \in Ended
                          /\ jobs'[x].stage \in {"recall", "model"} => jobs[x].stage \in {"recall", "model"}
    BY <1>1, <1>2 DEF Forward
  <2> QED BY <1>3, <2>1 DEF ReplyInv, TalkInv
<1>7. MemoryStaysWithUser'
  <2>1. \A x \in JobIds : MemUser(x)' = MemUser(x)
    BY <1>3 DEF MemUser
  <2> QED BY <1>1, <1>2, <1>3, <2>1 DEF ReplyInv, MemoryStaysWithUser
<1>8. AnswerFollowsQuestion'
  BY DEF ReplyInv, AnswerFollowsQuestion
<1> QED BY <1>4, <1>5, <1>6, <1>7, <1>8 DEF ReplyInv

\* A job that only changes its stage, reply, agent or turn.
LEMMA StageSet ==
    ASSUME ReplyInv, NEW j \in JobIds, NEW s \in Stages, NEW a \in AgentOrNone,
           NEW w \in ReplyWords, NEW t \in Nat,
           jobs[j].stage # "ignored", Forward(jobs[j].stage, s),
           jobs' = [jobs EXCEPT ![j] = [jobs[j] EXCEPT !.stage = s, !.agent = a, !.reply = w, !.turn = t]],
           talk' = talk, memories' = memories, toMemorize' = toMemorize
    PROVE  ReplyInv'
<1> DEFINE row == [jobs[j] EXCEPT !.stage = s, !.agent = a, !.reply = w, !.turn = t]
<1>1. jobs[j] \in JobRows
  BY JobFacts
<1>2. /\ row \in JobRows /\ row.msg = jobs[j].msg /\ row.conv = jobs[j].conv
      /\ row.recalled = jobs[j].recalled /\ row.stage = s
  BY <1>1 DEF JobRows
<1> HIDE DEF row
<1>3. \A m \in row.recalled : m.user = MemUser(j)
  BY <1>2 DEF ReplyInv, MemoryStaysWithUser
<1>4. jobs' = [jobs EXCEPT ![j] = row]
  BY DEF row
<1>5. memories' \subseteq MemoryRows /\ toMemorize' \subseteq MemoryRows
  BY DEF ReplyInv, ReplyTypeInv
<1> QED BY <1>2, <1>3, <1>4, <1>5, JobKeeps

\* The ways in which the steps change their job, in the one form above.
LEMMA JobUpdates ==
    ASSUME ReplyInv, NEW j \in JobIds, NEW s, NEW w
    PROVE  LET Set(x, y, z, t) ==
                 [jobs EXCEPT ![j] = [jobs[j] EXCEPT !.stage = x, !.agent = y, !.reply = z, !.turn = t]]
               r == jobs[j]
           IN /\ ToStage(j, s) => jobs' = Set(s, r.agent, r.reply, r.turn)
              /\ SetReply(j, w) => jobs' = Set("send", r.agent, w, r.turn)
              /\ [jobs EXCEPT ![j].turn = @ + 1] = Set(r.stage, r.agent, r.reply, r.turn + 1)
              /\ r.agent \in AgentOrNone /\ r.reply \in ReplyWords /\ r.turn \in Nat /\ r.turn + 1 \in Nat
<1> DEFINE r == jobs[j]
<1>1. r \in JobRows /\ j \in DOMAIN jobs /\ jobs \in Seq(JobRows)
  BY JobFacts DEF ReplyInv, ReplyTypeInv
<1>2. r.agent \in AgentOrNone /\ r.reply \in ReplyWords /\ r.turn \in Nat /\ r.turn + 1 \in Nat
  BY <1>1 DEF JobRows
<1>3. /\ [r EXCEPT !.stage = s] = [r EXCEPT !.stage = s, !.agent = r.agent, !.reply = r.reply, !.turn = r.turn]
      /\ [r EXCEPT !.stage = "send", !.reply = w]
           = [r EXCEPT !.stage = "send", !.agent = r.agent, !.reply = w, !.turn = r.turn]
  BY <1>1 DEF JobRows
<1>4. [r EXCEPT !.turn = r.turn + 1]
           = [r EXCEPT !.stage = r.stage, !.agent = r.agent, !.reply = r.reply, !.turn = r.turn + 1]
  BY <1>1 DEF JobRows
<1>5. /\ [jobs EXCEPT ![j].stage = s] = [jobs EXCEPT ![j] = [r EXCEPT !.stage = s]]
      /\ [jobs EXCEPT ![j].stage = "send", ![j].reply = w]
           = [jobs EXCEPT ![j] = [r EXCEPT !.stage = "send", !.reply = w]]
      /\ [jobs EXCEPT ![j].turn = @ + 1] = [jobs EXCEPT ![j] = [r EXCEPT !.turn = r.turn + 1]]
  BY <1>1
<1> QED BY <1>2, <1>3, <1>4, <1>5 DEF ToStage, SetReply

\* The steps that only move their job on.
LEMMA MovesOn ==
    ASSUME ReplyInv, NEW j \in JobIds, jobs[j].stage # "ignored",
           talk' = talk, memories' = memories, toMemorize' = toMemorize,
           \/ \E s \in Stages : ToStage(j, s) /\ Forward(jobs[j].stage, s)
           \/ \E w \in ReplyWords : SetReply(j, w)
           \/ \E s \in Stages \ Stored, a \in AgentOrNone :
                 /\ jobs' = [jobs EXCEPT ![j].stage = s, ![j].agent = a]
                 /\ jobs[j].stage \notin Stored
           \/ jobs' = [jobs EXCEPT ![j].turn = @ + 1]
    PROVE  ReplyInv'
<1> DEFINE r == jobs[j]
           Set(x, y, z, t) ==
             [jobs EXCEPT ![j] = [jobs[j] EXCEPT !.stage = x, !.agent = y, !.reply = z, !.turn = t]]
<1>1. r.agent \in AgentOrNone /\ r.reply \in ReplyWords /\ r.turn \in Nat /\ r.turn + 1 \in Nat
  BY JobUpdates
<1>2. r.stage \in Stages
  BY JobFacts DEF JobRows
<1>3. Forward(r.stage, "send") /\ "send" \in Stages /\ Forward(r.stage, r.stage)
  BY DEF Forward, Stored, Ended, Stages
<1>4. ASSUME NEW s \in Stages, ToStage(j, s), Forward(r.stage, s)
      PROVE  ReplyInv'
  <2>1. jobs' = Set(s, r.agent, r.reply, r.turn)
    BY <1>4, JobUpdates
  <2> QED BY <1>1, <1>4, <2>1, StageSet
<1>5. ASSUME NEW w \in ReplyWords, SetReply(j, w)
      PROVE  ReplyInv'
  <2>1. jobs' = Set("send", r.agent, w, r.turn)
    BY <1>5, JobUpdates
  <2> QED BY <1>1, <1>3, <2>1, StageSet
<1>6. ASSUME NEW s \in Stages \ Stored, NEW a \in AgentOrNone,
             jobs' = [jobs EXCEPT ![j].stage = s, ![j].agent = a],
             jobs[j].stage \notin Stored
      PROVE  ReplyInv'
  <2>1. jobs' = Set(s, a, r.reply, r.turn)
    <3>1. r \in JobRows /\ j \in DOMAIN jobs /\ jobs \in Seq(JobRows)
      BY JobFacts DEF ReplyInv, ReplyTypeInv
    <3>2. [r EXCEPT !.stage = s, !.agent = a]
             = [r EXCEPT !.stage = s, !.agent = a, !.reply = r.reply, !.turn = r.turn]
      BY <3>1 DEF JobRows
    <3>3. jobs' = [jobs EXCEPT ![j] = [r EXCEPT !.stage = s, !.agent = a]]
      BY <1>6, <3>1
    <3> QED BY <3>2, <3>3
  <2>2. Forward(r.stage, s)
    BY <1>6 DEF Forward, Stored, Ended
  <2> QED BY <1>1, <2>1, <2>2, StageSet
<1>7. ASSUME jobs' = [jobs EXCEPT ![j].turn = @ + 1]
      PROVE  ReplyInv'
  <2>1. jobs' = Set(r.stage, r.agent, r.reply, r.turn + 1)
    BY <1>7, JobUpdates
  <2> QED BY <1>1, <1>2, <1>3, <2>1, StageSet
<1> QED BY <1>4, <1>5, <1>6, <1>7

\* Taking up media, routing, the tool loop and the bots without a memory.
LEMMA RoutingInv ==
    ASSUME ReplyInv, NEW j \in JobIds,
           \/ FetchMedia(j) \/ Route(j) \/ ClaudTurn(j) \/ CallGem(j)
           \/ RouteMessage(j) \/ LoadAgent(j)
    PROVE  ReplyInv'
<1>1. talk' = talk /\ memories' = memories /\ toMemorize' = toMemorize
  BY DEF FetchMedia, Route, ClaudTurn, CallGem, RouteMessage, LoadAgent
<1>2. \A n \in {"fetch", "route", "claud", "gem", "routing", "load", "agent"} :
         n \in Stages \ Stored /\ n # "ignored" /\ \A x \in Stages \ Stored : Forward(x, n)
  BY DEF Stages, Stored, Ended, Forward
<1>3. \A n : GetAgentByName(n) \in AgentOrNone
  BY DEF GetAgentByName, AgentOrNone
<1>4. {"error", "could_not_read", "redirect", "answer", "limit"} \subseteq ReplyWords
      /\ FallbackAgent \in AgentOrNone /\ AgentNameSet \subseteq AgentOrNone
  BY DEF ReplyWords, AgentOrNone
<1>5. CASE FetchMedia(j)
  <2>1. jobs[j].stage = "fetch" /\ (ToStage(j, "route") \/ SetReply(j, "could_not_read"))
    BY <1>5 DEF FetchMedia, Active
  <2> QED BY <1>1, <1>2, <1>4, <2>1, MovesOn
<1>6. CASE Route(j)
  <2>1. jobs[j].stage = "route"
    BY <1>6 DEF Route, Active
  <2>2. \/ ToStage(j, "claud") \/ ToStage(j, "gem")
        \/ SetReply(j, "redirect") \/ SetReply(j, "error")
        \/ \E a \in AgentOrNone : jobs' = [jobs EXCEPT ![j].stage = "agent", ![j].agent = a]
    BY <1>3, <1>6 DEF Route, Apologises
  <2> QED BY <1>1, <1>2, <1>4, <2>1, <2>2, MovesOn
<1>7. CASE ClaudTurn(j)
  <2>1. jobs[j].stage = "claud"
    BY <1>7 DEF ClaudTurn, Active
  <2>2. \/ SetReply(j, "answer") \/ SetReply(j, "limit") \/ SetReply(j, "error")
        \/ jobs' = [jobs EXCEPT ![j].turn = @ + 1]
    BY <1>7 DEF ClaudTurn, Apologises, SetReply
  <2> QED BY <1>1, <1>2, <1>4, <2>1, <2>2, MovesOn
<1>8. CASE CallGem(j)
  <2>1. jobs[j].stage = "gem" /\ (SetReply(j, "answer") \/ SetReply(j, "error"))
    BY <1>8 DEF CallGem, Active, Apologises
  <2> QED BY <1>1, <1>2, <1>4, <2>1, MovesOn
<1>9. CASE RouteMessage(j)
  <2>1. jobs[j].stage = "routing"
    BY <1>9 DEF RouteMessage, Active
  <2>2. \E a \in AgentOrNone : jobs' = [jobs EXCEPT ![j].stage = "load", ![j].agent = a]
    BY <1>4, <1>9 DEF RouteMessage
  <2> QED BY <1>1, <1>2, <2>1, <2>2, MovesOn
<1>10. CASE LoadAgent(j)
  <2>1. jobs[j].stage = "load"
    BY <1>10 DEF LoadAgent, Active
  <2>2. \/ SetReply(j, "error")
        \/ \E a \in AgentOrNone : jobs' = [jobs EXCEPT ![j].stage = "agent", ![j].agent = a]
    BY <1>3, <1>10 DEF LoadAgent, Apologises
  <2> QED BY <1>1, <1>2, <1>4, <2>1, <2>2, MovesOn
<1> QED BY <1>5, <1>6, <1>7, <1>8, <1>9, <1>10

---------------------------------------------------------------------------
\* A message that comes in has nothing stored, recalled or answered yet.
LEMMA NewJobInv ==
    ASSUME ReplyInv, NEW row \in JobRows, jobs' = Append(jobs, row), Len(jobs) < MaxJobs,
           row.stage \notin Stored, row.recalled = {},
           /\ row.msg.via = "telegram" /\ row.msg.group /\ row.stage # "ignored"
           => row.msg.bot \in row.msg.named,
           talk' = talk, memories' = memories, toMemorize' = toMemorize
    PROVE  ReplyInv'
<1>1. /\ jobs \in Seq(JobRows) /\ Len(jobs) \in Nat /\ MaxJobs \in Nat
      /\ JobIds = 1..Len(jobs)
  BY AgentRepliesAssumption DEF ReplyInv, ReplyTypeInv, JobIds
<1>2. /\ jobs' \in Seq(JobRows) /\ Len(jobs') = Len(jobs) + 1 /\ jobs'[Len(jobs) + 1] = row
      /\ \A x \in JobIds : jobs'[x] = jobs[x]
  BY <1>1
<1> DEFINE new == Len(jobs) + 1
<1>3. /\ JobIds' = JobIds \cup {new} /\ new \notin JobIds /\ Len(jobs') <= MaxJobs
  BY <1>1, <1>2 DEF JobIds
<1> HIDE DEF new
<1>4. jobs'[new] = row
  BY <1>2 DEF new
<1>5. ReplyTypeInv'
  BY <1>2, <1>3 DEF ReplyInv, ReplyTypeInv
<1>6. GroupInv'
  <2> SUFFICES ASSUME NEW x \in JobIds', jobs'[x].msg.via = "telegram",
                      jobs'[x].msg.group, jobs'[x].stage # "ignored"
               PROVE  jobs'[x].msg.bot \in jobs'[x].msg.named
    BY DEF GroupInv
  <2>1. CASE x = new
    BY <1>4, <2>1
  <2>2. CASE x \in JobIds
    <3>1. jobs'[x] = jobs[x]
      BY <1>2, <2>2
    <3> QED BY <2>2, <3>1 DEF ReplyInv, GroupInv
  <2> QED BY <1>3, <2>1, <2>2
<1>7. TalkInv'
  <2>1. row.stage \notin {"recall", "model"}
    BY DEF Stored
  <2>2. \A x \in JobIds' : jobs'[x].stage \in {"recall", "model"} =>
           \E k \in DOMAIN talk[jobs'[x].conv] :
              talk[jobs'[x].conv][k] = [from |-> "user", job |-> x]
    <3> SUFFICES ASSUME NEW x \in JobIds', jobs'[x].stage \in {"recall", "model"}
                 PROVE  \E k \in DOMAIN talk[jobs'[x].conv] :
                           talk[jobs'[x].conv][k] = [from |-> "user", job |-> x]
      OBVIOUS
    <3>1. x \in JobIds /\ jobs'[x] = jobs[x]
      BY <1>2, <1>3, <1>4, <2>1
    <3> QED BY <3>1 DEF ReplyInv, TalkInv
  <2>3. \A c \in Conversations : \A i \in DOMAIN talk[c] :
           /\ talk[c][i].job \in JobIds'
           /\ jobs'[talk[c][i].job].conv = c
           /\ jobs'[talk[c][i].job].stage \in Stored
           /\ talk[c][i].from = "agent" => jobs'[talk[c][i].job].stage \in Ended
    <3>1. \A c \in Conversations : \A i \in DOMAIN talk[c] :
             /\ talk[c][i].job \in JobIds
             /\ jobs[talk[c][i].job].conv = c
             /\ jobs[talk[c][i].job].stage \in Stored
             /\ talk[c][i].from = "agent" => jobs[talk[c][i].job].stage \in Ended
      BY DEF ReplyInv, TalkInv
    <3> SUFFICES ASSUME NEW c \in Conversations, NEW i \in DOMAIN talk[c]
                 PROVE  /\ talk[c][i].job \in JobIds'
                        /\ jobs'[talk[c][i].job].conv = c
                        /\ jobs'[talk[c][i].job].stage \in Stored
                        /\ talk[c][i].from = "agent" => jobs'[talk[c][i].job].stage \in Ended
      OBVIOUS
    <3>2. jobs'[talk[c][i].job] = jobs[talk[c][i].job]
      BY <1>2, <3>1
    <3> QED BY <1>3, <3>1, <3>2
  <2> QED BY <2>2, <2>3 DEF TalkInv
<1>8. MemoryStaysWithUser'
  <2>1. \A x \in JobIds : MemUser(x)' = MemUser(x)
    BY <1>2 DEF MemUser
  <2> QED BY <1>2, <1>3, <1>4, <2>1 DEF ReplyInv, MemoryStaysWithUser
<1>9. AnswerFollowsQuestion'
  BY DEF ReplyInv, AnswerFollowsQuestion
<1> QED BY <1>5, <1>6, <1>7, <1>8, <1>9 DEF ReplyInv

\* The webhook drops what is not for its bot before anything else; the War
\* Room takes every message.
LEMMA IncomingInv ==
    ASSUME ReplyInv, NEW m \in Incoming, Webhook(m) \/ RoomRequest(m)
    PROVE  ReplyInv'
<1>1. talk' = talk /\ memories' = memories /\ toMemorize' = toMemorize /\ Len(jobs) < MaxJobs
  BY DEF Webhook, RoomRequest
<1>2. ConversationOf(m) \in Conversations
  <2>1. Len(jobs) \in Nat /\ MaxJobs \in Nat
    BY AgentRepliesAssumption DEF ReplyInv, ReplyTypeInv
  <2> QED BY <1>1, <2>1 DEF ConversationOf, Conversations, KnownConversation, NewConversation
<1>3. /\ {"ignored", "fetch", "route", "routing", "load"} \subseteq Stages
      /\ {"ignored", "fetch", "route", "routing", "load"} \cap Stored = {}
      /\ "none" \in ReplyWords /\ "none" \in AgentOrNone /\ AgentNameSet \subseteq AgentOrNone
  BY DEF Stages, Stored, Ended, ReplyWords, AgentOrNone
<1>4. <<>> \in Seq(TalkRows) /\ {} \in SUBSET MemoryRows /\ 0 \in Nat
  OBVIOUS
<1>5. ASSUME NEW a \in AgentOrNone, NEW s \in Stages
      PROVE  LET row == [msg |-> m, conv |-> ConversationOf(m), agent |-> a, reply |-> "none",
                         history |-> <<>>, recalled |-> {}, turn |-> 0, stage |-> s]
             IN row \in JobRows /\ row.stage = s /\ row.recalled = {} /\ row.msg = m
  BY <1>2, <1>3, <1>4 DEF JobRows
<1>6. CASE Webhook(m)
  <2> DEFINE silent == (m.group /\ ~IsBotAddressed(m)) \/ m.media = "other"
             direct == m.media = "text" \/ (m.media = "video" /\ m.bot # "GEM")
             s == IF silent THEN "ignored" ELSE IF direct THEN "route" ELSE "fetch"
             row == [msg |-> m, conv |-> ConversationOf(m), agent |-> "none", reply |-> "none",
                     history |-> <<>>, recalled |-> {}, turn |-> 0, stage |-> s]
  <2>1. jobs' = Append(jobs, row)
    BY <1>6 DEF Webhook
  <2>2. /\ s \in Stages /\ s \notin Stored
        /\ m.group /\ s # "ignored" => m.bot \in m.named
    BY <1>3 DEF IsBotAddressed
  <2> HIDE DEF s
  <2>3. row \in JobRows /\ row.stage = s /\ row.recalled = {} /\ row.msg = m
    BY <1>3, <1>5, <2>2
  <2> HIDE DEF row
  <2> QED BY <1>1, <2>1, <2>2, <2>3, NewJobInv
<1>7. CASE RoomRequest(m)
  <2> DEFINE s == IF m.override = "none" THEN "routing" ELSE "load"
             row == [msg |-> m, conv |-> ConversationOf(m), agent |-> m.override, reply |-> "none",
                     history |-> <<>>, recalled |-> {}, turn |-> 0, stage |-> s]
  <2>1. jobs' = Append(jobs, row) /\ m.via = "room"
    BY <1>7 DEF RoomRequest
  <2>2. s \in Stages /\ s \notin Stored
    BY <1>3
  <2> HIDE DEF s
  <2>3. m.override \in AgentOrNone
    <3>1. m \in IncomingSet
      BY AgentRepliesAssumption
    <3>2. m.override \in AgentNameSet \cup {"none"}
      BY <2>1, <3>1 DEF IncomingSet
    <3> QED BY <3>2 DEF AgentOrNone
  <2>4. row \in JobRows /\ row.stage = s /\ row.recalled = {} /\ row.msg = m
    BY <1>5, <2>2, <2>3
  <2> HIDE DEF row
  <2> QED BY <1>1, <2>1, <2>2, <2>4, NewJobInv
<1> QED BY <1>6, <1>7

---------------------------------------------------------------------------
\* processMessageWithAgent writes a row: the question of a job that has none,
\* or the answer of a job whose question is there and whose model was at work.
LEMMA TalkGrows ==
    ASSUME ReplyInv, NEW j \in JobIds, NEW row \in JobRows, NEW x \in TalkRows,
           jobs' = [jobs EXCEPT ![j] = row],
           row.msg = jobs[j].msg, row.conv = jobs[j].conv,
           \A m \in row.recalled : m.user = MemUser(j),
           x.job = j,
           \/ jobs[j].stage = "agent" /\ row.stage = "recall" /\ x.from = "user"
           \/ jobs[j].stage = "model" /\ row.stage = "send" /\ x.from = "agent",
           talk' = [talk EXCEPT ![jobs[j].conv] = Append(talk[jobs[j].conv], x)],
           memories' \subseteq MemoryRows, toMemorize' \subseteq MemoryRows
    PROVE  ReplyInv'
<1> DEFINE c0 == jobs[j].conv
           n == Len(talk[c0])
<1>1. /\ jobs \in Seq(JobRows) /\ j \in DOMAIN jobs /\ JobIds = DOMAIN jobs
      /\ Len(jobs) <= MaxJobs
  BY DEF ReplyInv, ReplyTypeInv, JobIds
<1>2. /\ jobs' \in Seq(JobRows) /\ Len(jobs') = Len(jobs) /\ jobs'[j] = row
      /\ \A y \in DOMAIN jobs \ {j} : jobs'[y] = jobs[y]
  BY <1>1
<1>3. JobIds' = JobIds /\ \A y \in JobIds : jobs'[y].msg = jobs[y].msg /\ jobs'[y].conv = jobs[y].conv
  BY <1>1, <1>2 DEF JobIds
<1>4. c0 \in Conversations /\ talk \in [Conversations -> Seq(TalkRows)] /\ talk[c0] \in Seq(TalkRows)
  BY JobFacts DEF ReplyInv, ReplyTypeInv
<1>5. /\ Append(talk[c0], x) \in Seq(TalkRows) /\ Len(Append(talk[c0], x)) = n + 1
      /\ Append(talk[c0], x)[n + 1] = x /\ n \in Nat
      /\ \A i \in 1..n : Append(talk[c0], x)[i] = talk[c0][i]
  BY <1>4
<1>6. /\ talk' \in [Conversations -> Seq(TalkRows)] /\ talk'[c0] = Append(talk[c0], x)
      /\ \A c \in Conversations \ {c0} : talk'[c] = talk[c]
  BY <1>4, <1>5
<1>7. /\ DOMAIN talk[c0] = 1..n /\ DOMAIN talk'[c0] = 1..(n + 1)
      /\ talk'[c0][n + 1] = x /\ \A i \in 1..n : talk'[c0][i] = talk[c0][i]
  BY <1>4, <1>5, <1>6
<1> HIDE DEF c0, n
<1>8. ReplyTypeInv'
  BY <1>1, <1>2, <1>6 DEF ReplyInv, ReplyTypeInv
<1>9. GroupInv'
  <2>1. jobs[j].stage # "ignored"
    OBVIOUS
  <2> QED BY <1>1, <1>2, <1>3, <2>1 DEF ReplyInv, GroupInv
<1>10. MemoryStaysWithUser'
  <2>1. \A y \in JobIds : MemUser(y)' = MemUser(y)
    BY <1>3 DEF MemUser
  <2> QED BY <1>1, <1>2, <1>3, <2>1 DEF ReplyInv, MemoryStaysWithUser
<1>11. \A c \in Conversations : \A i \in DOMAIN talk'[c] :
          (c = c0 /\ i = n + 1 /\ talk'[c][i] = x)
            \/ (i \in DOMAIN talk[c] /\ talk'[c][i] = talk[c][i])
  <2>1. \A i \in 1..(n + 1) : i = n + 1 \/ i \in 1..n
    BY <1>5
  <2> SUFFICES ASSUME NEW c \in Conversations, NEW i \in DOMAIN talk'[c]
               PROVE  (c = c0 /\ i = n + 1 /\ talk'[c][i] = x)
                        \/ (i \in DOMAIN talk[c] /\ talk'[c][i] = talk[c][i])
    OBVIOUS
  <2>2. CASE c = c0
    BY <1>7, <2>1, <2>2
  <2>3. CASE c # c0
    BY <1>6, <2>3
  <2> QED BY <2>2, <2>3
<1>12. \A y \in JobIds : /\ jobs[y].stage \in Stored => jobs'[y].stage \in Stored
                         /\ jobs[y].stage \in Ended => jobs'[y].stage \in Ended
  BY <1>1, <1>2 DEF Stored, Ended
<1>13. TalkInv'
  <2>1. \A c \in Conversations : \A i \in DOMAIN talk'[c] :
           /\ talk'[c][i].job \in JobIds'
           /\ jobs'[talk'[c][i].job].conv = c
           /\ jobs'[talk'[c][i].job].stage \in Stored
           /\ talk'[c][i].from = "agent" => jobs'[talk'[c][i].job].stage \in Ended
    <3> SUFFICES ASSUME NEW c \in Conversations, NEW i \in DOMAIN talk'[c]
                 PROVE  /\ talk'[c][i].job \in JobIds'
                        /\ jobs'[talk'[c][i].job].conv = c
                        /\ jobs'[talk'[c][i].job].stage \in Stored
                        /\ talk'[c][i].from = "agent" => jobs'[talk'[c][i].job].stage \in Ended
      OBVIOUS
    <3>1. CASE c = c0 /\ i = n + 1 /\ talk'[c][i] = x
      <4>1. row.stage \in Stored /\ (x.from = "agent" => row.stage \in Ended) /\ row.conv = c0
        BY DEF Stored, Ended, c0
      <4> QED BY <1>2, <1>3, <3>1, <4>1
    <3>2. CASE i \in DOMAIN talk[c] /\ talk'[c][i] = talk[c][i]
      <4>1. /\ talk[c][i].job \in JobIds
            /\ jobs[talk[c][i].job].conv = c
            /\ jobs[talk[c][i].job].stage \in Stored
            /\ talk[c][i].from = "agent" => jobs[talk[c][i].job].stage \in Ended
        BY <3>2 DEF ReplyInv, TalkInv
      <4>2. talk[c][i].job = j => jobs'[talk[c][i].job].conv = c
        BY <1>2, <4>1
      <4>3. talk[c][i].job # j => jobs'[talk[c][i].job].conv = c
        BY <1>3, <4>1
      <4>4. /\ talk[c][i].job \in JobIds' /\ jobs'[talk[c][i].job].stage \in Stored
            /\ talk[c][i].from = "agent" => jobs'[talk[c][i].job].stage \in Ended
        BY <1>3, <1>12, <4>1
      <4> QED BY <3>2, <4>2, <4>3, <4>4
    <3> QED BY <1>11, <3>1, <3>2
  <2>2. ASSUME NEW y \in JobIds, jobs'[y].stage \in {"recall", "model"}
        PROVE  \E k \in DOMAIN talk'[jobs'[y].conv] :
                  talk'[jobs'[y].conv][k] = [from |-> "user", job |-> y]
    <3>1. CASE y = j
      <4>1. x.from = "user" /\ jobs'[y].conv = c0
        BY <1>2, <2>2, <3>1 DEF c0
      <4>2. x = [from |-> "user", job |-> y]
        BY <3>1, <4>1 DEF TalkRows
      <4>3. n + 1 \in DOMAIN talk'[c0]
        BY <1>5, <1>7 DEF n
      <4> QED BY <1>7, <4>1, <4>2, <4>3
    <3>2. CASE y # j
      <4>1. jobs'[y] = jobs[y] /\ jobs[y].conv \in Conversations
        BY <1>1, <1>2, <3>2, JobFacts
      <4>2. PICK k \in DOMAIN talk[jobs[y].conv] : talk[jobs[y].conv][k] = [from |-> "user", job |-> y]
        BY <2>2, <4>1 DEF ReplyInv, TalkInv
      <4>3. k \in DOMAIN talk'[jobs[y].conv] /\ talk'[jobs[y].conv][k] = talk[jobs[y].conv][k]
        <5>1. CASE jobs[y].conv = c0
          <6>1. \A i \in 1..n : i \in 1..(n + 1)
            BY <1>5 DEF n
          <6> QED BY <1>7, <4>2, <5>1, <6>1
        <5>2. CASE jobs[y].conv # c0
          BY <1>6, <4>1, <4>2, <5>2
        <5> QED BY <5>1, <5>2
      <4> QED BY <4>1, <4>2, <4>3
    <3> QED BY <3>1, <3>2
  <2>3. \A y \in JobIds' : jobs'[y].stage \in {"recall", "model"} =>
           \E k \in DOMAIN talk'[jobs'[y].conv] :
              talk'[jobs'[y].conv][k] = [from |-> "user", job |-> y]
    BY <1>3, <2>2
  <2> QED BY <2>1, <2>3 DEF TalkInv
<1>14. AnswerFollowsQuestion'
  <2> SUFFICES ASSUME NEW c \in Conversations, NEW i \in DOMAIN talk'[c], talk'[c][i].from = "agent"
               PROVE  /\ \E k \in 1..(i - 1) : talk'[c][k] = [from |-> "user", job |-> talk'[c][i].job]
                      /\ \A k \in DOMAIN talk'[c] : talk'[c][k] = talk'[c][i] => k = i
    BY DEF AnswerFollowsQuestion
  <2>1. CASE c = c0 /\ i = n + 1 /\ talk'[c][i] = x
    <3>1. jobs[j].stage = "model" /\ x.from = "agent"
      BY <2>1
    <3>2. PICK k \in DOMAIN talk[c0] : talk[c0][k] = [from |-> "user", job |-> j]
      BY <3>1 DEF ReplyInv, TalkInv, c0
    <3>3. k \in 1..(i - 1) /\ talk'[c][k] = [from |-> "user", job |-> talk'[c][i].job]
      <4>1. k \in 1..n /\ 1..(i - 1) = 1..n
        BY <1>5, <1>7, <2>1, <3>2 DEF n
      <4> QED BY <1>7, <2>1, <3>2, <4>1
    <3>4. \A y \in DOMAIN talk[c0] : talk[c0][y] # x
      <4>1. jobs[j].stage \notin Ended
        BY <3>1 DEF Ended
      <4> QED BY <1>4, <3>1, <4>1 DEF ReplyInv, TalkInv
    <3>5. \A y \in DOMAIN talk'[c] : talk'[c][y] = talk'[c][i] => y = i
      BY <1>11, <2>1, <3>4
    <3> QED BY <3>3, <3>5
  <2>2. CASE i \in DOMAIN talk[c] /\ talk'[c][i] = talk[c][i]
    <3>1. talk[c] \in Seq(TalkRows)
      BY <1>4
    <3>2. /\ \E k \in 1..(i - 1) : talk[c][k] = [from |-> "user", job |-> talk[c][i].job]
          /\ \A k \in DOMAIN talk[c] : talk[c][k] = talk[c][i] => k = i
      BY <2>2 DEF ReplyInv, AnswerFollowsQuestion
    <3>3. \A k \in 1..(i - 1) : k \in DOMAIN talk[c]
      BY <2>2, <3>1
    <3>4. \A k \in DOMAIN talk[c] : talk'[c][k] = talk[c][k]
      BY <1>6, <1>7
    <3>5. \E k \in 1..(i - 1) : talk'[c][k] = [from |-> "user", job |-> talk'[c][i].job]
      BY <2>2, <3>2, <3>3, <3>4
    <3>6. ASSUME NEW k \in DOMAIN talk'[c], talk'[c][k] = talk'[c][i]
          PROVE  k = i
      <4>1. CASE c = c0 /\ k = n + 1 /\ talk'[c][k] = x
        <5>1. x = talk[c][i] /\ x.from = "agent"
          BY <2>2, <3>6, <4>1
        <5>2. jobs[j].stage \notin Ended
          BY <5>1 DEF Ended
        <5> QED BY <2>2, <5>1, <5>2 DEF ReplyInv, TalkInv
      <4>2. CASE k \in DOMAIN talk[c] /\ talk'[c][k] = talk[c][k]
        BY <2>2, <3>2, <3>6, <4>2
      <4> QED BY <1>11, <4>1, <4>2
    <3> QED BY <3>5, <3>6
  <2> QED BY <1>11, <2>1, <2>2
<1> QED BY <1>8, <1>9, <1>10, <1>13, <1>14 DEF ReplyInv

\* The question is stored before the first wait.
LEMMA AgentStartsInv ==
    ASSUME ReplyInv, NEW j \in JobIds, AgentStarts(j)
    PROVE  ReplyInv'
<1> DEFINE c == jobs[j].conv
           h == HistoryOf(c)
           x == [from |-> "user", job |-> j]
           row == [jobs[j] EXCEPT !.stage = "recall", !.history = h]
<1>1. /\ jobs[j].stage = "agent" /\ memories' = memories /\ toMemorize' = toMemorize
      /\ jobs' = [jobs EXCEPT ![j].stage = "recall", ![j].history = h]
      /\ talk' = [talk EXCEPT ![c] = Append(talk[c], x)]
  BY DEF AgentStarts, Active, Asked
<1>2. jobs[j] \in JobRows /\ c \in Conversations /\ j \in DOMAIN jobs /\ j \in Nat
  BY JobFacts
<1>3. h \in Seq(TalkRows)
  <2>1. talk[c] \in Seq(TalkRows) /\ HistoryLimit \in Nat
    BY <1>2, AgentRepliesAssumption DEF ReplyInv, ReplyTypeInv
  <2> DEFINE n == IF Len(talk[c]) < HistoryLimit THEN Len(talk[c]) ELSE HistoryLimit
  <2>2. n \in 0..Len(talk[c])
    BY <2>1
  <2> HIDE DEF n
  <2>3. SubSeq(talk[c], 1, n) \in Seq(TalkRows)
    BY <2>1, <2>2
  <2> QED BY <2>3 DEF HistoryOf, n
<1>4. x \in TalkRows /\ x.job = j /\ x.from = "user"
  BY <1>2 DEF TalkRows
<1>5. jobs' = [jobs EXCEPT ![j] = row]
  BY <1>1, <1>2 DEF ReplyInv, ReplyTypeInv
<1> HIDE DEF h
<1>6. /\ row \in JobRows /\ row.msg = jobs[j].msg /\ row.conv = jobs[j].conv
      /\ row.stage = "recall" /\ row.recalled = jobs[j].recalled
  BY <1>2, <1>3 DEF JobRows, Stages, Stored
<1> HIDE DEF row, x
<1>7. \A m \in row.recalled : m.user = MemUser(j)
  BY <1>6 DEF ReplyInv, MemoryStaysWithUser
<1>8. memories' \subseteq MemoryRows /\ toMemorize' \subseteq MemoryRows
  BY <1>1 DEF ReplyInv, ReplyTypeInv
<1> QED BY <1>1, <1>4, <1>5, <1>6, <1>7, <1>8, TalkGrows

\* Whatever is recalled was kept for this user.
LEMMA RecallsInv ==
    ASSUME ReplyInv, NEW j \in JobIds, Recalls(j)
    PROVE  ReplyInv'
<1>1. /\ jobs[j].stage = "recall"
      /\ talk' = talk /\ memories' = memories /\ toMemorize' = toMemorize
  BY DEF Recalls, Active
<1>2. "model" \in Stages /\ Forward("recall", "model")
  BY DEF Stages, Stored, Ended, Forward
<1>3. CASE ToStage(j, "model")
  BY <1>1, <1>2, <1>3, MovesOn
<1>4. CASE jobs' = [jobs EXCEPT ![j].stage = "model", ![j].recalled = Recall(j)]
  <2> DEFINE rec == Recall(j)
             row == [jobs[j] EXCEPT !.stage = "model", !.recalled = rec]
  <2>1. jobs[j] \in JobRows /\ j \in DOMAIN jobs
    BY JobFacts
  <2>2. rec \in SUBSET MemoryRows /\ \A m \in rec : m.user = MemUser(j)
    BY DEF ReplyInv, ReplyTypeInv, Recall
  <2>3. jobs' = [jobs EXCEPT ![j] = row]
    BY <1>4, <2>1 DEF ReplyInv, ReplyTypeInv
  <2> HIDE DEF rec
  <2>4. /\ row \in JobRows /\ row.msg = jobs[j].msg /\ row.conv = jobs[j].conv
        /\ row.stage = "model" /\ row.recalled = rec
    BY <1>2, <2>1, <2>2 DEF JobRows
  <2> HIDE DEF row
  <2>5. memories' \subseteq MemoryRows /\ toMemorize' \subseteq MemoryRows
    BY <1>1 DEF ReplyInv, ReplyTypeInv
  <2> QED BY <1>1, <1>2, <2>2, <2>3, <2>4, <2>5, JobKeeps
<1> QED BY <1>3, <1>4 DEF Recalls

\* The answer is stored once, after its question.
LEMMA ModelInv ==
    ASSUME ReplyInv, NEW j \in JobIds, ModelAnswers(j) \/ ModelFails(j) \/ SendReply(j)
    PROVE  ReplyInv'
<1>1. CASE ModelAnswers(j)
  <2> DEFINE c == jobs[j].conv
             x == [from |-> "agent", job |-> j]
             row == [jobs[j] EXCEPT !.stage = "send", !.reply = "answer"]
             kept == [agent |-> jobs[j].agent, user |-> MemUser(j), job |-> j]
  <2>1. /\ jobs[j].stage = "model" /\ memories' = memories
        /\ jobs' = [jobs EXCEPT ![j].stage = "send", ![j].reply = "answer"]
        /\ talk' = [talk EXCEPT ![c] = Append(talk[c], x)]
        /\ toMemorize' = toMemorize \cup {kept}
    BY <1>1 DEF ModelAnswers, Active, SetReply
  <2>2. jobs[j] \in JobRows /\ MemUser(j) \in MemUsers /\ j \in DOMAIN jobs /\ j \in Nat
    BY JobFacts
  <2>3. kept \in MemoryRows
    BY <2>2 DEF JobRows, MemoryRows
  <2>4. x \in TalkRows /\ x.job = j /\ x.from = "agent"
    BY <2>2 DEF TalkRows
  <2>5. jobs' = [jobs EXCEPT ![j] = row]
    BY <2>1, <2>2 DEF ReplyInv, ReplyTypeInv
  <2>6. /\ row \in JobRows /\ row.msg = jobs[j].msg /\ row.conv = jobs[j].conv
        /\ row.stage = "send" /\ row.recalled = jobs[j].recalled
    BY <2>2 DEF JobRows, Stages, Stored, Ended, ReplyWords
  <2> HIDE DEF row, x, kept
  <2>7. \A m \in row.recalled : m.user = MemUser(j)
    BY <2>6 DEF ReplyInv, MemoryStaysWithUser
  <2>8. memories' \subseteq MemoryRows /\ toMemorize' \subseteq MemoryRows
    BY <2>1, <2>3 DEF ReplyInv, ReplyTypeInv
  <2> QED BY <2>1, <2>4, <2>5, <2>6, <2>7, <2>8, TalkGrows
<1>2. CASE ModelFails(j)
  <2>1. /\ jobs[j].stage = "model" /\ SetReply(j, "error")
        /\ talk' = talk /\ memories' = memories /\ toMemorize' = toMemorize
    BY <1>2 DEF ModelFails, Active, Apologises
  <2>2. "error" \in ReplyWords
    BY DEF ReplyWords
  <2> QED BY <2>1, <2>2, MovesOn
<1>3. CASE SendReply(j)
  <2>1. /\ jobs[j].stage = "send" /\ (ToStage(j, "answered") \/ ToStage(j, "unheard"))
        /\ talk' = talk /\ memories' = memories /\ toMemorize' = toMemorize
    BY <1>3 DEF SendReply, Active
  <2>2. /\ {"answered", "unheard"} \subseteq Stages
        /\ Forward("send", "answered") /\ Forward("send", "unheard")
    BY DEF Stages, Stored, Ended, Forward
  <2> QED BY <2>1, <2>2, MovesOn
<1> QED BY <1>1, <1>2, <1>3

\* What touches no job and no conversation.
LEMMA AsideInv ==
    ASSUME ReplyInv, jobs' = jobs, talk' = talk,
           memories' \subseteq MemoryRows, toMemorize' \subseteq MemoryRows
    PROVE  ReplyInv'
<1>1. ReplyTypeInv' /\ AnswerFollowsQuestion'
  BY DEF ReplyInv, ReplyTypeInv, AnswerFollowsQuestion
<1>2. GroupInv' /\ TalkInv'
  BY DEF ReplyInv, GroupInv, TalkInv, JobIds
<1>3. MemoryStaysWithUser'
  BY DEF ReplyInv, MemoryStaysWithUser, MemUser, JobIds
<1> QED BY <1>1, <1>2, <1>3 DEF ReplyInv

\* No message has come in.
LEMMA ReplyInitInv == ReplyInit => ReplyInv
<1> SUFFICES ASSUME ReplyInit
             PROVE  ReplyInv
  OBVIOUS
<1>0. MaxJobs \in Nat
  BY AgentRepliesAssumption
<1>1. jobs \in Seq(JobRows) /\ Len(jobs) = 0
  BY DEF ReplyInit
<1>2. JobIds = {}
  BY <1>1 DEF JobIds
<1>3. /\ talk \in [Conversations -> Seq(TalkRows)]
      /\ \A c \in Conversations : DOMAIN talk[c] = {}
  BY DEF ReplyInit
<1>4. memories = {} /\ toMemorize = {}
  BY DEF ReplyInit
<1>5. ReplyTypeInv
  BY <1>0, <1>1, <1>3, <1>4 DEF ReplyTypeInv
<1> QED BY <1>2, <1>3, <1>5 DEF ReplyInv, GroupInv, TalkInv, MemoryStaysWithUser, AnswerFollowsQuestion

\* Every step of every job preserves the invariant.
LEMMA ReplyNextInv == ReplyInv /\ [ReplyNext]_replyVars => ReplyInv'
<1> SUFFICES ASSUME ReplyInv, [ReplyNext]_replyVars
             PROVE  ReplyInv'
  OBVIOUS
<1>1. memories \subseteq MemoryRows /\ toMemorize \subseteq MemoryRows
  BY DEF ReplyInv, ReplyTypeInv
<1>2. ASSUME NEW j \in JobIds, JobStep(j)
      PROVE  ReplyInv'
  BY <1>2, RoutingInv, AgentStartsInv, RecallsInv, ModelInv DEF JobStep
<1>3. ASSUME NEW x \in toMemorize, Memorize(x)
      PROVE  ReplyInv'
  <2>1. jobs' = jobs /\ talk' = talk /\ memories' \subseteq MemoryRows /\ toMemorize' \subseteq MemoryRows
    BY <1>1, <1>3 DEF Memorize
  <2> QED BY <2>1, AsideInv
<1>4. ASSUME \/ \E n \in AgentNameSet : AgentBreaks(n)
             \/ SeedAgents
             \/ UNCHANGED replyVars
      PROVE  ReplyInv'
  <2>1. jobs' = jobs /\ talk' = talk /\ memories' = memories /\ toMemorize' = toMemorize
    BY <1>4 DEF AgentBreaks, SeedAgents, replyVars
  <2> QED BY <1>1, <2>1, AsideInv
<1> QED BY <1>2, <1>3, <1>4, IncomingInv DEF ReplyNext

\* What is stored, recalled and dropped stays in order through any
\* interleaving of the jobs.
THEOREM ReplyInvHolds == ReplySpec => []ReplyInv
<1>1. ReplyInit => ReplyInv
  BY ReplyInitInv
<1>2. ReplyInv /\ [ReplyNext]_replyVars => ReplyInv'
  BY ReplyNextInv
<1> QED BY <1>1, <1>2, PTL DEF ReplySpec

\* processMessageWithAgent and the webhooks: memories stay with their user, an
\* answer follows its question and is stored once, and a bot in a group speaks
\* only when named, for any number of messages worked on at once and any
\* failing calls.
THEOREM RepliesCorrect == ReplySpec => []RepliesSafe
<1>1. ReplyInv => RepliesSafe
  <2> SUFFICES ASSUME ReplyInv
               PROVE  SilentUnlessNamed
    BY DEF ReplyInv, RepliesSafe
  <2> QED BY DEF ReplyInv, GroupInv, SilentUnlessNamed
<1> QED BY <1>1, ReplyInvHolds, PTL

---------------------------------------------------------------------------
(***************************************************************************)
(* The agents' configuration.                                              *)
(*                                                                         *)
(* Nothing is assumed of what an update contains: of entries, rows and     *)
(* calls it is only said which fields they have.                           *)
(***************************************************************************)
IsList(l) ==
    /\ DOMAIN l \subseteq AgentNames
    /\ \A a \in DOMAIN l : /\ {"cfg", "ws"} \subseteq DOMAIN l[a]
                           /\ l[a].ws \in BOOLEAN /\ (l[a].ws => a \in InWorkspace)

IsFileCall(c) ==
    /\ {"op", "agent", "upd", "at", "read", "crossed"} \subseteq DOMAIN c
    /\ c.op \in {"write", "put", "sync"} /\ (c.op = "write" => c.agent \in AgentNames)
    /\ c.at \in {"reading", "writing", "read"} /\ (c.at = "writing" => Writer(c))
    /\ c.crossed \in BOOLEAN
    /\ IsList(c.read)

AcTypeInv ==
    /\ IsList(list)
    /\ IsList(agentRow) /\ \A a \in DOMAIN agentRow : "soul" \in DOMAIN agentRow[a]
    /\ DOMAIN soulFile = InWorkspace
    /\ DOMAIN writtenBack = AgentNames /\ DOMAIN savedSoul = AgentNames
    /\ corrupt \in BOOLEAN /\ configRaced \in BOOLEAN /\ configCut \in BOOLEAN
    /\ \A c \in configCalls : IsFileCall(c)

\* Alone at the file, a writer writes what it read with its update merged in, and
\* only a write that did not end leaves a file that does not parse.
AloneAtTheFile ==
    /\ corrupt => configCut
    /\ \A c, d \in configCalls : Writer(c) /\ Writer(d) => c = d
    /\ \A c \in configCalls : c.crossed = FALSE /\ (c.at = "writing" => c.read = list)

\* A saved soul is in its workspace, whether the row still says so or not.
SoulsInWorkspace ==
    \A a \in AgentNames : savedSoul[a] \in Souls => a \in InWorkspace /\ soulFile[a] = savedSoul[a]

AcInv ==
    /\ AcTypeInv
    /\ ~configRaced => AloneAtTheFile
    /\ WrittenBackStays /\ SyncRepairs
    /\ SoulsInWorkspace

LEMMA OverFacts ==
  ASSUME NEW g, NEW f
  PROVE  /\ DOMAIN Over(g, f) = DOMAIN g \cup DOMAIN f
         /\ \A x \in DOMAIN g : Over(g, f)[x] = g[x]
         /\ \A x \in DOMAIN f \ DOMAIN g : Over(g, f)[x] = f[x]
BY DEF Over

\* An entry or a row put in its place leaves the others alone.
LEMMA UpdateFacts ==
  ASSUME NEW f, NEW a, NEW v
  PROVE  /\ DOMAIN WithUpdate(f, a, v) = DOMAIN f \cup {a}
         /\ WithUpdate(f, a, v)[a] = v
         /\ \A b \in DOMAIN f \ {a} : WithUpdate(f, a, v)[b] = f[b]
BY DEF WithUpdate, Over

\* What a write-back writes: the fields of the update, and all else as it was.
LEMMA WrittenFacts ==
  ASSUME NEW l, IsList(l), NEW a \in AgentNames, NEW upd
  PROVE  /\ DOMAIN ConfigWritten(l, a, upd) = DOMAIN l \cup {a}
         /\ \A b \in DOMAIN l \ {a} : ConfigWritten(l, a, upd)[b] = l[b]
         /\ \A f \in DOMAIN upd : /\ f \in DOMAIN ConfigWritten(l, a, upd)[a].cfg
                                  /\ ConfigWritten(l, a, upd)[a].cfg[f] = upd[f]
         /\ a \in DOMAIN l => \A f \in DOMAIN l[a].cfg \ DOMAIN upd :
              /\ f \in DOMAIN ConfigWritten(l, a, upd)[a].cfg
              /\ ConfigWritten(l, a, upd)[a].cfg[f] = l[a].cfg[f]
<1> DEFINE w == ConfigWritten(l, a, upd)
<1>1. CASE a \in DOMAIN l
  <2> DEFINE merged == DeepMerge(l[a].cfg, upd)
  <2>1. w = [l EXCEPT ![a].cfg = merged]
    BY <1>1 DEF ConfigWritten
  <2>2. /\ DOMAIN merged = DOMAIN upd \cup DOMAIN l[a].cfg
        /\ \A f \in DOMAIN upd : merged[f] = upd[f]
        /\ \A f \in DOMAIN l[a].cfg \ DOMAIN upd : merged[f] = l[a].cfg[f]
    BY OverFacts DEF DeepMerge
  <2> HIDE DEF merged
  <2>3. {"cfg", "ws"} \subseteq DOMAIN l[a]
    BY <1>1 DEF IsList
  <2>4. DOMAIN w = DOMAIN l /\ \A b \in DOMAIN l \ {a} : w[b] = l[b]
    BY <2>1
  <2>5. w[a] = [l[a] EXCEPT !.cfg = merged]
    BY <1>1, <2>1
  <2>6. w[a].cfg = merged /\ w[a].ws = l[a].ws /\ DOMAIN w[a] = DOMAIN l[a]
    BY <2>3, <2>5
  <2> QED BY <1>1, <2>2, <2>4, <2>6
<1>2. CASE a \notin DOMAIN l
  <2> DEFINE entry == [cfg |-> upd, ws |-> FALSE]
  <2>1. w = WithUpdate(l, a, entry)
    BY <1>2 DEF ConfigWritten
  <2>2. entry.cfg = upd /\ entry.ws = FALSE /\ DOMAIN entry = {"cfg", "ws"}
    OBVIOUS
  <2> HIDE DEF entry, w
  <2>3. DOMAIN w = DOMAIN l \cup {a} /\ w[a] = entry /\ \A b \in DOMAIN l \ {a} : w[b] = l[b]
    BY <2>1 DEF WithUpdate, Over
  <2> QED BY <1>2, <2>2, <2>3 DEF w
<1> QED BY <1>1, <1>2

LEMMA WrittenIsList ==
  ASSUME NEW l, IsList(l), NEW a \in AgentNames, NEW upd
  PROVE  IsList(ConfigWritten(l, a, upd))
<1> DEFINE w == ConfigWritten(l, a, upd)
<1>1. CASE a \in DOMAIN l
  <2>1. PICK merged : w = [l EXCEPT ![a].cfg = merged]
    BY <1>1 DEF ConfigWritten
  <2>2. {"cfg", "ws"} \subseteq DOMAIN l[a]
    BY <1>1 DEF IsList
  <2>3. /\ DOMAIN w = DOMAIN l /\ \A b \in DOMAIN l \ {a} : w[b] = l[b]
        /\ w[a] = [l[a] EXCEPT !.cfg = merged]
    BY <1>1, <2>1
  <2>4. w[a].ws = l[a].ws /\ DOMAIN w[a] = DOMAIN l[a]
    BY <2>2, <2>3
  <2> HIDE DEF w
  <2>5. IsList(w)
    BY <1>1, <2>2, <2>3, <2>4 DEF IsList
  <2> QED BY <2>5 DEF w
<1>2. CASE a \notin DOMAIN l
  <2>1. PICK entry : /\ w = WithUpdate(l, a, entry)
                     /\ entry = [cfg |-> upd, ws |-> FALSE]
    BY <1>2 DEF ConfigWritten
  <2>2. DOMAIN w = DOMAIN l \cup {a} /\ w[a] = entry /\ \A b \in DOMAIN l \ {a} : w[b] = l[b]
    BY <2>1 DEF WithUpdate, Over
  <2>3. entry.ws = FALSE /\ DOMAIN entry = {"cfg", "ws"}
    BY <2>1
  <2> HIDE DEF w
  <2>4. IsList(w)
    BY <1>2, <2>2, <2>3 DEF IsList
  <2> QED BY <2>4 DEF w
<1> QED BY <1>1, <1>2

\* What the calls and the file have to do with each other.
FileSide ==
    /\ \A c \in configCalls : IsFileCall(c)
    /\ configRaced \in BOOLEAN /\ configCut \in BOOLEAN
    /\ ~configRaced => AloneAtTheFile
    /\ WrittenBackStays

LEMMA NewFileCall ==
  ASSUME NEW op \in {"write", "put", "sync"}, NEW a, NEW upd, op = "write" => a \in AgentNames
  PROVE  /\ IsFileCall(FileCall(op, a, upd))
         /\ FileCall(op, a, upd).op = op /\ FileCall(op, a, upd).at = "reading"
         /\ FileCall(op, a, upd).crossed = FALSE
<1>1. IsList(NoCfg)
  BY DEF IsList, NoCfg
<1>2. /\ DOMAIN FileCall(op, a, upd) = {"op", "id", "agent", "upd", "at", "read", "crossed"}
      /\ FileCall(op, a, upd).op = op /\ FileCall(op, a, upd).at = "reading"
      /\ FileCall(op, a, upd).crossed = FALSE /\ FileCall(op, a, upd).agent = a
      /\ FileCall(op, a, upd).read = NoCfg
  BY DEF FileCall
<1> QED BY <1>1, <1>2 DEF IsFileCall

\* A handler that comes to the file, or does without.
LEMMA SuspendKeeps ==
  ASSUME FileSide, UNCHANGED <<list, corrupt, writtenBack, configCut>>,
         NEW op \in {"write", "put"}, NEW a, NEW upd, op = "write" => a \in AgentNames,
         Suspend(FileCall(op, a, upd)) \/ UNCHANGED <<configCalls, configRaced>>
  PROVE  FileSide'
<1>1. CASE UNCHANGED <<configCalls, configRaced>>
  BY <1>1 DEF FileSide, AloneAtTheFile, WrittenBackStays, Listed
<1>2. CASE Suspend(FileCall(op, a, upd))
  <2>1. PICK c : /\ IsFileCall(c) /\ Writer(c) /\ c.at = "reading" /\ c.crossed = FALSE
                 /\ configCalls' = configCalls \cup {c}
                 /\ configRaced' = (configRaced \/ \E d \in configCalls : Writer(d))
    BY <1>2, NewFileCall DEF Suspend, Writer
  <2>2. \A d \in configCalls' : IsFileCall(d)
    BY <2>1 DEF FileSide
  <2>3. configRaced' \in BOOLEAN /\ configCut' \in BOOLEAN
    BY <2>1 DEF FileSide
  <2>4. ASSUME ~configRaced'
        PROVE  AloneAtTheFile'
    <3>1. ~configRaced /\ \A d \in configCalls : ~Writer(d)
      BY <2>1, <2>4
    <3> QED BY <2>1, <3>1 DEF FileSide, AloneAtTheFile
  <2>5. WrittenBackStays'
    BY <2>1 DEF FileSide, WrittenBackStays, Listed
  <2>6. (\A d \in configCalls : IsFileCall(d))'
    BY <2>2
  <2> QED BY <2>3, <2>4, <2>5, <2>6 DEF FileSide
<1> QED BY <1>1, <1>2

\* The requests that change a row: openclaw.json is as it was.
RowSide ==
    /\ IsList(agentRow) /\ \A a \in DOMAIN agentRow : "soul" \in DOMAIN agentRow[a]
    /\ DOMAIN soulFile = InWorkspace /\ DOMAIN savedSoul = AgentNames
    /\ SyncRepairs /\ SoulsInWorkspace

LEMMA NotFresh == fresh' = FALSE => SyncRepairs'
BY DEF SyncRepairs

LEMMA SidesOfInv == AcInv <=> /\ FileSide /\ RowSide /\ IsList(list)
                              /\ DOMAIN writtenBack = AgentNames /\ corrupt \in BOOLEAN
BY DEF AcInv, AcTypeInv, FileSide, RowSide

LEMMA BothSidesNext ==
  ASSUME FileSide', RowSide', IsList(list)', (DOMAIN writtenBack = AgentNames)', (corrupt \in BOOLEAN)'
  PROVE  AcInv'
BY DEF AcInv, AcTypeInv, FileSide, RowSide

\* What the requests about rows leave alone.
LEMMA RowsOnly ==
  ASSUME AcInv, FileSide', RowSide', UNCHANGED <<list, corrupt, writtenBack, configCut>>
  PROVE  AcInv'
<1>1. IsList(list)' /\ (DOMAIN writtenBack = AgentNames)' /\ (corrupt \in BOOLEAN)'
  BY DEF AcInv, AcTypeInv, IsList
<1> QED BY <1>1, BothSidesNext

LEMMA CreateAgentInv ==
  ASSUME AcInv, NEW a \in AgentNames, NEW upd, NEW write, CreateAgent(a, upd, write)
  PROVE  AcInv'
<1>1. FileSide /\ RowSide
  BY SidesOfInv
<1>2. /\ UNCHANGED <<list, corrupt, soulFile, writtenBack, configCut>>
      /\ agentRow' = WithUpdate(agentRow, a, NewRow(upd, FALSE, NoSoul))
      /\ fresh' = FALSE
      /\ savedSoul' = [savedSoul EXCEPT ![a] = NoConfigEntry]
      /\ Suspend(FileCall("write", a, upd)) \/ UNCHANGED <<configCalls, configRaced>>
  BY DEF CreateAgent, WriteCall
<1>3. FileSide'
  BY <1>1, <1>2, SuspendKeeps
<1>4. RowSide'
  <2>1. PICK row : agentRow' = WithUpdate(agentRow, a, row) /\ row = NewRow(upd, FALSE, NoSoul)
    BY <1>2
  <2>5. DOMAIN row = {"cfg", "ws", "soul"} /\ row.ws = FALSE
    BY <2>1 DEF NewRow
  <2>2. /\ DOMAIN agentRow' = DOMAIN agentRow \cup {a} /\ agentRow'[a] = row
        /\ \A b \in DOMAIN agentRow \ {a} : agentRow'[b] = agentRow[b]
    BY <2>1 DEF WithUpdate, Over
  <2>3. IsList(agentRow)' /\ (\A b \in DOMAIN agentRow : "soul" \in DOMAIN agentRow[b])'
    BY <1>1, <2>2, <2>5 DEF RowSide, IsList
  <2>4. SoulsInWorkspace'
    BY <1>1, <1>2, AgentConfigAssumption DEF RowSide, SoulsInWorkspace
  <2> QED BY <1>1, <1>2, <2>3, <2>4, NotFresh DEF RowSide
<1> QED BY <1>2, <1>3, <1>4, RowsOnly

LEMMA UpdateConfigInv ==
  ASSUME AcInv, NEW a \in AgentNames, NEW upd, NEW write, UpdateConfig(a, upd, write)
  PROVE  AcInv'
<1>1. FileSide /\ RowSide
  BY SidesOfInv
<1>2. /\ UNCHANGED <<list, corrupt, soulFile, writtenBack, savedSoul, configCut>>
      /\ a \in DOMAIN agentRow
      /\ agentRow' = [agentRow EXCEPT ![a].cfg = upd]
      /\ fresh' = FALSE
      /\ Suspend(FileCall("write", a, upd)) \/ UNCHANGED <<configCalls, configRaced>>
  BY DEF UpdateConfig, HasRow, WriteCall
<1>3. FileSide'
  BY <1>1, <1>2, SuspendKeeps
<1>4. RowSide'
  <2>1. IsList(agentRow)' /\ (\A b \in DOMAIN agentRow : "soul" \in DOMAIN agentRow[b])'
    BY <1>1, <1>2 DEF RowSide, IsList
  <2>2. SoulsInWorkspace'
    BY <1>1, <1>2 DEF RowSide, SoulsInWorkspace
  <2> QED BY <1>1, <1>2, <2>1, <2>2, NotFresh DEF RowSide
<1> QED BY <1>2, <1>3, <1>4, RowsOnly

LEMMA DeleteAgentInv ==
  ASSUME AcInv, NEW a \in AgentNames, DeleteAgent(a)
  PROVE  AcInv'
<1>1. FileSide /\ RowSide
  BY SidesOfInv
<1>2. /\ UNCHANGED <<list, corrupt, soulFile, configCalls, writtenBack, configRaced, configCut>>
      /\ agentRow' = Without(agentRow, a)
      /\ fresh' = FALSE
      /\ savedSoul' = [savedSoul EXCEPT ![a] = NoConfigEntry]
  BY DEF DeleteAgent
<1>3. FileSide'
  BY <1>1, <1>2, SuspendKeeps
<1>4. RowSide'
  <2>1. DOMAIN agentRow' = DOMAIN agentRow \ {a} /\ \A b \in DOMAIN agentRow' : agentRow'[b] = agentRow[b]
    BY <1>2 DEF Without
  <2>2. IsList(agentRow)' /\ (\A b \in DOMAIN agentRow : "soul" \in DOMAIN agentRow[b])'
    BY <1>1, <2>1 DEF RowSide, IsList
  <2>3. SoulsInWorkspace'
    BY <1>1, <1>2, AgentConfigAssumption DEF RowSide, SoulsInWorkspace
  <2> QED BY <1>1, <1>2, <2>2, <2>3, NotFresh DEF RowSide
<1> QED BY <1>2, <1>3, <1>4, RowsOnly

LEMMA RowSoulInv ==
  ASSUME AcInv, NEW a \in AgentNames, NEW soul,
         SetRowSoul(a, soul) \/ \E ok \in BOOLEAN : PutSoul(a, soul, ok)
  PROVE  AcInv'
<1>1. FileSide /\ RowSide
  BY SidesOfInv
<1>2. /\ UNCHANGED <<list, corrupt, configCalls, writtenBack, configRaced, configCut>>
      /\ a \in DOMAIN agentRow
      /\ agentRow' = [agentRow EXCEPT ![a].soul = soul]
      /\ fresh' = FALSE
      /\ \/ UNCHANGED <<soulFile, savedSoul>>
         \/ /\ agentRow[a].ws /\ soulFile' = [soulFile EXCEPT ![a] = soul]
            /\ savedSoul' = [savedSoul EXCEPT ![a] = soul]
         \/ soulFile' = soulFile /\ savedSoul' = [savedSoul EXCEPT ![a] = NoConfigEntry]
  BY DEF SetRowSoul, PutSoul, HasRow
<1>3. FileSide'
  BY <1>1, <1>2, SuspendKeeps
<1>4. RowSide'
  <2>1. IsList(agentRow)' /\ (\A b \in DOMAIN agentRow : "soul" \in DOMAIN agentRow[b])'
    BY <1>1, <1>2 DEF RowSide, IsList
  <2>2. agentRow[a].ws => a \in InWorkspace
    BY <1>1, <1>2 DEF RowSide, IsList
  <2>3. DOMAIN soulFile' = InWorkspace /\ DOMAIN savedSoul' = AgentNames
    BY <1>1, <1>2 DEF RowSide
  <2>4. SoulsInWorkspace'
    <3> SUFFICES ASSUME NEW b \in AgentNames, savedSoul'[b] \in Souls
                 PROVE  b \in InWorkspace /\ soulFile'[b] = savedSoul'[b]
      BY DEF SoulsInWorkspace
    <3>1. CASE b # a
      BY <1>1, <1>2, <3>1 DEF RowSide, SoulsInWorkspace
    <3>2. CASE b = a
      BY <1>1, <1>2, <2>2, <3>2, AgentConfigAssumption DEF RowSide, SoulsInWorkspace
    <3> QED BY <3>1, <3>2
  <2> QED BY <1>2, <2>1, <2>3, <2>4, NotFresh DEF RowSide
<1> QED BY <1>2, <1>3, <1>4, RowsOnly

\* The steps at the file leave the rows alone.
LEMMA RowSideStays ==
  ASSUME RowSide, UNCHANGED <<agentRow, soulFile, savedSoul>>,
         UNCHANGED <<list, fresh>> \/ fresh' = FALSE
  PROVE  RowSide'
<1>1. SyncRepairs'
  <2>1. CASE UNCHANGED <<list, fresh>>
    BY <2>1 DEF RowSide, SyncRepairs, Listed, HasRow
  <2> QED BY <2>1, NotFresh
<1>2. IsList(agentRow)' /\ (\A b \in DOMAIN agentRow : "soul" \in DOMAIN agentRow[b])'
  BY DEF RowSide, IsList
<1> QED BY <1>1, <1>2 DEF RowSide, SoulsInWorkspace

LEMMA ReadFailsInv ==
  ASSUME AcInv, NEW c \in configCalls, ReadFails(c)
  PROVE  AcInv'
<1>1. /\ configCalls' = configCalls \ {c}
      /\ UNCHANGED <<agentRow, list, corrupt, soulFile, writtenBack, configRaced, fresh, savedSoul, configCut>>
  BY DEF ReadFails
<1>2. FileSide /\ RowSide
  BY SidesOfInv
<1>3. FileSide'
  BY <1>1, <1>2 DEF FileSide, AloneAtTheFile, WrittenBackStays, Listed
<1>4. RowSide'
  BY <1>1, <1>2, RowSideStays
<1> QED BY <1>1, <1>3, <1>4, RowsOnly

LEMMA ReadFileInv ==
  ASSUME AcInv, NEW c \in configCalls, ReadFile(c)
  PROVE  AcInv'
<1>1. UNCHANGED <<agentRow, list, corrupt, soulFile, writtenBack, configRaced, fresh, savedSoul, configCut>>
  BY DEF ReadFile
<1>2. FileSide /\ RowSide /\ IsList(list) /\ IsFileCall(c) /\ c.at = "reading"
  BY SidesOfInv DEF FileSide, ReadFile
<1>3. PICK d : /\ configCalls' = (configCalls \ {c}) \cup {d}
               /\ d = [c EXCEPT !.at = IF Writer(c) THEN "writing" ELSE "read", !.read = list]
  BY DEF ReadFile
<1>4. /\ DOMAIN d = DOMAIN c /\ d.op = c.op /\ d.agent = c.agent /\ d.crossed = c.crossed
      /\ d.at = (IF Writer(c) THEN "writing" ELSE "read") /\ d.read = list
  BY <1>2, <1>3 DEF IsFileCall
<1>5. IsFileCall(d)
  BY <1>2, <1>4 DEF IsFileCall, Writer
<1>6. FileSide'
  <2>1. (\A e \in configCalls : IsFileCall(e))'
    BY <1>2, <1>3, <1>5 DEF FileSide
  <2>2. ASSUME ~configRaced
        PROVE  AloneAtTheFile'
    <3>1. AloneAtTheFile
      BY <1>2, <2>2 DEF FileSide
    <3> QED BY <1>1, <1>3, <1>4, <3>1 DEF AloneAtTheFile, Writer
  <2>3. WrittenBackStays'
    BY <1>1, <1>2 DEF FileSide, WrittenBackStays, Listed
  <2> QED BY <1>1, <1>2, <2>1, <2>2, <2>3 DEF FileSide
<1>7. RowSide'
  BY <1>1, <1>2, RowSideStays
<1> QED BY <1>1, <1>6, <1>7, RowsOnly

\* A path in an entry is written as a write-back's update is.
LEMMA PutAsWritten ==
  ASSUME NEW l, NEW a \in DOMAIN l, NEW upd, upd # NoCfg
  PROVE  ConfigPut(l, a, upd) = ConfigWritten(l, a, upd)
BY DEF ConfigPut, ConfigWritten, DeepMerge

\* Either writer leaves a list, and the entries it is not about as they were.
LEMMA FileWrittenFacts ==
  ASSUME NEW c, IsFileCall(c), Writer(c)
  PROVE  /\ IsList(FileWritten(c))
         /\ \A b \in DOMAIN c.read \ {c.agent} :
              b \in DOMAIN FileWritten(c) /\ FileWritten(c)[b] = c.read[b]
<1>1. PICK l, a, upd : l = c.read /\ a = c.agent /\ upd = c.upd
  OBVIOUS
<1>2. IsList(l) /\ (c.op = "write" => a \in AgentNames)
  BY <1>1 DEF IsFileCall
<1>3. CASE c.op = "write" \/ (a \in DOMAIN l /\ upd # NoCfg)
  <2>1. a \in AgentNames
    BY <1>2, <1>3 DEF IsList
  <2>2. PICK w : w = ConfigWritten(l, a, upd)
    OBVIOUS
  <2>3. FileWritten(c) = w
    BY <1>1, <1>3, <2>2, PutAsWritten DEF FileWritten
  <2>4. IsList(w)
    BY <1>2, <2>1, <2>2, WrittenIsList
  <2>5. DOMAIN w = DOMAIN l \cup {a} /\ \A b \in DOMAIN l \ {a} : w[b] = l[b]
    BY <1>2, <2>1, <2>2, WrittenFacts
  <2> QED BY <1>1, <2>3, <2>4, <2>5
<1>4. CASE c.op # "write" /\ a \notin DOMAIN l
  BY <1>1, <1>2, <1>4 DEF FileWritten, ConfigPut
<1>5. CASE c.op # "write" /\ a \in DOMAIN l /\ upd = NoCfg
  <2>1. FileWritten(c) = Without(l, a)
    BY <1>1, <1>5 DEF FileWritten, ConfigPut
  <2>2. /\ DOMAIN Without(l, a) = DOMAIN l \ {a}
        /\ \A b \in DOMAIN l \ {a} : Without(l, a)[b] = l[b]
    BY DEF Without
  <2>3. IsList(Without(l, a))
    BY <1>2, <2>2 DEF IsList
  <2> QED BY <1>1, <2>1, <2>2, <2>3
<1> QED BY <1>3, <1>4, <1>5

\* What was set before, or is set by a call that read the list as it is, is in
\* the list once the call has written.
LEMMA SetStays ==
  ASSUME NEW c, IsFileCall(c), Writer(c), c.read = list, IsList(list),
         NEW a \in AgentNames, NEW f \in DOMAIN SetOnceWritten(c, a),
         f \in DOMAIN writtenBack[a] =>
           a \in DOMAIN list /\ f \in DOMAIN list[a].cfg /\ list[a].cfg[f] = writtenBack[a][f]
  PROVE  /\ a \in DOMAIN FileWritten(c) /\ f \in DOMAIN FileWritten(c)[a].cfg
         /\ FileWritten(c)[a].cfg[f] = SetOnceWritten(c, a)[f]
<1>1. CASE a # c.agent
  <2>1. SetOnceWritten(c, a) = writtenBack[a]
    BY <1>1 DEF SetOnceWritten
  <2> QED BY <1>1, <2>1, FileWrittenFacts
<1>2. CASE a = c.agent /\ c.op = "put" /\ a \notin DOMAIN list
  BY <1>2 DEF SetOnceWritten
<1>3. CASE a = c.agent /\ c.op = "put" /\ a \in DOMAIN list /\ c.upd = NoCfg
  <2>1. SetOnceWritten(c, a) = NoCfg
    BY <1>3 DEF SetOnceWritten
  <2> QED BY <2>1 DEF NoCfg
<1>4. CASE a = c.agent /\ (c.op = "write" \/ (a \in DOMAIN list /\ c.upd # NoCfg))
  <2>1. PICK upd, w : upd = c.upd /\ w = ConfigWritten(list, a, upd)
    OBVIOUS
  <2>2. FileWritten(c) = w
    BY <1>4, <2>1, PutAsWritten DEF FileWritten
  <2>3. SetOnceWritten(c, a) = Over(upd, writtenBack[a])
    BY <1>4, <2>1 DEF SetOnceWritten
  <2>4. /\ DOMAIN SetOnceWritten(c, a) = DOMAIN upd \cup DOMAIN writtenBack[a]
        /\ f \in DOMAIN upd => SetOnceWritten(c, a)[f] = upd[f]
        /\ f \in DOMAIN writtenBack[a] \ DOMAIN upd => SetOnceWritten(c, a)[f] = writtenBack[a][f]
    BY <2>3 DEF Over
  <2>5. /\ DOMAIN w = DOMAIN list \cup {a}
        /\ \A g \in DOMAIN upd : g \in DOMAIN w[a].cfg /\ w[a].cfg[g] = upd[g]
        /\ a \in DOMAIN list => \A g \in DOMAIN list[a].cfg \ DOMAIN upd :
             g \in DOMAIN w[a].cfg /\ w[a].cfg[g] = list[a].cfg[g]
    BY <2>1, WrittenFacts
  <2>6. CASE f \in DOMAIN upd
    BY <2>2, <2>4, <2>5, <2>6
  <2>7. CASE f \notin DOMAIN upd
    <3>1. f \in DOMAIN writtenBack[a] /\ SetOnceWritten(c, a)[f] = writtenBack[a][f]
      BY <2>4, <2>7
    <3>2. a \in DOMAIN list /\ f \in DOMAIN list[a].cfg /\ list[a].cfg[f] = writtenBack[a][f]
      BY <3>1
    <3>3. f \in DOMAIN w[a].cfg /\ w[a].cfg[f] = list[a].cfg[f]
      BY <2>5, <2>7, <3>2
    <3> QED BY <2>2, <2>5, <3>1, <3>2, <3>3
  <2> QED BY <2>6, <2>7
<1> QED BY <1>1, <1>2, <1>3, <1>4 DEF Writer

\* The calls that stay at the file when a write ends.
LEMMA CrossingFacts ==
  ASSUME AcInv, NEW c \in configCalls, c.at = "writing", configCalls' = Crossing(c)
  PROVE  /\ \A e \in configCalls' : IsFileCall(e)
         /\ ~configRaced => \A e \in configCalls' :
              ~Writer(e) /\ e.crossed = FALSE /\ e.at # "writing"
<1>1. /\ IsFileCall(c) /\ Writer(c)
      /\ \A d \in configCalls : IsFileCall(d)
  BY DEF AcInv, AcTypeInv, IsFileCall
<1>2. ASSUME NEW e \in configCalls'
      PROVE  /\ IsFileCall(e)
             /\ \E d \in configCalls \ {c} :
                  e.op = d.op /\ e.at = d.at /\ e.crossed = (d \in Open)
  <2>1. PICK d \in configCalls \ {c} : e = [d EXCEPT !.crossed = d \in Open]
    BY DEF Crossing
  <2>2. /\ DOMAIN e = DOMAIN d /\ e.op = d.op /\ e.at = d.at /\ e.read = d.read /\ e.agent = d.agent
        /\ e.crossed = (d \in Open)
    BY <1>1, <2>1 DEF IsFileCall
  <2>3. IsFileCall(e)
    BY <1>1, <2>2 DEF IsFileCall, Writer
  <2> QED BY <2>2, <2>3
<1>3. ASSUME ~configRaced, NEW e \in configCalls'
      PROVE  ~Writer(e) /\ e.crossed = FALSE /\ e.at # "writing"
  <2>1. PICK d \in configCalls \ {c} : e.op = d.op /\ e.at = d.at /\ e.crossed = (d \in Open)
    BY <1>2
  <2>2. ~Writer(d)
    BY <1>1, <1>3 DEF AcInv, AloneAtTheFile
  <2>3. d.at # "writing"
    BY <1>1, <2>2 DEF IsFileCall
  <2>4. d \notin Open
    BY <2>3 DEF Open
  <2>5. e.crossed = FALSE /\ e.at # "writing"
    <3>1. (d \in Open) = FALSE
      BY <2>4
    <3> QED BY <2>1, <2>3, <3>1
  <2> QED BY <2>1, <2>2, <2>5 DEF Writer
<1> QED BY <1>2, <1>3

LEMMA WriteFileInv ==
  ASSUME AcInv, NEW c \in configCalls, WriteFile(c)
  PROVE  AcInv'
<1>1. /\ c.at = "writing"
      /\ list' = FileWritten(c)
      /\ corrupt' \in {FALSE, c.crossed}
      /\ writtenBack' = [b \in AgentNames |-> SetOnceWritten(c, b)]
      /\ configCalls' = Crossing(c)
      /\ fresh' = FALSE
      /\ UNCHANGED <<agentRow, soulFile, configRaced, savedSoul, configCut>>
  BY DEF WriteFile
<1>2. /\ FileSide /\ RowSide /\ IsList(list)
      /\ IsFileCall(c) /\ Writer(c)
  BY <1>1, SidesOfInv DEF FileSide, IsFileCall
<1>3. RowSide'
  BY <1>1, <1>2, RowSideStays
<1>4. IsList(list)'
  <2>1. IsList(FileWritten(c))
    BY <1>2, FileWrittenFacts
  <2> QED BY <1>1, <2>1 DEF IsList
<1>5. (DOMAIN writtenBack = AgentNames)' /\ (corrupt \in BOOLEAN)'
  BY <1>1, <1>2 DEF IsFileCall
<1>6. ASSUME ~configRaced
      PROVE  AloneAtTheFile' /\ WrittenBackStays'
  <2>1. AloneAtTheFile /\ WrittenBackStays /\ c.crossed = FALSE /\ c.read = list
    BY <1>1, <1>2, <1>6 DEF FileSide, AloneAtTheFile
  <2>2. corrupt' = FALSE
    BY <1>1, <2>1
  <2>3. AloneAtTheFile'
    BY <1>1, <1>6, <2>2, CrossingFacts DEF AloneAtTheFile, Writer
  <2>4. ASSUME NEW a \in AgentNames, NEW f \in DOMAIN writtenBack'[a]
        PROVE  a \in DOMAIN list' /\ f \in DOMAIN list'[a].cfg /\ list'[a].cfg[f] = writtenBack'[a][f]
    <3>1. writtenBack'[a] = SetOnceWritten(c, a)
      BY <1>1
    <3>2. f \in DOMAIN writtenBack[a] =>
            a \in DOMAIN list /\ f \in DOMAIN list[a].cfg /\ list[a].cfg[f] = writtenBack[a][f]
      BY <1>6, <2>1 DEF WrittenBackStays, Listed
    <3>3. f \in DOMAIN SetOnceWritten(c, a)
      BY <2>4, <3>1
    <3> QED BY <1>1, <1>2, <2>1, <3>1, <3>2, <3>3, SetStays
  <2>5. WrittenBackStays'
    BY <2>2, <2>4 DEF WrittenBackStays, Listed
  <2> QED BY <2>3, <2>5
<1>7. FileSide'
  <2>1. (\A e \in configCalls : IsFileCall(e))'
    BY <1>1, CrossingFacts
  <2>2. configRaced => WrittenBackStays'
    BY <1>1 DEF WrittenBackStays
  <2> QED BY <1>1, <1>2, <1>6, <2>1, <2>2 DEF FileSide
<1> QED BY <1>3, <1>4, <1>5, <1>7, BothSidesNext

\* A write that fails, and a stop of the server: the list is what the file last
\* said, and that it may no longer parse is remembered.
LEMMA CutInv ==
  ASSUME AcInv, StopAtFile \/ \E c \in configCalls : WriteBreaks(c)
  PROVE  AcInv'
<1>1. /\ UNCHANGED <<agentRow, list, soulFile, writtenBack, configRaced, savedSoul>>
      /\ corrupt' \in BOOLEAN /\ configCut' \in BOOLEAN
      /\ (corrupt => configCut) => (corrupt' => configCut')
      /\ fresh' = FALSE
  BY DEF AcInv, AcTypeInv, StopAtFile, WriteBreaks
<1>2. /\ \A e \in configCalls' : IsFileCall(e)
      /\ ~configRaced => \A e \in configCalls' :
           ~Writer(e) /\ e.crossed = FALSE /\ e.at # "writing"
  <2>1. CASE StopAtFile
    BY <2>1 DEF StopAtFile
  <2>2. CASE \E c \in configCalls : WriteBreaks(c)
    BY <2>2, CrossingFacts DEF WriteBreaks
  <2> QED BY <2>1, <2>2
<1>3. FileSide /\ RowSide /\ IsList(list) /\ DOMAIN writtenBack = AgentNames
  BY SidesOfInv
<1>4. RowSide'
  BY <1>1, <1>3, RowSideStays
<1>5. ASSUME ~configRaced
      PROVE  AloneAtTheFile' /\ WrittenBackStays'
  <2>1. corrupt' => configCut'
    BY <1>1, <1>3, <1>5 DEF FileSide, AloneAtTheFile
  <2>2. AloneAtTheFile'
    BY <1>2, <1>5, <2>1 DEF AloneAtTheFile, Writer
  <2>3. WrittenBackStays'
    BY <1>1, <1>3, <1>5, <2>1 DEF FileSide, WrittenBackStays, Listed
  <2> QED BY <2>2, <2>3
<1>6. FileSide'
  <2>1. (\A e \in configCalls : IsFileCall(e))'
    BY <1>2
  <2>2. configRaced => WrittenBackStays'
    BY <1>1 DEF WrittenBackStays
  <2> QED BY <1>1, <1>3, <1>5, <2>1, <2>2 DEF FileSide
<1>7. IsList(list)' /\ (DOMAIN writtenBack = AgentNames)' /\ (corrupt \in BOOLEAN)'
  BY <1>1, <1>3 DEF IsList
<1> QED BY <1>4, <1>6, <1>7, BothSidesNext

LEMMA PutGatewayConfigInv ==
  ASSUME AcInv, NEW a, NEW upd, PutGatewayConfig(a, upd)
  PROVE  AcInv'
<1>1. /\ UNCHANGED <<agentRow, list, corrupt, soulFile, writtenBack, fresh, savedSoul, configCut>>
      /\ Suspend(FileCall("put", a, upd))
  BY DEF PutGatewayConfig
<1>2. FileSide /\ RowSide
  BY SidesOfInv
<1>3. FileSide'
  BY <1>1, <1>2, SuspendKeeps
<1>4. RowSide'
  BY <1>1, <1>2, RowSideStays
<1> QED BY <1>1, <1>3, <1>4, RowsOnly

LEMMA StartSyncInv ==
  ASSUME AcInv, StartSync
  PROVE  AcInv'
<1>1. UNCHANGED <<agentRow, list, corrupt, soulFile, writtenBack, configRaced, fresh, savedSoul, configCut>>
  BY DEF StartSync
<1>2. FileSide /\ RowSide
  BY SidesOfInv
<1>3. PICK c : /\ configCalls' = configCalls \cup {c}
               /\ IsFileCall(c) /\ c.op = "sync" /\ c.at = "reading" /\ c.crossed = FALSE
  BY NewFileCall DEF StartSync
<1>7. FileSide'
  <2>1. (\A e \in configCalls : IsFileCall(e))'
    BY <1>2, <1>3 DEF FileSide
  <2>2. ASSUME ~configRaced
        PROVE  AloneAtTheFile'
    <3>1. AloneAtTheFile
      BY <1>2, <2>2 DEF FileSide
    <3> QED BY <1>1, <1>3, <3>1 DEF AloneAtTheFile, Writer
  <2>3. WrittenBackStays'
    BY <1>1, <1>2 DEF FileSide, WrittenBackStays, Listed
  <2> QED BY <1>1, <1>2, <2>1, <2>2, <2>3 DEF FileSide
<1>8. RowSide'
  BY <1>1, <1>2, RowSideStays
<1> QED BY <1>1, <1>7, <1>8, RowsOnly

\* The row a sync leaves: the entry's, with the soul of the workspace if there
\* is one and the one the row had otherwise.
LEMMA SyncedFacts ==
  ASSUME AcInv, NEW c \in configCalls, ApplySync(c)
  PROVE  /\ DOMAIN agentRow' = DOMAIN c.read \cup DOMAIN agentRow
         /\ \A a \in DOMAIN agentRow \ DOMAIN c.read : agentRow'[a] = agentRow[a]
         /\ \A a \in DOMAIN c.read :
              /\ DOMAIN agentRow'[a] = {"cfg", "ws", "soul"}
              /\ agentRow'[a].cfg = c.read[a].cfg /\ agentRow'[a].ws = c.read[a].ws
              /\ c.read[a].ws /\ soulFile[a] # NoSoul => agentRow'[a].soul = soulFile[a]
              /\ a \in DOMAIN agentRow /\ agentRow[a].soul # NoSoul => agentRow'[a].soul # NoSoul
<1>1. agentRow' = Over([a \in DOMAIN c.read |-> SyncedRow(c.read[a], a)], agentRow)
  BY DEF ApplySync
<1>2. /\ DOMAIN agentRow' = DOMAIN c.read \cup DOMAIN agentRow
      /\ \A a \in DOMAIN agentRow \ DOMAIN c.read : agentRow'[a] = agentRow[a]
      /\ \A a \in DOMAIN c.read : agentRow'[a] = SyncedRow(c.read[a], a)
  BY <1>1 DEF Over
<1>3. IsList(c.read)
  BY DEF AcInv, AcTypeInv, IsFileCall
<1>4. ASSUME NEW a \in DOMAIN c.read
      PROVE  /\ DOMAIN agentRow'[a] = {"cfg", "ws", "soul"}
             /\ agentRow'[a].cfg = c.read[a].cfg /\ agentRow'[a].ws = c.read[a].ws
             /\ c.read[a].ws /\ soulFile[a] # NoSoul => agentRow'[a].soul = soulFile[a]
             /\ a \in DOMAIN agentRow /\ agentRow[a].soul # NoSoul => agentRow'[a].soul # NoSoul
  <2>1. PICK soul : /\ agentRow'[a] = [cfg |-> c.read[a].cfg, ws |-> c.read[a].ws, soul |-> soul]
                    /\ soul = IF SoulRead(c.read[a], a) = NoSoul
                              THEN IF HasRow(a) THEN agentRow[a].soul ELSE NoSoul
                              ELSE SoulRead(c.read[a], a)
    BY <1>2 DEF SyncedRow, NewRow
  <2>2. c.read[a].ws \in BOOLEAN
    BY <1>3 DEF IsList
  <2>3. SoulRead(c.read[a], a) = IF c.read[a].ws THEN soulFile[a] ELSE NoSoul
    BY DEF SoulRead
  <2> QED BY <2>1, <2>2, <2>3 DEF HasRow
<1> QED BY <1>2, <1>4

LEMMA ApplySyncInv ==
  ASSUME AcInv, NEW c \in configCalls, ApplySync(c)
  PROVE  AcInv'
<1>1. /\ c.op = "sync" /\ c.at = "read"
      /\ savedSoul' = [a \in AgentNames |-> IF HasRow(a) THEN savedSoul[a] ELSE NoConfigEntry]
      /\ fresh' = (c.read = list)
      /\ configCalls' = configCalls \ {c}
      /\ UNCHANGED <<list, corrupt, soulFile, writtenBack, configRaced, configCut>>
  BY DEF ApplySync
<1>2. FileSide /\ RowSide /\ IsList(c.read)
  BY SidesOfInv DEF FileSide, IsFileCall
<1>3. FileSide'
  BY <1>1, <1>2 DEF FileSide, AloneAtTheFile, WrittenBackStays, Listed
<1>4. RowSide'
  <2>1. (\A b \in DOMAIN agentRow : "soul" \in DOMAIN agentRow[b])'
    BY <1>2, SyncedFacts DEF RowSide
  <2>2. IsList(agentRow)'
    <3>1. DOMAIN agentRow' \subseteq AgentNames
      BY <1>2, SyncedFacts DEF RowSide, IsList
    <3>2. ASSUME NEW b \in DOMAIN agentRow'
          PROVE  /\ {"cfg", "ws"} \subseteq DOMAIN agentRow'[b]
                 /\ agentRow'[b].ws \in BOOLEAN /\ (agentRow'[b].ws => b \in InWorkspace)
      <4>1. CASE b \in DOMAIN c.read
        BY <1>2, <4>1, SyncedFacts DEF IsList
      <4>2. CASE b \notin DOMAIN c.read
        <5>1. b \in DOMAIN agentRow /\ agentRow'[b] = agentRow[b]
          BY <4>2, SyncedFacts
        <5> QED BY <1>2, <5>1 DEF RowSide, IsList
      <4> QED BY <4>1, <4>2
    <3> QED BY <3>1, <3>2 DEF IsList
  <2>3. SyncRepairs'
    <3> SUFFICES ASSUME c.read = list, NEW a \in AgentNames, a \in DOMAIN list
                 PROVE  /\ a \in DOMAIN agentRow' /\ agentRow'[a].cfg = list[a].cfg
                        /\ list[a].ws /\ soulFile[a] # NoSoul => agentRow'[a].soul = soulFile[a]
      BY <1>1 DEF SyncRepairs, Listed, HasRow
    <3> QED BY SyncedFacts
  <2>4. SoulsInWorkspace'
    BY <1>1, <1>2, AgentConfigAssumption DEF RowSide, SoulsInWorkspace
  <2> QED BY <1>1, <1>2, <2>1, <2>2, <2>3, <2>4 DEF RowSide
<1> QED BY <1>1, <1>3, <1>4, RowsOnly

LEMMA AcNextInv ==
  ASSUME AcInv, AcNext
  PROVE  AcInv'
<1>1. ASSUME NEW a \in AgentNames, NEW upd \in Updates, NEW write \in BOOLEAN,
             CreateAgent(a, upd, write) \/ UpdateConfig(a, upd, write)
      PROVE  AcInv'
  BY <1>1, CreateAgentInv, UpdateConfigInv
<1>2. ASSUME NEW a \in AgentNames, DeleteAgent(a)
      PROVE  AcInv'
  BY <1>2, DeleteAgentInv
<1>3. ASSUME NEW a \in AgentNames, NEW soul \in Souls \cup {EmptySoul},
             SetRowSoul(a, soul) \/ \E ok \in BOOLEAN : PutSoul(a, soul, ok)
      PROVE  AcInv'
  BY <1>3, RowSoulInv
<1>4. CASE StartSync
  BY <1>4, StartSyncInv
<1>5. ASSUME NEW c \in configCalls, ReadFails(c) \/ ReadFile(c) \/ WriteFile(c) \/ ApplySync(c)
      PROVE  AcInv'
  BY <1>5, ReadFailsInv, ReadFileInv, WriteFileInv, ApplySyncInv
<1>6. CASE StopAtFile \/ \E c \in configCalls : WriteBreaks(c)
  BY <1>6, CutInv
<1>7. ASSUME NEW a \in AgentNames \cup {NoConfigEntry}, NEW upd \in Updates \cup {NoCfg},
             PutGatewayConfig(a, upd)
      PROVE  AcInv'
  BY <1>7, PutGatewayConfigInv
<1> QED BY <1>1, <1>2, <1>3, <1>4, <1>5, <1>6, <1>7 DEF AcNext

\* Before and after a step in which a synchronisation ends, or gives up.
SoulsKept ==
  \A a \in AgentNames :
    HasRow(a) /\ agentRow[a].soul \in Souls
       /\ (\E c \in configCalls : c.op = "sync" /\ c \notin configCalls')
    => a \in DOMAIN agentRow' /\ agentRow'[a].soul # NoSoul

LEMMA SyncKeepsSoulsStep ==
  ASSUME AcInv, [AcNext]_acVars
  PROVE  SoulsKept
<1> SUFFICES ASSUME NEW a \in AgentNames, a \in DOMAIN agentRow, agentRow[a].soul \in Souls,
                    NEW c \in configCalls, c \notin configCalls'
             PROVE  a \in DOMAIN agentRow' /\ agentRow'[a].soul # NoSoul
  BY DEF SoulsKept, HasRow
<1>1. agentRow[a].soul # NoSoul
  BY AgentConfigAssumption
<1>2. ASSUME UNCHANGED agentRow
      PROVE  a \in DOMAIN agentRow' /\ agentRow'[a].soul # NoSoul
  BY <1>1, <1>2
<1>3. ASSUME configCalls \subseteq configCalls'
      PROVE  FALSE
  BY <1>3
<1>4. ASSUME NEW b \in AgentNames, NEW upd \in Updates, NEW write \in BOOLEAN,
             CreateAgent(b, upd, write) \/ UpdateConfig(b, upd, write)
      PROVE  FALSE
  BY <1>3, <1>4 DEF CreateAgent, UpdateConfig, Suspend
<1>5. ASSUME NEW b \in AgentNames, DeleteAgent(b)
      PROVE  FALSE
  BY <1>3, <1>5 DEF DeleteAgent
<1>6. ASSUME NEW b \in AgentNames, NEW soul \in Souls \cup {EmptySoul},
             SetRowSoul(b, soul) \/ \E ok \in BOOLEAN : PutSoul(b, soul, ok)
      PROVE  FALSE
  BY <1>3, <1>6 DEF SetRowSoul, PutSoul
<1>7. CASE StartSync
  BY <1>3, <1>7 DEF StartSync
<1>8. ASSUME \/ StopAtFile
             \/ \E d \in configCalls : ReadFails(d) \/ ReadFile(d) \/ WriteFile(d) \/ WriteBreaks(d)
      PROVE  UNCHANGED agentRow
  BY <1>8 DEF ReadFails, ReadFile, WriteFile, WriteBreaks, StopAtFile
<1>11. ASSUME NEW b, NEW upd, PutGatewayConfig(b, upd)
       PROVE  FALSE
  BY <1>3, <1>11 DEF PutGatewayConfig, Suspend
<1>9. ASSUME NEW d \in configCalls, ApplySync(d)
      PROVE  a \in DOMAIN agentRow' /\ agentRow'[a].soul # NoSoul
  <2>1. CASE a \in DOMAIN d.read
    BY <1>1, <1>9, <2>1, SyncedFacts
  <2>2. CASE a \notin DOMAIN d.read
    BY <1>1, <1>9, <2>2, SyncedFacts
  <2> QED BY <2>1, <2>2
<1>10. CASE UNCHANGED acVars
  BY <1>2, <1>10 DEF acVars
<1> QED BY <1>2, <1>4, <1>5, <1>6, <1>7, <1>8, <1>9, <1>10, <1>11 DEF AcNext

\* Rows, openclaw.json and workspaces keep what they promise each other: for any
\* agents, any updates whatever fields they set, and any requests that overlap.
THEOREM ConfigCorrect == AcSpec => ConfigSafe
<1>1. AcInit => AcInv
  <2> SUFFICES ASSUME AcInit
               PROVE  AcInv
    OBVIOUS
  <2>1. PICK u : list = [a \in InWorkspace |-> [cfg |-> u, ws |-> TRUE]]
    BY DEF AcInit
  <2>2. IsList(list)
    BY <2>1, AgentConfigAssumption DEF IsList
  <2>3. agentRow = NoCfg /\ DOMAIN NoCfg = {} /\ IsList(agentRow)
    BY DEF AcInit, NoCfg, IsList
  <2>4. /\ configCalls = {} /\ corrupt = FALSE /\ configRaced = FALSE /\ fresh = FALSE
      /\ configCut = FALSE
        /\ writtenBack = [a \in AgentNames |-> NoCfg]
        /\ savedSoul = [a \in AgentNames |-> NoConfigEntry]
        /\ DOMAIN soulFile = InWorkspace
    BY DEF AcInit
  <2>5. AcTypeInv
    BY <2>2, <2>3, <2>4 DEF AcTypeInv
  <2>6. AloneAtTheFile
    BY <2>4 DEF AloneAtTheFile
  <2>7. WrittenBackStays
    BY <2>3, <2>4 DEF WrittenBackStays
  <2>8. SyncRepairs
    BY <2>4 DEF SyncRepairs
  <2>9. SoulsInWorkspace
    BY <2>4, AgentConfigAssumption DEF SoulsInWorkspace
  <2> QED BY <2>5, <2>6, <2>7, <2>8, <2>9 DEF AcInv
<1>2. AcInv /\ [AcNext]_acVars => AcInv'
  <2> SUFFICES ASSUME AcInv, UNCHANGED acVars
               PROVE  AcInv'
    BY AcNextInv
  <2>1. FileSide /\ RowSide /\ UNCHANGED <<list, corrupt, writtenBack, configCut>>
    BY SidesOfInv DEF acVars
  <2>2. FileSide'
    BY <2>1 DEF acVars, FileSide, AloneAtTheFile, WrittenBackStays, Listed
  <2>3. RowSide'
    BY <2>1, RowSideStays DEF acVars
  <2> QED BY <2>1, <2>2, <2>3, RowsOnly
<1>3. AcInv => WrittenBackStays /\ SyncRepairs /\ SavedSoulShown
  <2> SUFFICES ASSUME AcInv
               PROVE  SavedSoulShown
    BY DEF AcInv
  <2> QED BY AgentConfigAssumption DEF AcInv, SoulsInWorkspace, SavedSoulShown, ShownSoul
<1>4. AcInv /\ [AcNext]_acVars => SoulsKept
  BY SyncKeepsSoulsStep
<1>5. AcSpec => []AcInv
  BY <1>1, <1>2, PTL DEF AcSpec
<1>6. AcSpec => [][SoulsKept]_acVars
  BY <1>4, <1>5, PTL DEF AcSpec
<1>7. SyncKeepsSouls <=> [][SoulsKept]_acVars
  BY PTL DEF SyncKeepsSouls, SoulsKept
<1> QED BY <1>3, <1>5, <1>6, <1>7, PTL DEF ConfigSafe

---------------------------------------------------------------------------
(***************************************************************************)
(* Outbound webhooks: the inductive invariant.                             *)
(***************************************************************************)

\* AUTOINCREMENT: the id of a row was handed out and is the row's alone.
RowsInv ==
    /\ \A d \in deliveries : d.id \in 1..lastId
    /\ \A d, x \in deliveries : d.id = x.id => d = x
    /\ \A b \in batch : b.id \in 1..lastId
    /\ \A b, c \in batch : b.id = c.id => b = c

\* One retry is under way at a time, and rows wait only behind one.
QueueInv ==
    /\ \A f, g \in flights : f.origin = "batch" /\ g.origin = "batch" => f = g
    /\ batch # {} => Sending

\* The retry of an id is scheduled, waits, is under way or is done, and that
\* once; the row it belongs to may be pruned or deleted by then.
OnceInv ==
    /\ \A f \in flights : f.origin = "batch" => f.parent \in 1..lastId
    /\ \A x \in deliveries : x.origin = "batch" => x.parent \in 1..lastId
    /\ \A f \in flights, b \in batch : f.origin = "batch" => f.parent # b.id
    /\ \A f \in flights, x \in deliveries :
         f.origin = "batch" /\ x.origin = "batch" => f.parent # x.parent
    /\ \A b \in batch, x \in deliveries : x.origin = "batch" => x.parent # b.id
    /\ \A x, y \in deliveries :
         x.origin = "batch" /\ y.origin = "batch" /\ x.parent = y.parent => x = y
    /\ \A d, x \in deliveries : d.scheduled /\ x.origin = "batch" => x.parent # d.id
    /\ \A d \in deliveries, f \in flights :
         d.scheduled /\ f.origin = "batch" => f.parent # d.id
    /\ \A d \in deliveries, b \in batch : d.scheduled => b.id # d.id

\* Who may still be retried has an attempt left.
AttemptsInv ==
    /\ ChainEnds
    /\ \A d \in deliveries : d.scheduled => d.attempt < MaxRetries - 1
    /\ \A b \in batch : b.attempt < MaxRetries - 1
    /\ \A f \in flights : f.origin \in Automatic => f.attempt < MaxRetries

\* An event is promised to webhooks that have been created.
PromiseInv ==
    /\ \A p \in promisedTo : webhook[p[1]].state # "none"
    /\ EventNotForgotten

HookInv == /\ HookTypeOK /\ RowsInv /\ QueueInv /\ OnceInv /\ AttemptsInv
           /\ NoOrphanRows /\ PromiseInv

---------------------------------------------------------------------------
(* Requests of administrators and events.                                  *)

\* The bounds are numbers.
LEMMA HookBounds ==
    /\ MaxRetries \in Nat /\ MaxRetries >= 1 /\ Keep \in Nat /\ Keep >= 1
    /\ MaxRows \in Nat /\ MaxAdminOps \in Nat /\ MaxHookCrashes \in Nat
    /\ Matching \subseteq Webhooks \X Events
  BY WebhooksAssumption

\* What only takes rows away, and starts no automatic retry, disturbs none.
LEMMA NoRetryStarted ==
    ASSUME HookInv, deliveries' \subseteq deliveries, lastId' = lastId,
           batch' = batch, flights \subseteq flights',
           \A f \in flights' \ flights :
              /\ f.origin # "batch"
              /\ f.origin \in Automatic => f.attempt < MaxRetries
    PROVE  RowsInv' /\ QueueInv' /\ OnceInv' /\ AttemptsInv'
<1>1. \A f \in flights' : f.origin = "batch" => f \in flights
  OBVIOUS
<1>2. RowsInv'
  BY DEF HookInv, RowsInv
<1>3. QueueInv'
  BY <1>1 DEF HookInv, QueueInv, Sending
<1>4. OnceInv'
  BY <1>1 DEF HookInv, OnceInv
<1>5. AttemptsInv'
  BY DEF HookInv, AttemptsInv, ChainEnds
<1> QED BY <1>2, <1>3, <1>4, <1>5

\* A webhook keeps its promises when nothing under way is taken from it.
LEMMA PromisesKept ==
    ASSUME HookInv, hookCrashes' = hookCrashes, lastId' = lastId,
           batch' = batch, flights \subseteq flights',
           \A p \in promisedTo' : webhook'[p[1]].state # "none",
           \A p \in promisedTo' : HookExists(p[1])' =>
              \/ /\ p \in promisedTo /\ HookExists(p[1])
                 /\ \A d \in deliveries : d.webhook = p[1] => d \in deliveries'
              \/ \E f \in flights' : f.webhook = p[1] /\ f.event = p[2] /\ f.origin \in Automatic
    PROVE  PromiseInv'
<1> SUFFICES ASSUME Undisturbed', NEW p \in promisedTo', HookExists(p[1])'
             PROVE  Underway(p[1], p[2])' \/ EventFinished(p[1], p[2])'
  BY DEF PromiseInv, EventNotForgotten
<1>1. CASE \E f \in flights' : f.webhook = p[1] /\ f.event = p[2] /\ f.origin \in Automatic
  BY <1>1 DEF Underway
<1>2. CASE /\ p \in promisedTo /\ HookExists(p[1])
           /\ \A d \in deliveries : d.webhook = p[1] => d \in deliveries'
  <2>1. Undisturbed
    BY DEF Undisturbed
  <2>2. Underway(p[1], p[2]) \/ EventFinished(p[1], p[2])
    BY <1>2, <2>1 DEF HookInv, PromiseInv, EventNotForgotten
  <2> QED BY <1>2, <2>2 DEF Underway, EventFinished
<1> QED BY <1>1, <1>2

\* POST, PUT and DELETE of /api/webhooks, and the test of one.
LEMMA AdminInv ==
    ASSUME HookInv, NEW w \in Webhooks,
           \/ CreateWebhook(w) \/ DeleteWebhook(w) \/ TestWebhook(w)
           \/ \E enabled, reset \in BOOLEAN : UpdateWebhook(w, enabled, reset)
    PROVE  HookInv'
<1> DEFINE Hook == [state : {"none", "exists", "deleted"}, enabled : BOOLEAN, failures : Nat]
<1>1. /\ HookTypeOK /\ webhook \in [Webhooks -> Hook] /\ deliveries \subseteq DeliveryRows
      /\ promisedTo \subseteq Webhooks \X Events
  BY HookBounds DEF HookInv, HookTypeOK
<1>2. AdminOp => adminOps' \in 0..MaxAdminOps
  <2>1. adminOps \in 0..MaxAdminOps
    BY <1>1 DEF HookTypeOK
  <2> QED BY <2>1, HookBounds DEF AdminOp
<1>3. CASE CreateWebhook(w)
  <2>1. /\ webhook[w].state = "none" /\ w \in Webhooks
        /\ webhook' \in [Webhooks -> Hook] /\ webhook'[w].state = "exists"
        /\ \A v \in Webhooks \ {w} : webhook'[v] = webhook[v]
        /\ UNCHANGED <<deliveries, lastId, flights, batch, fired, promisedTo, adminOps, hookCrashes>>
    BY <1>1, <1>3 DEF CreateWebhook
  <2>2. HookTypeOK'
    BY <1>1, <2>1 DEF HookTypeOK
  <2>3. NoOrphanRows'
    BY <1>1, <2>1 DEF HookInv, NoOrphanRows, HookExists, DeliveryRows
  <2>4. PromiseInv'
    <3>1. \A p \in promisedTo : p[1] \in Webhooks /\ p[1] # w
      BY <1>1, <2>1 DEF HookInv, PromiseInv
    <3>2. \A p \in promisedTo : webhook'[p[1]] = webhook[p[1]]
      BY <2>1, <3>1
    <3> QED BY <2>1, <3>2, PromisesKept DEF HookInv, PromiseInv, HookExists
  <2> QED BY <2>1, <2>2, <2>3, <2>4, NoRetryStarted DEF HookInv
<1>4. CASE DeleteWebhook(w)
  <2>1. /\ HookExists(w) /\ AdminOp
        /\ webhook' \in [Webhooks -> Hook] /\ webhook'[w].state = "deleted"
        /\ \A v \in Webhooks \ {w} : webhook'[v] = webhook[v]
        /\ deliveries' = {d \in deliveries : d.webhook # w}
        /\ UNCHANGED <<lastId, flights, batch, fired, promisedTo, hookCrashes>>
    BY <1>1, <1>4 DEF DeleteWebhook
  <2>2. HookTypeOK'
    BY <1>1, <1>2, <2>1 DEF HookTypeOK
  <2>3. NoOrphanRows'
    BY <1>1, <2>1 DEF HookInv, NoOrphanRows, HookExists, DeliveryRows
  <2>4. PromiseInv'
    <3>1. \A p \in promisedTo : p[1] \in Webhooks
      BY <1>1
    <3>2. \A p \in promisedTo : p[1] # w => webhook'[p[1]] = webhook[p[1]]
      BY <2>1, <3>1
    <3>3. \A p \in promisedTo : webhook'[p[1]].state # "none"
      BY <2>1, <3>2 DEF HookInv, PromiseInv
    <3>4. \A p \in promisedTo' : HookExists(p[1])' =>
             /\ p \in promisedTo /\ HookExists(p[1])
             /\ \A d \in deliveries : d.webhook = p[1] => d \in deliveries'
      BY <2>1, <3>2 DEF HookExists
    <3> QED BY <2>1, <3>3, <3>4, PromisesKept
  <2> QED BY <2>1, <2>2, <2>3, <2>4, NoRetryStarted DEF HookInv
<1>5. CASE TestWebhook(w)
  <2> DEFINE f == Flight(w, "test_ping", 0, 0, "manual")
  <2>1. /\ AdminOp /\ flights' = flights \cup {f}
        /\ UNCHANGED <<webhook, deliveries, lastId, batch, fired, promisedTo, hookCrashes>>
    BY <1>5 DEF TestWebhook
  <2>2. f \in Flights /\ f.origin = "manual"
    BY DEF Flight, Flights, Origins
  <2> HIDE DEF f
  <2>3. HookTypeOK'
    BY <1>1, <1>2, <2>1, <2>2 DEF HookTypeOK
  <2>4. RowsInv' /\ QueueInv' /\ OnceInv' /\ AttemptsInv'
    BY <2>1, <2>2, NoRetryStarted DEF Automatic
  <2>5. PromiseInv'
    BY <2>1, PromisesKept DEF HookInv, PromiseInv, HookExists
  <2> QED BY <2>1, <2>3, <2>4, <2>5 DEF HookInv, NoOrphanRows, HookExists
<1>6. ASSUME NEW enabled \in BOOLEAN, NEW reset \in BOOLEAN, UpdateWebhook(w, enabled, reset)
      PROVE  HookInv'
  <2>1. /\ HookExists(w) /\ AdminOp
        /\ webhook' \in [Webhooks -> Hook]
        /\ \A v \in Webhooks : webhook'[v].state = webhook[v].state
        /\ UNCHANGED <<deliveries, lastId, flights, batch, fired, promisedTo, hookCrashes>>
    <3> DEFINE row == [webhook[w] EXCEPT !.enabled = enabled \/ reset,
                                         !.failures = IF reset THEN 0 ELSE @]
    <3>1. webhook' = [webhook EXCEPT ![w] = row]
      BY <1>1, <1>6 DEF UpdateWebhook
    <3>2. row \in Hook /\ row.state = webhook[w].state
      <4>1. webhook[w] \in Hook
        BY <1>1
      <4>2. (enabled \/ reset) \in BOOLEAN
        OBVIOUS
      <4> QED BY <4>1, <4>2
    <3> HIDE DEF row
    <3>3. /\ HookExists(w) /\ AdminOp
          /\ UNCHANGED <<deliveries, lastId, flights, batch, fired, promisedTo, hookCrashes>>
      BY <1>6 DEF UpdateWebhook
    <3> HIDE DEF Hook
    <3> QED BY <1>1, <3>1, <3>2, <3>3
  <2>2. HookTypeOK'
    BY <1>1, <1>2, <2>1 DEF HookTypeOK
  <2>3. NoOrphanRows'
    BY <1>1, <2>1 DEF HookInv, NoOrphanRows, HookExists, DeliveryRows
  <2>4. PromiseInv'
    <3>1. \A p \in promisedTo : webhook'[p[1]].state = webhook[p[1]].state
      BY <1>1, <2>1
    <3> QED BY <2>1, <3>1, PromisesKept DEF HookInv, PromiseInv, HookExists
  <2> QED BY <2>1, <2>2, <2>3, <2>4, NoRetryStarted DEF HookInv
<1> QED BY <1>3, <1>4, <1>5, <1>6

\* POST /api/webhooks/retry: a manual retry is none of the automatic ones.
LEMMA RetryManuallyInv ==
    ASSUME HookInv, NEW d \in deliveries, RetryManually(d)
    PROVE  HookInv'
<1> DEFINE f == Flight(d.webhook, d.event, d.attempt + 1, d.id, "manual")
<1>1. /\ AdminOp /\ flights' = flights \cup {f}
      /\ UNCHANGED <<webhook, deliveries, lastId, batch, fired, promisedTo, hookCrashes>>
  BY DEF RetryManually
<1>2. f \in Flights /\ f.origin = "manual"
  <2>1. d \in DeliveryRows
    BY DEF HookInv, HookTypeOK
  <2> QED BY <2>1 DEF Flight, Flights, Origins, DeliveryRows
<1> HIDE DEF f
<1>3. adminOps' \in 0..MaxAdminOps
  <2>1. adminOps \in 0..MaxAdminOps
    BY DEF HookInv, HookTypeOK
  <2> QED BY <1>1, <2>1, HookBounds DEF AdminOp
<1>4. HookTypeOK'
  BY <1>1, <1>2, <1>3 DEF HookInv, HookTypeOK
<1>5. RowsInv' /\ QueueInv' /\ OnceInv' /\ AttemptsInv'
  BY <1>1, <1>2, NoRetryStarted DEF Automatic
<1>6. PromiseInv'
  BY <1>1, PromisesKept DEF HookInv, PromiseInv, HookExists
<1> QED BY <1>1, <1>4, <1>5, <1>6 DEF HookInv, NoOrphanRows, HookExists

\* fireWebhooksAsync: whom an event is promised to it is on its way to.
LEMMA FireInv ==
    ASSUME HookInv, NEW e \in Events, Fire(e)
    PROVE  HookInv'
<1> DEFINE targets == {w \in Webhooks : HookExists(w) /\ webhook[w].enabled /\ <<w, e>> \in Matching}
           new(w) == Flight(w, e, 0, 0, "event")
<1>1. /\ flights' = flights \cup {new(w) : w \in targets}
      /\ promisedTo' = promisedTo \cup {<<w, e>> : w \in targets}
      /\ fired' = fired \cup {e}
      /\ UNCHANGED <<webhook, deliveries, lastId, batch, adminOps, hookCrashes>>
  BY DEF Fire
<1>2. \A w \in targets : /\ new(w) \in Flights /\ new(w).origin = "event" /\ new(w).attempt = 0
                         /\ new(w).webhook = w /\ new(w).event = e
                         /\ w \in Webhooks /\ HookExists(w) /\ <<w, e>> \in Matching
  BY DEF Flight, Flights, Origins
<1> HIDE DEF new, targets
<1>3. HookTypeOK'
  <2>1. /\ flights \subseteq Flights /\ promisedTo \subseteq Matching /\ fired \subseteq Events
    BY DEF HookInv, HookTypeOK
  <2>2. flights' \subseteq Flights /\ promisedTo' \subseteq Matching /\ fired' \subseteq Events
    BY <1>1, <1>2, <2>1
  <2> QED BY <1>1, <2>2 DEF HookInv, HookTypeOK
<1>4. RowsInv' /\ QueueInv' /\ OnceInv' /\ AttemptsInv'
  <2>1. \A f \in flights' \ flights : f.origin = "event" /\ f.attempt = 0
    <3> SUFFICES ASSUME NEW f \in flights' \ flights
                 PROVE  f.origin = "event" /\ f.attempt = 0
      OBVIOUS
    <3>1. PICK w \in targets : f = new(w)
      BY <1>1
    <3> QED BY <1>2, <3>1
  <2>2. 0 < MaxRetries
    BY HookBounds
  <2> QED BY <1>1, <2>1, <2>2, NoRetryStarted
<1>5. PromiseInv'
  <2>1. \A p \in promisedTo' : p \in promisedTo \/ \E w \in targets : p = <<w, e>>
    BY <1>1
  <2>2. \A p \in promisedTo' : webhook'[p[1]].state # "none"
    BY <1>1, <1>2, <2>1 DEF HookInv, PromiseInv, HookExists
  <2>3. ASSUME NEW p \in promisedTo', p \notin promisedTo
        PROVE  \E f \in flights' : f.webhook = p[1] /\ f.event = p[2] /\ f.origin \in Automatic
    <3>1. PICK w \in targets : p = <<w, e>>
      BY <2>1, <2>3
    <3>2. new(w) \in flights'
      BY <1>1
    <3>3. new(w).webhook = p[1] /\ new(w).event = p[2] /\ new(w).origin \in Automatic
      BY <1>2, <3>1 DEF Automatic
    <3> QED BY <3>2, <3>3
  <2> QED BY <1>1, <2>2, <2>3, PromisesKept DEF HookExists
<1> QED BY <1>1, <1>3, <1>4, <1>5 DEF HookInv, NoOrphanRows, HookExists

---------------------------------------------------------------------------
(* Sending, retrying and recording.                                        *)

\* The flight of a retry says which row it retries.
LEMMA RetryOfFields ==
    ASSUME NEW d \in DeliveryRows
    PROVE  /\ RetryOf(d) \in Flights /\ RetryOf(d).origin = "batch"
           /\ RetryOf(d).parent = d.id /\ RetryOf(d).attempt = d.attempt + 1
           /\ RetryOf(d).webhook = d.webhook /\ RetryOf(d).event = d.event
  BY DEF RetryOf, Flight, Flights, Origins, DeliveryRows

\* processWebhookRetries: what it unschedules it sends or keeps in its batch.
LEMMA ProcessInv ==
    ASSUME HookInv, NEW due \in SUBSET deliveries, ProcessWebhookRetries(due)
    PROVE  HookInv'
<1> DEFINE clear(d) == IF d \in due THEN [d EXCEPT !.scheduled = FALSE] ELSE d
<1>1. PICK d0 \in due : /\ flights' = flights \cup {RetryOf(d0)}
                        /\ batch' = due \ {d0}
  BY DEF ProcessWebhookRetries
<1>2. /\ ~Sending /\ \A d \in due : d.scheduled
      /\ deliveries' = {clear(d) : d \in deliveries}
      /\ UNCHANGED <<webhook, lastId, fired, promisedTo, adminOps, hookCrashes>>
  BY DEF ProcessWebhookRetries, ClearScheduled
<1>3. batch = {} /\ \A g \in flights : g.origin # "batch"
  BY <1>2 DEF HookInv, QueueInv, Sending
<1>4. deliveries \subseteq DeliveryRows /\ d0 \in DeliveryRows /\ d0 \in deliveries
  BY DEF HookInv, HookTypeOK
<1>5. \A d \in deliveries :
        /\ clear(d) \in DeliveryRows /\ clear(d).id = d.id /\ clear(d).webhook = d.webhook
        /\ clear(d).event = d.event /\ clear(d).attempt = d.attempt
        /\ clear(d).parent = d.parent /\ clear(d).origin = d.origin /\ clear(d).ok = d.ok
        /\ clear(d).scheduled => d.scheduled /\ d \notin due
        /\ d \notin due => clear(d) = d
  <2> SUFFICES ASSUME NEW d \in deliveries
               PROVE  /\ clear(d) \in DeliveryRows /\ clear(d).id = d.id /\ clear(d).webhook = d.webhook
                      /\ clear(d).event = d.event /\ clear(d).attempt = d.attempt
                      /\ clear(d).parent = d.parent /\ clear(d).origin = d.origin /\ clear(d).ok = d.ok
                      /\ clear(d).scheduled => d.scheduled /\ d \notin due
                      /\ d \notin due => clear(d) = d
    OBVIOUS
  <2>1. d \in DeliveryRows
    BY <1>4
  <2> QED BY <2>1 DEF DeliveryRows
<1> HIDE DEF clear
<1>6. \A x \in deliveries' : \E d \in deliveries : x = clear(d)
  BY <1>2
<1>7. \A x \in deliveries' : \E d \in deliveries :
        /\ x = clear(d) /\ x.id = d.id /\ x.webhook = d.webhook /\ x.attempt = d.attempt
        /\ x.parent = d.parent /\ x.origin = d.origin
        /\ x.scheduled => d.scheduled /\ d \notin due
  BY <1>5, <1>6
<1>8. HookTypeOK'
  <2>1. deliveries' \subseteq DeliveryRows
    BY <1>5, <1>6
  <2>2. flights' \subseteq Flights /\ batch' \subseteq DeliveryRows
    BY <1>1, <1>4, RetryOfFields DEF HookInv, HookTypeOK
  <2> QED BY <1>2, <2>1, <2>2 DEF HookInv, HookTypeOK
<1>9. RowsInv'
  <2>1. batch' \subseteq deliveries
    BY <1>1
  <2>2. /\ \A d \in deliveries : d.id \in 1..lastId
        /\ \A d, x \in deliveries : d.id = x.id => d = x
    BY DEF HookInv, RowsInv
  <2>3. \A x, y \in deliveries' : x.id = y.id => x = y
    BY <1>7, <2>2
  <2>4. \A x \in deliveries' : x.id \in 1..lastId
    BY <1>7, <2>2
  <2> QED BY <1>2, <2>1, <2>2, <2>3, <2>4 DEF RowsInv
<1>10. QueueInv'
  <2>1. RetryOf(d0).origin = "batch"
    BY <1>4, RetryOfFields
  <2> QED BY <1>1, <1>3, <2>1 DEF QueueInv, Sending
<1>11. OnceInv'
  <2>1. \A g \in flights' : g.origin = "batch" => g.parent = d0.id
    BY <1>1, <1>3, <1>4, RetryOfFields
  <2>2. /\ \A d \in deliveries : d.id \in 1..lastId
        /\ \A d, x \in deliveries : d.id = x.id => d = x
    BY DEF HookInv, RowsInv
  <2>3. /\ \A x \in deliveries : x.origin = "batch" => x.parent \in 1..lastId
        /\ \A x, y \in deliveries :
             x.origin = "batch" /\ y.origin = "batch" /\ x.parent = y.parent => x = y
        /\ \A d, x \in deliveries : d.scheduled /\ x.origin = "batch" => x.parent # d.id
    BY DEF HookInv, OnceInv
  <2>4. \A b \in batch' : b \in due /\ b # d0 /\ b \in deliveries /\ b.scheduled
    BY <1>1, <1>2
  <2>5. /\ \A f \in flights' : f.origin = "batch" => f.parent \in 1..lastId
        /\ \A x \in deliveries' : x.origin = "batch" => x.parent \in 1..lastId
    BY <1>4, <1>7, <2>1, <2>2, <2>3
  <2>6. \A f \in flights', b \in batch' : f.origin = "batch" => f.parent # b.id
    BY <1>4, <2>1, <2>2, <2>4
  <2>7. \A f \in flights', x \in deliveries' :
           f.origin = "batch" /\ x.origin = "batch" => f.parent # x.parent
    BY <1>2, <1>4, <1>7, <2>1, <2>3
  <2>8. \A b \in batch', x \in deliveries' : x.origin = "batch" => x.parent # b.id
    BY <1>7, <2>3, <2>4
  <2>9. \A x, y \in deliveries' :
          x.origin = "batch" /\ y.origin = "batch" /\ x.parent = y.parent => x = y
    BY <1>7, <2>3
  <2>10. \A d, x \in deliveries' : d.scheduled /\ x.origin = "batch" => x.parent # d.id
    BY <1>7, <2>3
  <2>11. \A d \in deliveries', f \in flights' :
           d.scheduled /\ f.origin = "batch" => f.parent # d.id
    BY <1>4, <1>7, <2>1, <2>2
  <2>12. \A d \in deliveries', b \in batch' : d.scheduled => b.id # d.id
    BY <1>7, <2>2, <2>4
  <2> QED BY <1>2, <2>5, <2>6, <2>7, <2>8, <2>9, <2>10, <2>11, <2>12 DEF OnceInv
<1>12. AttemptsInv'
  <2>1. /\ \A d \in deliveries : d.origin \in Automatic => d.attempt < MaxRetries
        /\ \A d \in deliveries : d.scheduled => d.attempt < MaxRetries - 1
        /\ \A f \in flights : f.origin \in Automatic => f.attempt < MaxRetries
    BY DEF HookInv, AttemptsInv, ChainEnds
  <2>2. \A x \in deliveries' : /\ x.origin \in Automatic => x.attempt < MaxRetries
                               /\ x.scheduled => x.attempt < MaxRetries - 1
    BY <1>7, <2>1
  <2>3. \A b \in batch' : b.attempt < MaxRetries - 1
    BY <1>1, <1>2, <2>1
  <2>4. RetryOf(d0).attempt < MaxRetries
    <3>1. d0.attempt \in Nat /\ d0.attempt < MaxRetries - 1
      BY <1>2, <1>4, <2>1 DEF DeliveryRows
    <3>2. RetryOf(d0).attempt = d0.attempt + 1
      BY <1>4, RetryOfFields
    <3> QED BY <3>1, <3>2, HookBounds
  <2>5. \A f \in flights' : f.origin \in Automatic => f.attempt < MaxRetries
    BY <1>1, <2>1, <2>4
  <2> QED BY <2>2, <2>3, <2>5 DEF AttemptsInv, ChainEnds
<1>13. NoOrphanRows'
  BY <1>2, <1>7 DEF HookInv, NoOrphanRows, HookExists
<1>14. PromiseInv'
  <2>1. \A p \in promisedTo' : webhook'[p[1]].state # "none"
    BY <1>2 DEF HookInv, PromiseInv
  <2> SUFFICES ASSUME Undisturbed', NEW p \in promisedTo', HookExists(p[1])'
               PROVE  Underway(p[1], p[2])' \/ EventFinished(p[1], p[2])'
    BY <2>1 DEF PromiseInv, EventNotForgotten
  <2>2. Underway(p[1], p[2]) \/ EventFinished(p[1], p[2])
    BY <1>2 DEF HookInv, PromiseInv, EventNotForgotten, Undisturbed, HookExists
  <2>3. CASE \E f \in flights : f.webhook = p[1] /\ f.event = p[2] /\ f.origin \in Automatic
    BY <1>1, <2>3 DEF Underway
  <2>4. ASSUME NEW d \in deliveries, d.webhook = p[1], d.event = p[2], d.scheduled
        PROVE  Underway(p[1], p[2])'
    <3>1. CASE d = d0
      <4>1. /\ RetryOf(d0) \in flights' /\ RetryOf(d0).origin \in Automatic
            /\ RetryOf(d0).webhook = p[1] /\ RetryOf(d0).event = p[2]
        BY <1>1, <1>4, <2>4, <3>1, RetryOfFields DEF Automatic
      <4> QED BY <4>1 DEF Underway
    <3>2. CASE d # d0 /\ d \in due
      BY <1>1, <2>4, <3>2 DEF Underway
    <3>3. CASE d \notin due
      <4>1. d \in deliveries'
        BY <1>2, <1>5, <3>3
      <4> QED BY <2>4, <4>1 DEF Underway
    <3> QED BY <3>1, <3>2, <3>3
  <2>5. CASE EventFinished(p[1], p[2])
    <3>1. PICK d \in deliveries : /\ d.webhook = p[1] /\ d.event = p[2] /\ d.origin \in Automatic
                                  /\ d.ok \/ d.attempt = MaxRetries - 1
      BY <2>5 DEF EventFinished
    <3>2. clear(d) \in deliveries'
      BY <1>2
    <3> QED BY <1>5, <3>1, <3>2 DEF EventFinished
  <2> QED BY <1>3, <2>2, <2>3, <2>4, <2>5 DEF Underway
<1> QED BY <1>8, <1>9, <1>10, <1>11, <1>12, <1>13, <1>14 DEF HookInv

\* As long as no more than Keep rows were written, pruning deletes none.
LEMMA NothingPruned ==
    ASSUME NEW rs, NEW w, \A x \in rs : x.id \in 1..Keep,
           \A x, y \in rs : x.id = y.id => x = y
    PROVE  PruneDeliveries(w, rs) = rs
<1> SUFFICES ASSUME NEW d \in rs
             PROVE  Cardinality({x \in rs : x.webhook = w /\ x.id > d.id}) < Keep
  BY DEF PruneDeliveries, Newest
<1> DEFINE newer == {x \in rs : x.webhook = w /\ x.id > d.id}
           ids == (d.id + 1)..Keep
           f == [x \in newer |-> x.id]
<1>1. d.id \in Nat /\ d.id >= 1 /\ d.id <= Keep /\ Keep \in Nat
  BY HookBounds
<1>2. IsFiniteSet(ids) /\ Cardinality(ids) = Keep - d.id
  <2>1. d.id + 1 \in Int /\ Keep \in Int
    BY <1>1
  <2>2. /\ IsFiniteSet(ids)
        /\ Cardinality(ids) = IF d.id + 1 > Keep THEN 0 ELSE Keep - (d.id + 1) + 1
    BY <2>1, FS_Interval
  <2> QED BY <1>1, <2>2
<1>3. f \in Injection(newer, ids)
  <2>1. \A x \in newer : x.id \in ids
    BY <1>1
  <2>2. f \in [newer -> ids]
    BY <2>1
  <2>3. \A x, y \in newer : f[x] = f[y] => x = y
    OBVIOUS
  <2> HIDE DEF f, newer, ids
  <2> QED BY <2>2, <2>3 DEF Injection, IsInjective
<1>4. IsFiniteSet(newer) /\ Cardinality(newer) <= Cardinality(ids)
  <2> HIDE DEF f, newer, ids
  <2> QED BY <1>2, <1>3, FS_Injection
<1>5. Cardinality(newer) \in Nat
  <2> HIDE DEF newer
  <2> QED BY <1>4, FS_CardinalityType
<1> HIDE DEF newer, ids
<1>6. Cardinality(newer) < Keep
  BY <1>1, <1>2, <1>4, <1>5
<1> QED BY <1>6 DEF newer

\* What deliverWebhook writes: at most one row, with an id of its own.
RowOf(f, ok) ==
    [id |-> lastId + 1, webhook |-> f.webhook, event |-> f.event,
     attempt |-> f.attempt, parent |-> f.parent, origin |-> f.origin,
     ok |-> ok, scheduled |-> Reschedules(f, ok)]

\* The columns of that row.
LEMMA RowOfFields ==
    ASSUME HookInv, NEW f \in flights, NEW ok \in BOOLEAN
    PROVE  /\ RowOf(f, ok) \in DeliveryRows /\ RowOf(f, ok).id = lastId + 1
           /\ RowOf(f, ok).webhook = f.webhook /\ RowOf(f, ok).event = f.event
           /\ RowOf(f, ok).attempt = f.attempt /\ RowOf(f, ok).parent = f.parent
           /\ RowOf(f, ok).origin = f.origin /\ RowOf(f, ok).ok = ok
           /\ RowOf(f, ok).scheduled = Reschedules(f, ok)
           /\ f \in Flights /\ f.webhook \in Webhooks /\ lastId \in Nat
<1>1. f \in Flights /\ lastId \in Nat
  BY HookBounds DEF HookInv, HookTypeOK
<1>2. Reschedules(f, ok) \in BOOLEAN
  BY DEF Reschedules
<1> QED BY <1>1, <1>2 DEF RowOf, Flights, DeliveryRows

\* The rows, the counter of ids and the webhook after the bookkeeping.
LEMMA Bookkeeping ==
    ASSUME HookInv, NEW f \in flights, NEW ok \in BOOLEAN, Settle(f, ok)
    PROVE  /\ deliveries' \subseteq deliveries \cup {RowOf(f, ok)}
           /\ lastId' \in 0..MaxRows /\ (lastId' = lastId \/ lastId' = lastId + 1)
           /\ RowOf(f, ok) \in deliveries' => lastId' = lastId + 1 /\ HookExists(f.webhook)
           /\ HookExists(f.webhook) /\ lastId' <= Keep
                => deliveries' = deliveries \cup {RowOf(f, ok)}
           /\ ~HookExists(f.webhook) => deliveries' = deliveries
           /\ webhook' \in [Webhooks -> [state : {"none", "exists", "deleted"},
                                         enabled : BOOLEAN, failures : Nat]]
           /\ \A w \in Webhooks : webhook'[w].state = webhook[w].state
<1> DEFINE row == RowOf(f, ok)
           Hook == [state : {"none", "exists", "deleted"}, enabled : BOOLEAN, failures : Nat]
<1>1. /\ lastId \in 0..MaxRows /\ webhook \in [Webhooks -> Hook] /\ MaxRows \in Nat
      /\ \A d \in deliveries : d.id \in 1..lastId
      /\ \A d, x \in deliveries : d.id = x.id => d = x
  BY HookBounds DEF HookInv, HookTypeOK, RowsInv
<1>2. row.id = lastId + 1 /\ f.webhook \in Webhooks /\ f \in Flights /\ row \notin deliveries
  <2>1. row.id = lastId + 1 /\ f.webhook \in Webhooks /\ f \in Flights
    BY RowOfFields
  <2> HIDE DEF row
  <2> QED BY <1>1, <2>1
<1>3. CASE Record(f, ok)
  <2>1. /\ HookExists(f.webhook) /\ lastId < MaxRows /\ lastId' = lastId + 1
        /\ deliveries' = PruneDeliveries(f.webhook, deliveries \cup {row})
        /\ webhook' = [webhook EXCEPT ![f.webhook] = Counted(webhook[f.webhook], f, ok)]
    BY <1>3 DEF Record, Inserts, RowOf
  <2> HIDE DEF row
  <2>2. deliveries' \subseteq deliveries \cup {row}
    BY <2>1 DEF PruneDeliveries
  <2>3. lastId' <= Keep => deliveries' = deliveries \cup {row}
    <3> SUFFICES ASSUME lastId + 1 <= Keep
                 PROVE  PruneDeliveries(f.webhook, deliveries \cup {row}) = deliveries \cup {row}
      BY <2>1
    <3> DEFINE rs == deliveries \cup {row}
    <3>1. \A x \in rs : x.id \in 1..Keep
      BY <1>1, <1>2, HookBounds
    <3>2. \A x, y \in rs : x.id = y.id => x = y
      BY <1>1, <1>2
    <3> HIDE DEF rs
    <3>3. PruneDeliveries(f.webhook, rs) = rs
      BY <3>1, <3>2, NothingPruned
    <3> QED BY <3>3 DEF rs
  <2>4. /\ Counted(webhook[f.webhook], f, ok) \in Hook
        /\ Counted(webhook[f.webhook], f, ok).state = webhook[f.webhook].state
    <3> DEFINE h == webhook[f.webhook]
    <3>1. h \in Hook
      BY <1>1, <1>2
    <3> HIDE DEF h
    <3>2. Counted(h, f, ok) \in Hook /\ Counted(h, f, ok).state = h.state
      <4> DEFINE up == h.failures + 1
                 on == h.enabled /\ (\/ f.attempt < MaxRetries - 1
                                     \/ h.failures + 1 < MaxRetries)
      <4>1. up \in Nat /\ on \in BOOLEAN
        BY <3>1
      <4>2. Counted(h, f, ok) \in {h, [h EXCEPT !.failures = 0],
                                      [h EXCEPT !.failures = up, !.enabled = on]}
        BY <3>1 DEF Counted
      <4> HIDE DEF up, on
      <4>3. /\ [h EXCEPT !.failures = 0] \in Hook /\ [h EXCEPT !.failures = 0].state = h.state
            /\ [h EXCEPT !.failures = up, !.enabled = on] \in Hook
            /\ [h EXCEPT !.failures = up, !.enabled = on].state = h.state
        BY <3>1, <4>1
      <4> HIDE DEF Hook
      <4> QED BY <3>1, <4>2, <4>3
    <3> QED BY <3>2 DEF h
  <2> DEFINE counted == Counted(webhook[f.webhook], f, ok)
  <2>5. /\ webhook' \in [Webhooks -> Hook]
        /\ \A w \in Webhooks : webhook'[w].state = webhook[w].state
    <3> HIDE DEF counted, Hook
    <3>1. webhook' = [webhook EXCEPT ![f.webhook] = counted]
      BY <2>1 DEF counted
    <3>2. counted \in Hook /\ counted.state = webhook[f.webhook].state
      BY <2>4 DEF counted
    <3> QED BY <1>1, <1>2, <3>1, <3>2
  <2>6. lastId' \in 0..MaxRows
    BY <1>1, <2>1
  <2> QED BY <2>1, <2>2, <2>3, <2>5, <2>6 DEF row
<1>4. CASE ~Inserts(f) /\ UNCHANGED <<deliveries, lastId, webhook>>
  <2> HIDE DEF row
  <2>1. ~HookExists(f.webhook)
    BY <1>4 DEF Inserts
  <2> QED BY <1>1, <1>2, <1>4, <2>1 DEF row
<1> QED BY <1>3, <1>4 DEF Settle

\* The call returns: its row is recorded, and the retry task goes on.
LEMMA SettleInv ==
    ASSUME HookInv, NEW f \in flights, NEW ok \in BOOLEAN, Settle(f, ok)
    PROVE  HookInv'
<1> DEFINE row == RowOf(f, ok)
           Hook == [state : {"none", "exists", "deleted"}, enabled : BOOLEAN, failures : Nat]
<1>1. /\ deliveries' \subseteq deliveries \cup {row}
      /\ lastId' \in 0..MaxRows /\ (lastId' = lastId \/ lastId' = lastId + 1)
      /\ row \in deliveries' => lastId' = lastId + 1 /\ HookExists(f.webhook)
      /\ HookExists(f.webhook) /\ lastId' <= Keep => deliveries' = deliveries \cup {row}
      /\ ~HookExists(f.webhook) => deliveries' = deliveries
      /\ webhook' \in [Webhooks -> Hook]
      /\ \A w \in Webhooks : webhook'[w].state = webhook[w].state
      /\ UNCHANGED <<fired, promisedTo, adminOps, hookCrashes>>
  BY Bookkeeping DEF Settle
<1>2. /\ row \in DeliveryRows /\ row.id = lastId + 1 /\ row.webhook = f.webhook
      /\ row.event = f.event /\ row.attempt = f.attempt /\ row.parent = f.parent
      /\ row.origin = f.origin /\ row.ok = ok /\ row.scheduled = Reschedules(f, ok)
      /\ f \in Flights /\ f.webhook \in Webhooks /\ lastId \in Nat
  BY RowOfFields
<1> HIDE DEF row, Hook
<1>3. PICK next \in SUBSET batch :
        /\ flights' = (flights \ {f}) \cup {RetryOf(b) : b \in next}
        /\ batch' = batch \ next
        /\ \A a, b \in next : a = b
        /\ next # {} => f.origin = "batch"
        /\ f.origin = "batch" /\ next = {} => batch = {}
  <2>1. CASE f.origin = "batch" /\ batch # {}
    <3>1. PICK d \in batch : /\ flights' = (flights \ {f}) \cup {RetryOf(d)}
                             /\ batch' = batch \ {d}
      BY <2>1 DEF Settle
    <3>2. {RetryOf(b) : b \in {d}} = {RetryOf(d)}
      OBVIOUS
    <3> WITNESS {d} \in SUBSET batch
    <3> QED BY <2>1, <3>1, <3>2
  <2>2. CASE ~(f.origin = "batch" /\ batch # {})
    <3>1. flights' = flights \ {f} /\ batch' = batch
      BY <2>2 DEF Settle
    <3> WITNESS {} \in SUBSET batch
    <3> QED BY <2>2, <3>1
  <2> QED BY <2>1, <2>2
<1>4. \A b \in next : /\ b \in batch /\ RetryOf(b) \in flights' /\ RetryOf(b) \in Flights
                      /\ RetryOf(b).origin = "batch" /\ RetryOf(b).parent = b.id
                      /\ RetryOf(b).attempt = b.attempt + 1
                      /\ RetryOf(b).webhook = b.webhook /\ RetryOf(b).event = b.event
  BY <1>3, RetryOfFields DEF HookInv, HookTypeOK
<1>5. \A g \in flights' : \/ g \in flights /\ g # f
                          \/ \E b \in next : g = RetryOf(b)
  BY <1>3
<1>6. \A g \in flights' : g.origin = "batch" =>
         \/ g \in flights /\ f.origin # "batch"
         \/ f.origin = "batch" /\ \E b \in next : g = RetryOf(b) /\ g.parent = b.id
  BY <1>3, <1>4, <1>5 DEF HookInv, QueueInv
<1>7. HookTypeOK'
  <2>1. deliveries' \subseteq DeliveryRows
    BY <1>1, <1>2 DEF HookInv, HookTypeOK
  <2>2. flights' \subseteq Flights
    BY <1>4, <1>5 DEF HookInv, HookTypeOK
  <2>3. batch' \subseteq DeliveryRows
    BY <1>3 DEF HookInv, HookTypeOK
  <2> QED BY <1>1, <2>1, <2>2, <2>3 DEF HookInv, HookTypeOK, Hook
<1>8. RowsInv'
  <2>1. /\ \A d \in deliveries : d.id \in 1..lastId
        /\ \A d, x \in deliveries : d.id = x.id => d = x
        /\ \A b \in batch : b.id \in 1..lastId
        /\ \A b, c \in batch : b.id = c.id => b = c
    BY DEF HookInv, RowsInv
  <2>2. /\ \A d \in deliveries : d.id \in 1..lastId' /\ d.id # lastId + 1
        /\ \A b \in batch : b.id \in 1..lastId'
    BY <1>1, <1>2, <2>1
  <2>3. row \in deliveries' => row.id \in 1..lastId'
    BY <1>1, <1>2
  <2>4. /\ \A d \in deliveries' : d.id \in 1..lastId'
        /\ \A d, x \in deliveries' : d.id = x.id => d = x
    BY <1>1, <1>2, <2>1, <2>2, <2>3
  <2> QED BY <1>3, <2>1, <2>2, <2>4 DEF RowsInv
<1>9. QueueInv'
  <2>1. \A g, k \in flights' : g.origin = "batch" /\ k.origin = "batch" => g = k
    BY <1>3, <1>6 DEF HookInv, QueueInv
  <2>2. batch' # {} => \E g \in flights' : g.origin = "batch"
    <3> SUFFICES ASSUME batch' # {}
                 PROVE  \E g \in flights' : g.origin = "batch"
      OBVIOUS
    <3>1. CASE f.origin = "batch"
      BY <1>3, <1>4, <3>1
    <3>2. CASE f.origin # "batch"
      <4>1. PICK g \in flights : g.origin = "batch"
        BY <1>3 DEF HookInv, QueueInv, Sending
      <4> QED BY <1>3, <3>2, <4>1
    <3> QED BY <3>1, <3>2
  <2> QED BY <2>1, <2>2 DEF QueueInv, Sending
<1>10. OnceInv'
  <2>1. \A b \in batch : b.id \in 1..lastId
    BY DEF HookInv, RowsInv
  <2>2. /\ \A g \in flights : g.origin = "batch" => g.parent \in 1..lastId
        /\ \A x \in deliveries : x.origin = "batch" => x.parent \in 1..lastId
    BY DEF HookInv, OnceInv
  <2>3. /\ \A n \in 1..lastId : n \in 1..lastId' /\ n # lastId + 1
    BY <1>1, <1>2
  <2>4. /\ \A g \in flights, b \in batch : g.origin = "batch" => g.parent # b.id
        /\ \A g \in flights, x \in deliveries :
             g.origin = "batch" /\ x.origin = "batch" => g.parent # x.parent
        /\ \A b \in batch, x \in deliveries : x.origin = "batch" => x.parent # b.id
        /\ \A x, y \in deliveries :
             x.origin = "batch" /\ y.origin = "batch" /\ x.parent = y.parent => x = y
    BY DEF HookInv, OnceInv
  <2>5. /\ \A d, x \in deliveries : d.scheduled /\ x.origin = "batch" => x.parent # d.id
        /\ \A d \in deliveries, g \in flights :
             d.scheduled /\ g.origin = "batch" => g.parent # d.id
        /\ \A d \in deliveries, b \in batch : d.scheduled => b.id # d.id
    BY DEF HookInv, OnceInv
  <2>6. \A x \in deliveries' : x \in deliveries \/ x = row
    BY <1>1
  <2>7. batch' \subseteq batch /\ \A b \in batch' : b \notin next
    BY <1>3
  <2>8. /\ \A g \in flights' : g.origin = "batch" => g.parent \in 1..lastId
        /\ \A x \in deliveries' : x.origin = "batch" => x.parent \in 1..lastId
    BY <1>2, <1>4, <1>6, <2>1, <2>2, <2>6
  <2>9. \A g \in flights', b \in batch' : g.origin = "batch" => g.parent # b.id
    <3>1. \A b, c \in batch : b.id = c.id => b = c
      BY DEF HookInv, RowsInv
    <3> QED BY <1>4, <1>6, <2>4, <2>7, <3>1
  <2>10. \A g \in flights', x \in deliveries' :
           g.origin = "batch" /\ x.origin = "batch" => g.parent # x.parent
    BY <1>2, <1>4, <1>6, <2>4, <2>6
  <2>11. \A b \in batch', x \in deliveries' : x.origin = "batch" => x.parent # b.id
    BY <1>2, <2>4, <2>6, <2>7
  <2>12. \A x, y \in deliveries' :
           x.origin = "batch" /\ y.origin = "batch" /\ x.parent = y.parent => x = y
    BY <1>2, <2>4, <2>6
  <2>13. \A d, x \in deliveries' : d.scheduled /\ x.origin = "batch" => x.parent # d.id
    BY <1>2, <2>2, <2>3, <2>5, <2>6
  <2>14. \A d \in deliveries', g \in flights' :
           d.scheduled /\ g.origin = "batch" => g.parent # d.id
    BY <1>2, <1>4, <1>6, <2>3, <2>5, <2>6, <2>8
  <2>15. \A d \in deliveries', b \in batch' : d.scheduled => b.id # d.id
    BY <1>2, <2>1, <2>3, <2>5, <2>6, <2>7
  <2> QED BY <2>3, <2>8, <2>9, <2>10, <2>11, <2>12, <2>13, <2>14, <2>15 DEF OnceInv
<1>11. AttemptsInv'
  <2>1. /\ \A d \in deliveries : d.origin \in Automatic => d.attempt < MaxRetries
        /\ \A d \in deliveries : d.scheduled => d.attempt < MaxRetries - 1
        /\ \A b \in batch : b.attempt < MaxRetries - 1
        /\ \A g \in flights : g.origin \in Automatic => g.attempt < MaxRetries
    BY DEF HookInv, AttemptsInv, ChainEnds
  <2>2. row.scheduled => row.attempt < MaxRetries - 1
    BY <1>2 DEF Reschedules
  <2>3. \A d \in deliveries' : /\ d.origin \in Automatic => d.attempt < MaxRetries
                               /\ d.scheduled => d.attempt < MaxRetries - 1
    BY <1>1, <1>2, <2>1, <2>2
  <2>4. \A b \in next : RetryOf(b).attempt < MaxRetries
    <3>1. \A b \in batch : b.attempt \in Nat
      BY DEF HookInv, HookTypeOK, DeliveryRows
    <3> QED BY <1>4, <2>1, <3>1, HookBounds
  <2>5. \A g \in flights' : g.origin \in Automatic => g.attempt < MaxRetries
    BY <1>5, <2>1, <2>4
  <2> QED BY <1>3, <2>1, <2>3, <2>5 DEF AttemptsInv, ChainEnds
<1>12. \A w \in Webhooks : HookExists(w)' = HookExists(w)
  BY <1>1 DEF HookExists
<1>13. NoOrphanRows'
  <2>1. \A d \in deliveries : d.webhook \in Webhooks /\ HookExists(d.webhook)
    BY DEF HookInv, HookTypeOK, NoOrphanRows, DeliveryRows
  <2> QED BY <1>1, <1>2, <1>12, <2>1 DEF NoOrphanRows
<1>14. PromiseInv'
  <2>1. \A p \in promisedTo : p[1] \in Webhooks /\ p \in promisedTo'
    BY <1>1, HookBounds DEF HookInv, HookTypeOK
  <2>2. \A p \in promisedTo' : webhook'[p[1]].state # "none"
    BY <1>1, <2>1 DEF HookInv, PromiseInv
  <2> SUFFICES ASSUME Undisturbed', NEW p \in promisedTo', HookExists(p[1])'
               PROVE  Underway(p[1], p[2])' \/ EventFinished(p[1], p[2])'
    BY <2>2 DEF PromiseInv, EventNotForgotten
  <2>3. lastId' <= Keep /\ Undisturbed /\ HookExists(p[1]) /\ p \in promisedTo
    BY <1>1, <1>2, <1>12, <2>1, HookBounds DEF Undisturbed
  <2>4. Underway(p[1], p[2]) \/ EventFinished(p[1], p[2])
    BY <2>3 DEF HookInv, PromiseInv, EventNotForgotten
  <2>5. deliveries \subseteq deliveries'
    BY <1>1, <2>3
  <2>6. ASSUME NEW g \in flights, g.webhook = p[1], g.event = p[2], g.origin \in Automatic
        PROVE  Underway(p[1], p[2])' \/ EventFinished(p[1], p[2])'
    <3>1. CASE g # f
      BY <1>3, <2>6, <3>1 DEF Underway
    <3>2. CASE g = f
      <4>1. row \in deliveries'
        BY <1>1, <2>3, <2>6, <3>2
      <4>2. CASE Reschedules(f, ok)
        BY <1>2, <2>6, <3>2, <4>1, <4>2 DEF Underway
      <4>3. CASE ~Reschedules(f, ok)
        <5>1. f.attempt < MaxRetries /\ f.attempt \in Nat /\ f.origin # "manual"
          BY <1>2, <2>6, <3>2 DEF HookInv, AttemptsInv, Flights, Automatic
        <5>2. ok \/ f.attempt = MaxRetries - 1
          BY <4>3, <5>1, HookBounds DEF Reschedules
        <5> QED BY <1>2, <2>6, <3>2, <4>1, <5>2 DEF EventFinished
      <4> QED BY <4>2, <4>3
    <3> QED BY <3>1, <3>2
  <2>7. ASSUME NEW b \in batch, b.webhook = p[1], b.event = p[2]
        PROVE  Underway(p[1], p[2])'
    <3>1. CASE b \in next
      <4>1. RetryOf(b).origin \in Automatic
        BY <1>4, <3>1 DEF Automatic
      <4> QED BY <1>4, <2>7, <3>1, <4>1 DEF Underway
    <3>2. CASE b \notin next
      BY <1>3, <2>7, <3>2 DEF Underway
    <3> QED BY <3>1, <3>2
  <2>8. CASE \E d \in deliveries : d.webhook = p[1] /\ d.event = p[2] /\ d.scheduled
    BY <2>5, <2>8 DEF Underway
  <2>9. CASE EventFinished(p[1], p[2])
    BY <2>5, <2>9 DEF EventFinished
  <2> QED BY <2>4, <2>6, <2>7, <2>8, <2>9 DEF Underway
<1> QED BY <1>7, <1>8, <1>9, <1>10, <1>11, <1>13, <1>14 DEF HookInv

\* A crash: what was under way is lost, what was recorded stays.
LEMMA HookCrashInv ==
    ASSUME HookInv, HookServerCrash
    PROVE  HookInv'
<1>1. /\ hookCrashes < MaxHookCrashes /\ hookCrashes' = hookCrashes + 1
      /\ flights' = {} /\ batch' = {}
      /\ UNCHANGED <<webhook, deliveries, lastId, fired, promisedTo, adminOps>>
  BY DEF HookServerCrash
<1>2. hookCrashes' \in 0..MaxHookCrashes /\ hookCrashes' # 0
  <2>1. hookCrashes \in 0..MaxHookCrashes
    BY DEF HookInv, HookTypeOK
  <2> QED BY <1>1, <2>1, HookBounds
<1>3. HookTypeOK'
  BY <1>1, <1>2 DEF HookInv, HookTypeOK
<1>4. RowsInv' /\ QueueInv'
  BY <1>1 DEF HookInv, RowsInv, QueueInv
<1>5. OnceInv'
  BY <1>1 DEF HookInv, OnceInv
<1>6. AttemptsInv' /\ NoOrphanRows'
  BY <1>1 DEF HookInv, AttemptsInv, ChainEnds, NoOrphanRows, HookExists
<1>7. PromiseInv'
  BY <1>1, <1>2 DEF HookInv, PromiseInv, EventNotForgotten, Undisturbed
<1> QED BY <1>3, <1>4, <1>5, <1>6, <1>7 DEF HookInv

---------------------------------------------------------------------------
(* The theorems about webhooks.                                            *)

\* An empty table has nothing to keep.
LEMMA HookInitInv == HookInit => HookInv
<1> SUFFICES ASSUME HookInit
             PROVE  HookInv
  OBVIOUS
<1>1. /\ webhook = [w \in Webhooks |-> [state |-> "none", enabled |-> FALSE, failures |-> 0]]
      /\ deliveries = {} /\ lastId = 0 /\ flights = {} /\ batch = {}
      /\ fired = {} /\ promisedTo = {} /\ adminOps = 0 /\ hookCrashes = 0
  BY DEF HookInit
<1>2. HookTypeOK
  <2>1. lastId \in 0..MaxRows /\ adminOps \in 0..MaxAdminOps /\ hookCrashes \in 0..MaxHookCrashes
    BY <1>1, HookBounds
  <2>2. webhook \in [Webhooks -> [state : {"none", "exists", "deleted"},
                                  enabled : BOOLEAN, failures : Nat]]
    BY <1>1
  <2> QED BY <1>1, <2>1, <2>2 DEF HookTypeOK
<1> QED BY <1>1, <1>2 DEF HookInv, RowsInv, QueueInv, OnceInv, AttemptsInv, ChainEnds,
                          NoOrphanRows, PromiseInv, EventNotForgotten

\* Every request, event, retry and crash preserves the invariant.
LEMMA HookNextInv == HookInv /\ [HookNext]_hookVars => HookInv'
<1> SUFFICES ASSUME HookInv, [HookNext]_hookVars
             PROVE  HookInv'
  OBVIOUS
<1>1. CASE Admin
  BY <1>1, AdminInv DEF Admin
<1>2. CASE UNCHANGED hookVars
  <2>1. UNCHANGED <<webhook, deliveries, lastId, flights, batch, fired, promisedTo,
                    adminOps, hookCrashes>>
    BY <1>2 DEF hookVars
  <2>2. HookTypeOK' /\ RowsInv' /\ OnceInv'
    BY <2>1 DEF HookInv, HookTypeOK, RowsInv, OnceInv
  <2>3. QueueInv' /\ AttemptsInv' /\ NoOrphanRows'
    BY <2>1 DEF HookInv, QueueInv, Sending, AttemptsInv, ChainEnds, NoOrphanRows, HookExists
  <2>4. PromiseInv'
    BY <2>1 DEF HookInv, PromiseInv, EventNotForgotten, Undisturbed, HookExists, Underway,
                EventFinished
  <2> QED BY <2>2, <2>3, <2>4 DEF HookInv
<1> QED BY <1>1, <1>2, RetryManuallyInv, FireInv, ProcessInv, SettleInv, HookCrashInv
        DEF HookNext

\* Retries that exclude each other are at most one.
LEMMA RetryOnceImplied == HookInv => RetriedOnce
<1> SUFFICES ASSUME HookInv, NEW d \in deliveries
             PROVE  LET sent == {x \in deliveries : x.parent = d.id /\ x.origin = "batch"}
                        going == {f \in flights : f.parent = d.id /\ f.origin = "batch"}
                        waiting == {b \in batch : b.id = d.id}
                    IN  Cardinality(sent) + Cardinality(going) + Cardinality(waiting)
                          <= IF d.scheduled THEN 0 ELSE 1
  BY DEF RetriedOnce
<1> DEFINE sent == {x \in deliveries : x.parent = d.id /\ x.origin = "batch"}
           going == {f \in flights : f.parent = d.id /\ f.origin = "batch"}
           waiting == {b \in batch : b.id = d.id}
<1>1. /\ \A x, y \in sent : x = y
      /\ \A f, g \in going : f = g
      /\ \A b, c \in waiting : b = c
  BY DEF HookInv, OnceInv, QueueInv, RowsInv
<1>2. /\ sent # {} => going = {} /\ waiting = {}
      /\ going # {} => waiting = {}
      /\ d.scheduled => sent = {} /\ going = {} /\ waiting = {}
  BY DEF HookInv, OnceInv
<1> HIDE DEF sent, going, waiting
<1>3. ASSUME NEW S, \A x, y \in S : x = y
      PROVE  Cardinality(S) = IF S = {} THEN 0 ELSE 1
  <2>1. CASE S = {}
    BY <2>1, FS_EmptySet
  <2>2. CASE S # {}
    <3>1. PICK x \in S : TRUE
      BY <2>2
    <3>2. S = {x}
      BY <1>3, <3>1
    <3> QED BY <2>2, <3>2, FS_Singleton
  <2> QED BY <2>1, <2>2
<1>4. /\ Cardinality(sent) = IF sent = {} THEN 0 ELSE 1
      /\ Cardinality(going) = IF going = {} THEN 0 ELSE 1
      /\ Cardinality(waiting) = IF waiting = {} THEN 0 ELSE 1
  BY <1>1, <1>3
<1>5. Cardinality(sent) + Cardinality(going) + Cardinality(waiting)
        <= IF d.scheduled THEN 0 ELSE 1
  BY <1>2, <1>4
<1> QED BY <1>5 DEF sent, going, waiting

\* Rows, suspended calls and the retry batch fit each other in every reachable
\* state.
THEOREM HookInvHolds == HookSpec => []HookInv
<1> QED BY HookInitInv, HookNextInv, PTL DEF HookSpec

\* However events, retries, administrators, deletions and crashes interleave:
\* a delivery is retried automatically once, chains end after MAX_RETRIES, no row
\* outlives its webhook, and no event is forgotten while the server stays up.
THEOREM WebhooksCorrect == HookSpec => []HookSafe
<1>1. HookInv => HookSafe
  BY RetryOnceImplied DEF HookInv, HookSafe, AttemptsInv, PromiseInv
<1> QED BY <1>1, HookInvHolds, PTL

(***************************************************************************)
(* Notifications: the inductive invariant.                                 *)
(***************************************************************************)

BatchEntries == [id : 1..MaxNotes, key : BOOLEAN]
DeliveryStates == [pc : {"idle", "next", "sending"}, batch : SUBSET BatchEntries, dry : BOOLEAN]

NoteTypeInv ==
    /\ lastNote \in 0..MaxNotes
    /\ DOMAIN notes \subseteq 1..lastNote
    /\ notes \in [DOMAIN notes -> [to : Recipients, delivered : BOOLEAN]]
    /\ received \in [1..MaxNotes -> Nat]
    /\ delivery \in [Callers -> DeliveryStates]
    /\ disturbed \in BOOLEAN

\* A running delivery has a row in hand, each of its rows once, and sends
\* nothing in a dry run.
BatchInv(c) ==
    /\ Running(c) => delivery[c].batch # {}
    /\ delivery[c].pc = "sending" => ~delivery[c].dry
    /\ \A r \in delivery[c].batch : r.id <= lastNote
    /\ \A r, x \in delivery[c].batch : r.id = x.id => r = x

\* Deliveries that send.
Sends(c) == Running(c) /\ ~delivery[c].dry

\* Left alone, one delivery sends at a time, and what waits or is in its batch
\* has reached nobody yet.
QuietInv ==
    /\ \A n \in 1..MaxNotes : received[n] <= 1
    /\ \A n \in Undelivered : received[n] = 0
    /\ \A c \in Callers : Sends(c) => \A r \in delivery[c].batch : received[r.id] = 0
    /\ \A c, d \in Callers : Sends(c) /\ Sends(d) => c = d

NoteInv ==
    /\ NoteTypeInv
    /\ \A c \in Callers : BatchInv(c)
    /\ DeliveredMeansReceived
    /\ \A n \in 1..MaxNotes : n > lastNote => received[n] = 0
    /\ ~disturbed => QuietInv

\* A set of numbers has a smallest one.
LEMMA SmallestNumber ==
    ASSUME NEW T, T \subseteq Nat, T # {}
    PROVE  \E x \in T : \A y \in T : x <= y
<1>1. PICK x \in T : \A y \in T : ~(<<y, x>> \in OpToRel(<, Nat))
  BY NatLessThanWellFounded, WFMin
<1>2. \A y \in T : ~(y < x)
  BY <1>1 DEF OpToRel
<1> QED BY <1>2

\* The row in hand is one of the batch.
LEMMA HeadInBatch ==
    ASSUME NoteInv, NEW c \in Callers, Running(c)
    PROVE  /\ Head1(c) \in delivery[c].batch /\ Head1(c).id \in 1..MaxNotes
           /\ Head1(c).id <= lastNote /\ Head1(c).key \in BOOLEAN
<1> DEFINE B == delivery[c].batch
           T == {r.id : r \in B}
<1>1. B \subseteq BatchEntries /\ B # {} /\ \A r \in B : r.id <= lastNote
  BY DEF NoteInv, NoteTypeInv, BatchInv, DeliveryStates
<1>2. T \subseteq Nat /\ T # {}
  BY <1>1, NotificationsAssumption DEF BatchEntries
<1>3. \E n \in T : \A m \in T : n <= m
  <2> HIDE DEF T
  <2> QED BY <1>2, SmallestNumber
<1>4. \E r \in B : \A x \in B : r.id <= x.id
  BY <1>3
<1>5. Head1(c) \in B
  BY <1>4 DEF Head1
<1> QED BY <1>1, <1>5 DEF BatchEntries

\* The delivery goes on with the rest of its batch, or ends.
LEMMA AdvanceFields ==
    ASSUME NoteInv, NEW c \in Callers, Running(c)
    PROVE  /\ Advance(c) \in DeliveryStates
           /\ Advance(c).batch \subseteq delivery[c].batch
           /\ Head1(c) \notin Advance(c).batch
           /\ Advance(c).pc # "sending"
           /\ Advance(c).pc # "idle" =>
                Advance(c).batch # {} /\ Advance(c).dry = delivery[c].dry
<1> DEFINE k == delivery[c]
           h == Head1(c)
           rest == k.batch \ {h}
<1>1. k \in DeliveryStates
  BY DEF NoteInv, NoteTypeInv
<1>2. Advance(c) = IF rest = {} THEN NoDelivery ELSE [k EXCEPT !.pc = "next", !.batch = rest]
  BY DEF Advance
<1>3. rest \subseteq k.batch /\ h \notin rest /\ rest \in SUBSET BatchEntries
  BY <1>1 DEF DeliveryStates
<1> HIDE DEF rest, k, h
<1>4. CASE rest = {}
  <2>1. Advance(c) = [pc |-> "idle", batch |-> {}, dry |-> FALSE]
    BY <1>2, <1>4 DEF NoDelivery
  <2> QED BY <2>1 DEF DeliveryStates
<1>5. CASE rest # {}
  <2>1. Advance(c) = [k EXCEPT !.pc = "next", !.batch = rest]
    BY <1>2, <1>5
  <2>2. /\ Advance(c) \in DeliveryStates /\ Advance(c).pc = "next"
        /\ Advance(c).batch = rest /\ Advance(c).dry = k.dry
    BY <1>1, <1>3, <2>1 DEF DeliveryStates
  <2> QED BY <1>3, <1>5, <2>2 DEF k, h
<1> QED BY <1>4, <1>5

\* What a step of one delivery has to keep.
LEMMA DeliveryStepKeeps ==
    ASSUME NoteInv, NEW c \in Callers, NEW k \in DeliveryStates,
           delivery' = [delivery EXCEPT ![c] = k], UNCHANGED lastNote,
           k.pc # "idle" => k.batch # {},
           k.pc = "sending" => ~k.dry,
           \A r \in k.batch : r.id <= lastNote,
           \A r, x \in k.batch : r.id = x.id => r = x
    PROVE  /\ delivery' \in [Callers -> DeliveryStates]
           /\ delivery'[c] = k
           /\ \A d \in Callers \ {c} : delivery'[d] = delivery[d] /\ Sends(d)' = Sends(d)
           /\ \A d \in Callers : BatchInv(d)'
<1>1. delivery \in [Callers -> DeliveryStates]
  BY DEF NoteInv, NoteTypeInv
<1>2. /\ delivery' \in [Callers -> DeliveryStates] /\ delivery'[c] = k
      /\ \A d \in Callers \ {c} : delivery'[d] = delivery[d]
  BY <1>1
<1>3. \A d \in Callers \ {c} : Sends(d)' = Sends(d)
  BY <1>2 DEF Sends, Running
<1>4. BatchInv(c)'
  BY <1>2 DEF BatchInv, Running
<1>5. ASSUME NEW d \in Callers \ {c}
      PROVE  BatchInv(d)'
  <2>1. delivery'[d] = delivery[d] /\ BatchInv(d)
    BY <1>2, <1>5 DEF NoteInv
  <2> QED BY <2>1 DEF BatchInv, Running
<1> QED BY <1>2, <1>3, <1>4, <1>5

---------------------------------------------------------------------------
(* Deliveries.                                                             *)

\* A delivery starts with rows nobody has got, and one that sends beside
\* another is noted.
LEMMA StartDeliveryInv ==
    ASSUME NoteInv, NEW c \in Callers, NEW filter, NEW dry \in BOOLEAN,
           StartDelivery(c, filter, dry)
    PROVE  NoteInv'
<1> DEFINE ids == Batch({n \in Undelivered : notes[n].to \in filter})
           B == WithKeys(ids)
           k == [pc |-> "next", batch |-> B, dry |-> dry]
<1>1. /\ ids # {} /\ delivery' = [delivery EXCEPT ![c] = k]
      /\ disturbed' = (disturbed \/ (~dry /\ Overlaps(c)))
      /\ UNCHANGED <<notes, lastNote, keyed, received, pulled, sendFaults>>
  BY DEF StartDelivery
<1>2. ids \subseteq Undelivered /\ Undelivered \subseteq DOMAIN notes
  BY DEF Batch, Undelivered
<1>3. /\ lastNote \in Nat /\ lastNote <= MaxNotes /\ DOMAIN notes \subseteq 1..lastNote
      /\ MaxNotes \in Nat
  BY NotificationsAssumption DEF NoteInv, NoteTypeInv
<1>4. /\ B \subseteq BatchEntries /\ B # {}
      /\ \A r \in B : r.id \in ids /\ r.id <= lastNote
      /\ \A r, x \in B : r.id = x.id => r = x
  <2> HIDE DEF ids
  <2>1. \A n \in ids : n \in 1..MaxNotes /\ n <= lastNote
    BY <1>2, <1>3
  <2>2. \A r \in B : \E n \in ids : r = [id |-> n, key |-> notes[n].to \in keyed]
    BY DEF WithKeys
  <2>3. \A r \in B : /\ r.id \in ids /\ r = [id |-> r.id, key |-> notes[r.id].to \in keyed]
                     /\ r.key \in BOOLEAN
    <3> SUFFICES ASSUME NEW r \in B
                 PROVE  /\ r.id \in ids /\ r = [id |-> r.id, key |-> notes[r.id].to \in keyed]
                        /\ r.key \in BOOLEAN
      OBVIOUS
    <3>1. PICK n \in ids : r = [id |-> n, key |-> notes[n].to \in keyed]
      BY <2>2
    <3>2. r.id = n /\ r.key = (notes[n].to \in keyed)
      BY <3>1
    <3> QED BY <3>1, <3>2
  <2>4. B # {}
    BY <1>1 DEF WithKeys
  <2>5. B \subseteq BatchEntries
    BY <2>1, <2>3 DEF BatchEntries
  <2> QED BY <2>1, <2>3, <2>4, <2>5
<1> HIDE DEF B, ids
<1>5. k \in DeliveryStates /\ k.pc = "next" /\ k.batch = B /\ k.dry = dry
  BY <1>4 DEF DeliveryStates
<1> HIDE DEF k
<1>6. /\ delivery' \in [Callers -> DeliveryStates]
      /\ delivery'[c] = k
      /\ \A d \in Callers \ {c} : delivery'[d] = delivery[d] /\ Sends(d)' = Sends(d)
      /\ \A d \in Callers : BatchInv(d)'
  BY <1>1, <1>4, <1>5, DeliveryStepKeeps
<1>7. disturbed' \in BOOLEAN /\ (~disturbed' => ~disturbed /\ (dry \/ ~Overlaps(c)))
  BY <1>1
<1>8. NoteTypeInv'
  BY <1>1, <1>6, <1>7 DEF NoteInv, NoteTypeInv
<1>9. ~disturbed' => QuietInv'
  <2> SUFFICES ASSUME ~disturbed'
               PROVE  QuietInv'
    OBVIOUS
  <2>1. QuietInv /\ (~dry => \A d \in Callers \ {c} : ~Sends(d))
    BY <1>7 DEF NoteInv, Overlaps, Sends
  <2>2. Undelivered' = Undelivered
    BY <1>1 DEF Undelivered
  <2>3. Sends(c)' => ~dry
    BY <1>5, <1>6 DEF Sends
  <2>4. \A d \in Callers : Sends(d)' => \A r \in delivery'[d].batch : received[r.id] = 0
    <3>1. \A r \in B : received[r.id] = 0
      BY <1>2, <1>4, <2>1 DEF QuietInv
    <3> QED BY <1>5, <1>6, <2>1, <3>1 DEF QuietInv
  <2>5. \A d, e \in Callers : Sends(d)' /\ Sends(e)' => d = e
    BY <1>6, <2>1, <2>3 DEF QuietInv
  <2> QED BY <1>1, <2>1, <2>2, <2>4, <2>5 DEF QuietInv
<1>10. DeliveredMeansReceived'
  BY <1>1 DEF NoteInv, DeliveredMeansReceived
<1> QED BY <1>1, <1>6, <1>8, <1>9, <1>10 DEF NoteInv

\* A row is skipped, or its command is started: nothing is marked.
LEMMA SkipOrSendInv ==
    ASSUME NoteInv, NEW c \in Callers, SkipNote(c) \/ SendNote(c)
    PROVE  NoteInv'
<1>1. /\ delivery[c].pc = "next" /\ Running(c)
      /\ UNCHANGED <<notes, lastNote, keyed, received, pulled, daemon, disturbed, sendFaults>>
  BY DEF SkipNote, SendNote, Running
<1>2. /\ delivery[c] \in DeliveryStates
      /\ delivery[c].batch # {}
      /\ \A r \in delivery[c].batch : r.id <= lastNote
      /\ \A r, x \in delivery[c].batch : r.id = x.id => r = x
  BY <1>1 DEF NoteInv, NoteTypeInv, BatchInv
<1>3. PICK k \in DeliveryStates :
        /\ delivery' = [delivery EXCEPT ![c] = k]
        /\ k.batch \subseteq delivery[c].batch
        /\ k.pc # "idle" => k.batch # {} /\ k.dry = delivery[c].dry
        /\ k.pc = "sending" => ~k.dry
  <2>1. CASE SkipNote(c)
    BY <1>1, <2>1, AdvanceFields DEF SkipNote
  <2>2. CASE SendNote(c)
    <3> DEFINE k == [delivery[c] EXCEPT !.pc = "sending"]
    <3>1. /\ k \in DeliveryStates /\ k.batch = delivery[c].batch
          /\ k.dry = delivery[c].dry /\ k.pc = "sending"
      BY <1>2 DEF DeliveryStates
    <3>2. delivery' = [delivery EXCEPT ![c] = k] /\ ~delivery[c].dry
      BY <2>2 DEF SendNote
    <3> HIDE DEF k
    <3> QED BY <1>2, <3>1, <3>2
  <2> QED BY <2>1, <2>2
<1>4. /\ delivery' \in [Callers -> DeliveryStates]
      /\ delivery'[c] = k
      /\ \A d \in Callers \ {c} : delivery'[d] = delivery[d] /\ Sends(d)' = Sends(d)
      /\ \A d \in Callers : BatchInv(d)'
  BY <1>1, <1>2, <1>3, DeliveryStepKeeps
<1>5. NoteTypeInv'
  BY <1>1, <1>4 DEF NoteInv, NoteTypeInv
<1>6. Sends(c)' => Sends(c)
  BY <1>1, <1>3, <1>4 DEF Sends, Running
<1>7. QuietInv => QuietInv'
  <2>1. Undelivered' = Undelivered
    BY <1>1 DEF Undelivered
  <2>2. \A d \in Callers : /\ Sends(d)' => Sends(d)
                           /\ delivery'[d].batch \subseteq delivery[d].batch
    BY <1>3, <1>4, <1>6
  <2> QED BY <1>1, <2>1, <2>2 DEF QuietInv
<1>8. DeliveredMeansReceived'
  BY <1>1 DEF NoteInv, DeliveredMeansReceived
<1> QED BY <1>1, <1>4, <1>5, <1>7, <1>8 DEF NoteInv

\* Marking rows changes nothing else.
LEMMA MarkKeeps ==
    ASSUME NoteInv, NEW S, notes' = Mark(S)
    PROVE  /\ DOMAIN notes' = DOMAIN notes
           /\ notes' \in [DOMAIN notes' -> [to : Recipients, delivered : BOOLEAN]]
           /\ \A n \in DOMAIN notes : notes'[n].delivered = (n \in S \/ notes[n].delivered)
<1> DEFINE mark(n) == IF n \in S THEN [notes[n] EXCEPT !.delivered = TRUE] ELSE notes[n]
<1>1. \A n \in DOMAIN notes : notes[n] \in [to : Recipients, delivered : BOOLEAN]
  BY DEF NoteInv, NoteTypeInv
<1>2. \A n \in DOMAIN notes : /\ mark(n) \in [to : Recipients, delivered : BOOLEAN]
                              /\ mark(n).delivered = (n \in S \/ notes[n].delivered)
  BY <1>1
<1>3. notes' = [n \in DOMAIN notes |-> mark(n)]
  BY DEF Mark
<1> HIDE DEF mark
<1>4. DOMAIN notes' = DOMAIN notes /\ \A n \in DOMAIN notes : notes'[n] = mark(n)
  BY <1>3
<1> QED BY <1>2, <1>3, <1>4

\* The command ends well: the session has the message, the row is marked.
LEMMA SendEndsInv ==
    ASSUME NoteInv, NEW c \in Callers, SendEnds(c)
    PROVE  NoteInv'
<1> DEFINE i == Head1(c).id
           more == received[Head1(c).id] + 1
<1>1. /\ delivery[c].pc = "sending" /\ Running(c)
      /\ received' = [received EXCEPT ![i] = received[i] + 1]
      /\ notes' = Mark({i}) /\ delivery' = [delivery EXCEPT ![c] = Advance(c)]
      /\ UNCHANGED <<lastNote, keyed, pulled, daemon, disturbed, sendFaults>>
  BY DEF SendEnds, Running, MarkSent
<1>2. Head1(c) \in delivery[c].batch /\ i \in 1..MaxNotes /\ i <= lastNote
  BY <1>1, HeadInBatch
<1>3. /\ Advance(c) \in DeliveryStates
      /\ Advance(c).batch \subseteq delivery[c].batch
      /\ Head1(c) \notin Advance(c).batch
      /\ Advance(c).pc # "sending"
      /\ Advance(c).pc # "idle" =>
           Advance(c).batch # {} /\ Advance(c).dry = delivery[c].dry
  BY <1>1, AdvanceFields
<1>4. /\ \A r \in delivery[c].batch : r.id <= lastNote
      /\ \A r, x \in delivery[c].batch : r.id = x.id => r = x
      /\ Sends(c) /\ delivery \in [Callers -> DeliveryStates]
  BY <1>1 DEF NoteInv, NoteTypeInv, BatchInv, Sends
<1>5. /\ delivery' \in [Callers -> DeliveryStates]
      /\ delivery'[c] = Advance(c)
      /\ \A d \in Callers \ {c} : delivery'[d] = delivery[d] /\ Sends(d)' = Sends(d)
      /\ \A d \in Callers : BatchInv(d)'
  BY <1>1, <1>3, <1>4, DeliveryStepKeeps
<1>6. received \in [1..MaxNotes -> Nat] /\ received[i] \in Nat
  BY <1>2 DEF NoteInv, NoteTypeInv
<1> HIDE DEF i
<1>7. /\ received' \in [1..MaxNotes -> Nat] /\ received'[i] = received[i] + 1
      /\ \A n \in 1..MaxNotes : n # i => received'[n] = received[n]
  <2> DEFINE v == received[i] + 1
  <2>1. v \in Nat /\ received' = [received EXCEPT ![i] = v]
    BY <1>1, <1>6
  <2> HIDE DEF v
  <2>2. /\ received' \in [1..MaxNotes -> Nat] /\ received'[i] = v
        /\ \A n \in 1..MaxNotes : n # i => received'[n] = received[n]
    BY <1>2, <1>6, <2>1
  <2> QED BY <2>2 DEF v
<1>8. /\ DOMAIN notes' = DOMAIN notes
      /\ notes' \in [DOMAIN notes' -> [to : Recipients, delivered : BOOLEAN]]
      /\ \A n \in DOMAIN notes : notes'[n].delivered = (n \in {i} \/ notes[n].delivered)
  BY <1>1, MarkKeeps
<1>9. NoteTypeInv'
  BY <1>1, <1>5, <1>7, <1>8 DEF NoteInv, NoteTypeInv
<1>10. DOMAIN notes \subseteq 1..MaxNotes /\ lastNote \in Nat
  BY NotificationsAssumption DEF NoteInv, NoteTypeInv
<1>11. DeliveredMeansReceived'
  <2> SUFFICES ASSUME NEW n \in DOMAIN notes, notes'[n].delivered
               PROVE  received'[n] > 0 \/ n \in pulled
    BY <1>1, <1>8 DEF DeliveredMeansReceived
  <2>1. CASE n = i
    BY <1>6, <1>7, <2>1
  <2>2. CASE n # i
    <3>1. notes[n].delivered /\ n \in 1..MaxNotes
      BY <1>8, <1>10, <2>2
    <3> QED BY <1>7, <2>2, <3>1 DEF NoteInv, DeliveredMeansReceived
  <2> QED BY <2>1, <2>2
<1>12. \A n \in 1..MaxNotes : n > lastNote' => received'[n] = 0
  BY <1>1, <1>2, <1>7, <1>10 DEF NoteInv
<1>13. ~disturbed' => QuietInv'
  <2> SUFFICES ASSUME ~disturbed
               PROVE  QuietInv'
    BY <1>1
  <2>1. QuietInv
    BY DEF NoteInv
  <2>2. received[i] = 0
    BY <1>2, <1>4, <2>1 DEF QuietInv, i
  <2>3. \A n \in 1..MaxNotes : received'[n] <= 1
    BY <1>6, <1>7, <2>1, <2>2 DEF QuietInv
  <2>4. \A n \in Undelivered' : n \in Undelivered /\ n # i /\ n \in 1..MaxNotes
    BY <1>8, <1>10 DEF Undelivered
  <2>5. \A n \in Undelivered' : received'[n] = 0
    BY <1>7, <2>1, <2>4 DEF QuietInv
  <2>6. \A d \in Callers : Sends(d)' => d = c
    BY <1>4, <1>5, <2>1 DEF QuietInv
  <2>7. \A r \in Advance(c).batch : received'[r.id] = 0
    <3>1. \A r \in Advance(c).batch : r \in delivery[c].batch /\ r.id # i /\ r.id \in 1..MaxNotes
      BY <1>2, <1>3, <1>4 DEF i, DeliveryStates, BatchEntries
    <3>2. \A r \in delivery[c].batch : received[r.id] = 0
      BY <1>4, <2>1 DEF QuietInv
    <3> QED BY <1>7, <3>1, <3>2
  <2> QED BY <1>5, <2>3, <2>5, <2>6, <2>7 DEF QuietInv
<1> QED BY <1>5, <1>9, <1>11, <1>12, <1>13 DEF NoteInv

\* A command that fails, or a server that stops, marks nothing; what has
\* arrived all the same is noted.
LEMMA LostAnswerInv ==
    ASSUME NoteInv, UNCHANGED <<notes, lastNote, pulled>>,
           delivery' \in [Callers -> DeliveryStates], \A d \in Callers : BatchInv(d)',
           \A d \in Callers : Sends(d)' =>
              Sends(d) /\ delivery'[d].batch \subseteq delivery[d].batch,
           received' \in [1..MaxNotes -> Nat],
           \A n \in 1..MaxNotes : received[n] > 0 => received'[n] > 0,
           \A n \in 1..MaxNotes : n > lastNote => received'[n] = received[n],
           disturbed' \in BOOLEAN, ~disturbed' => ~disturbed /\ received' = received
    PROVE  NoteInv'
<1>1. NoteTypeInv'
  BY DEF NoteInv, NoteTypeInv
<1>2. DeliveredMeansReceived'
  <2>1. DOMAIN notes \subseteq 1..MaxNotes
    BY NotificationsAssumption DEF NoteInv, NoteTypeInv
  <2> QED BY <2>1 DEF NoteInv, DeliveredMeansReceived
<1>3. \A n \in 1..MaxNotes : n > lastNote' => received'[n] = 0
  BY DEF NoteInv
<1>4. ~disturbed' => QuietInv'
  <2>1. Undelivered' = Undelivered
    BY DEF Undelivered
  <2> QED BY <2>1 DEF NoteInv, QuietInv
<1> QED BY <1>1, <1>2, <1>3, <1>4 DEF NoteInv

\* The command fails, is killed or writes an error.
LEMMA SendFailsInv ==
    ASSUME NoteInv, NEW c \in Callers, SendFails(c)
    PROVE  NoteInv'
<1> DEFINE i == Head1(c).id
           v == received[Head1(c).id] + 1
<1>1. /\ delivery[c].pc = "sending" /\ Running(c)
      /\ UNCHANGED <<notes, lastNote, keyed, pulled, daemon>>
      /\ delivery' = [delivery EXCEPT ![c] = Advance(c)]
  BY DEF SendFails, Running, MarkFailed
<1>2. PICK arrived \in BOOLEAN :
        /\ received' = IF arrived THEN [received EXCEPT ![i] = v] ELSE received
        /\ disturbed' = (disturbed \/ arrived)
  BY DEF SendFails
<1>3. i \in 1..MaxNotes /\ i <= lastNote
  BY <1>1, HeadInBatch
<1>4. /\ Advance(c) \in DeliveryStates
      /\ Advance(c).batch \subseteq delivery[c].batch
      /\ Advance(c).pc # "sending"
      /\ Advance(c).pc # "idle" =>
           Advance(c).batch # {} /\ Advance(c).dry = delivery[c].dry
  BY <1>1, AdvanceFields
<1>5. /\ \A r \in delivery[c].batch : r.id <= lastNote
      /\ \A r, x \in delivery[c].batch : r.id = x.id => r = x
      /\ received \in [1..MaxNotes -> Nat] /\ lastNote \in Nat
  BY NotificationsAssumption DEF NoteInv, NoteTypeInv, BatchInv
<1>6. /\ delivery' \in [Callers -> DeliveryStates] /\ delivery'[c] = Advance(c)
      /\ \A d \in Callers \ {c} : delivery'[d] = delivery[d] /\ Sends(d)' = Sends(d)
      /\ \A d \in Callers : BatchInv(d)'
  BY <1>1, <1>4, <1>5, DeliveryStepKeeps
<1>7. Sends(c)' => Sends(c)
  BY <1>1, <1>4, <1>6 DEF Sends, Running
<1>8. \A d \in Callers : Sends(d)' =>
         Sends(d) /\ delivery'[d].batch \subseteq delivery[d].batch
  BY <1>4, <1>6, <1>7
<1>9. v \in Nat /\ v > 0
  BY <1>3, <1>5
<1> HIDE DEF v, i
<1>10. /\ received' \in [1..MaxNotes -> Nat]
       /\ \A n \in 1..MaxNotes : n # i => received'[n] = received[n]
       /\ received'[i] = v \/ received' = received
  BY <1>2, <1>3, <1>5, <1>9
<1>11. /\ \A n \in 1..MaxNotes : received[n] > 0 => received'[n] > 0
       /\ \A n \in 1..MaxNotes : n > lastNote => received'[n] = received[n]
  BY <1>3, <1>5, <1>9, <1>10
<1>12. disturbed' \in BOOLEAN /\ (~disturbed' => ~disturbed /\ received' = received)
  BY <1>2
<1> QED BY <1>1, <1>6, <1>8, <1>10, <1>11, <1>12, LostAnswerInv

\* The server stops.
LEMMA ServerStopsInv ==
    ASSUME NoteInv, ServerStops
    PROVE  NoteInv'
<1> DEFINE heads == {Head1(c).id : c \in {d \in Callers : delivery[d].pc = "sending"}}
<1>1. PICK arrived \in SUBSET heads :
        /\ received' = [n \in DOMAIN received |->
                          IF n \in arrived THEN received[n] + 1 ELSE received[n]]
        /\ disturbed' = (disturbed \/ arrived # {})
  BY DEF ServerStops
<1>2. delivery' = [c \in Callers |-> NoDelivery] /\ UNCHANGED <<notes, lastNote, pulled>>
  BY DEF ServerStops
<1>3. \A n \in heads : n \in 1..MaxNotes /\ n <= lastNote
  <2> SUFFICES ASSUME NEW c \in Callers, delivery[c].pc = "sending"
               PROVE  Head1(c).id \in 1..MaxNotes /\ Head1(c).id <= lastNote
    OBVIOUS
  <2>1. Running(c)
    BY DEF Running
  <2> QED BY <2>1, HeadInBatch
<1> HIDE DEF heads
<1>4. received \in [1..MaxNotes -> Nat] /\ lastNote \in Nat
  BY NotificationsAssumption DEF NoteInv, NoteTypeInv
<1>5. /\ received' \in [1..MaxNotes -> Nat]
      /\ \A n \in 1..MaxNotes : received'[n] = IF n \in arrived THEN received[n] + 1 ELSE received[n]
  BY <1>1, <1>4
<1>6. /\ \A n \in 1..MaxNotes : received[n] > 0 => received'[n] > 0
      /\ \A n \in 1..MaxNotes : n > lastNote => received'[n] = received[n]
  BY <1>3, <1>4, <1>5
<1>7. disturbed' \in BOOLEAN /\ (~disturbed' => ~disturbed /\ received' = received)
  <2>1. arrived = {} => received' = received
    BY <1>1, <1>4
  <2> QED BY <1>1, <2>1
<1>8. NoDelivery \in DeliveryStates /\ NoDelivery.pc = "idle" /\ NoDelivery.batch = {}
  BY DEF NoDelivery, DeliveryStates
<1>9. /\ delivery' \in [Callers -> DeliveryStates]
      /\ \A d \in Callers : delivery'[d] = NoDelivery
  BY <1>2, <1>8
<1>10. \A d \in Callers : BatchInv(d)' /\ ~Sends(d)'
  BY <1>8, <1>9 DEF BatchInv, Sends, Running
<1> QED BY <1>2, <1>5, <1>6, <1>7, <1>9, <1>10, LostAnswerInv

---------------------------------------------------------------------------
(* The other handlers.                                                     *)

\* Nothing a handler does to the rows alone reaches into a delivery.
LEMMA BatchesStay ==
    ASSUME NoteInv, UNCHANGED delivery, lastNote' \in Nat, lastNote' >= lastNote
    PROVE  /\ \A d \in Callers : BatchInv(d)' /\ Sends(d)' = Sends(d)
           /\ delivery' \in [Callers -> DeliveryStates]
<1>1. /\ lastNote \in Nat /\ delivery \in [Callers -> DeliveryStates]
      /\ \A d \in Callers : \A r \in delivery[d].batch : r.id \in Nat /\ r.id <= lastNote
  BY NotificationsAssumption
  DEF NoteInv, NoteTypeInv, BatchInv, DeliveryStates, BatchEntries
<1>2. \A d \in Callers : \A r \in delivery[d].batch : r.id <= lastNote'
  BY <1>1
<1> QED BY <1>1, <1>2 DEF NoteInv, BatchInv, Running, Sends

\* A new row has a number nobody has used.
LEMMA CreateNotificationInv ==
    ASSUME NoteInv, NEW a \in Recipients, CreateNotification(a)
    PROVE  NoteInv'
<1> DEFINE m == lastNote + 1
           row == [to |-> a, delivered |-> FALSE]
<1>1. /\ lastNote < MaxNotes /\ lastNote' = m
      /\ notes' = [n \in DOMAIN notes \cup {m} |-> IF n \in DOMAIN notes THEN notes[n] ELSE row]
      /\ UNCHANGED <<keyed, delivery, received, pulled, daemon, disturbed, sendFaults>>
  BY DEF CreateNotification
<1>2. /\ lastNote \in Nat /\ lastNote <= MaxNotes /\ MaxNotes \in Nat
      /\ DOMAIN notes \subseteq 1..lastNote
      /\ notes \in [DOMAIN notes -> [to : Recipients, delivered : BOOLEAN]]
  BY NotificationsAssumption DEF NoteInv, NoteTypeInv
<1>3. /\ m \in Nat /\ m >= lastNote /\ m > lastNote /\ m \in 1..MaxNotes /\ m \notin DOMAIN notes
      /\ \A n \in DOMAIN notes : n \in 1..m
  BY <1>1, <1>2
<1>4. row \in [to : Recipients, delivered : BOOLEAN] /\ row.delivered = FALSE
  OBVIOUS
<1> HIDE DEF m, row
<1>5. /\ DOMAIN notes' = DOMAIN notes \cup {m}
      /\ notes' \in [DOMAIN notes' -> [to : Recipients, delivered : BOOLEAN]]
      /\ notes'[m] = row /\ \A n \in DOMAIN notes : notes'[n] = notes[n]
  BY <1>1, <1>2, <1>3, <1>4
<1>6. /\ \A d \in Callers : BatchInv(d)' /\ Sends(d)' = Sends(d)
      /\ delivery' \in [Callers -> DeliveryStates]
  BY <1>1, <1>3, BatchesStay
<1>7. NoteTypeInv'
  <2>1. DOMAIN notes' \subseteq 1..m /\ m \in 0..MaxNotes
    BY <1>2, <1>3, <1>5
  <2> QED BY <1>1, <1>5, <1>6, <2>1 DEF NoteInv, NoteTypeInv
<1>8. DeliveredMeansReceived'
  BY <1>1, <1>4, <1>5 DEF NoteInv, DeliveredMeansReceived
<1>9. \A n \in 1..MaxNotes : n > lastNote' => received'[n] = 0
  BY <1>1, <1>2, <1>3 DEF NoteInv
<1>10. ~disturbed' => QuietInv'
  <2>1. \A n \in Undelivered' : n \in Undelivered \/ n = m
    BY <1>5 DEF Undelivered
  <2>2. received[m] = 0
    BY <1>3 DEF NoteInv
  <2> QED BY <1>1, <1>6, <2>1, <2>2 DEF NoteInv, QuietInv
<1> QED BY <1>6, <1>7, <1>8, <1>9, <1>10 DEF NoteInv

\* mark-delivered hands out what it marks.
LEMMA MarkDeliveredInv ==
    ASSUME NoteInv, NEW a \in Recipients, MarkDelivered(a)
    PROVE  NoteInv'
<1> DEFINE waiting == {n \in Undelivered : notes[n].to = a}
<1>1. /\ notes' = Mark(waiting) /\ pulled' = pulled \cup waiting
      /\ UNCHANGED <<lastNote, keyed, delivery, received, daemon, disturbed, sendFaults>>
  BY DEF MarkDelivered
<1> HIDE DEF waiting
<1>2. /\ DOMAIN notes' = DOMAIN notes
      /\ notes' \in [DOMAIN notes' -> [to : Recipients, delivered : BOOLEAN]]
      /\ \A n \in DOMAIN notes : notes'[n].delivered = (n \in waiting \/ notes[n].delivered)
  BY <1>1, MarkKeeps
<1>3. lastNote' \in Nat /\ lastNote' >= lastNote
  BY <1>1, NotificationsAssumption DEF NoteInv, NoteTypeInv
<1>4. /\ \A d \in Callers : BatchInv(d)' /\ Sends(d)' = Sends(d)
      /\ delivery' \in [Callers -> DeliveryStates]
  BY <1>1, <1>3, BatchesStay
<1>5. NoteTypeInv'
  BY <1>1, <1>2, <1>4 DEF NoteInv, NoteTypeInv
<1>6. DeliveredMeansReceived'
  BY <1>1, <1>2 DEF NoteInv, DeliveredMeansReceived
<1>7. ~disturbed' => QuietInv'
  <2>1. Undelivered' \subseteq Undelivered
    BY <1>2 DEF Undelivered
  <2> QED BY <1>1, <1>4, <2>1 DEF NoteInv, QuietInv
<1> QED BY <1>1, <1>4, <1>5, <1>6, <1>7 DEF NoteInv

\* DELETE takes rows out of the table while deliveries hold them.
LEMMA DeleteNotesInv ==
    ASSUME NoteInv, NEW S \in SUBSET DOMAIN notes, DeleteNotes(S)
    PROVE  NoteInv'
<1>1. /\ notes' = [n \in DOMAIN notes \ S |-> notes[n]]
      /\ received' = [n \in DOMAIN received |-> IF n \in S THEN 0 ELSE received[n]]
      /\ pulled' = pulled \ S
      /\ UNCHANGED <<lastNote, keyed, delivery, daemon, disturbed, sendFaults>>
  BY DEF DeleteNotes
<1>2. /\ received \in [1..MaxNotes -> Nat] /\ lastNote \in Nat
      /\ DOMAIN notes \subseteq 1..lastNote /\ DOMAIN notes \subseteq 1..MaxNotes
      /\ notes \in [DOMAIN notes -> [to : Recipients, delivered : BOOLEAN]]
  BY NotificationsAssumption DEF NoteInv, NoteTypeInv
<1>3. /\ DOMAIN notes' = DOMAIN notes \ S
      /\ \A n \in DOMAIN notes' : notes'[n] = notes[n]
      /\ notes' \in [DOMAIN notes' -> [to : Recipients, delivered : BOOLEAN]]
  BY <1>1, <1>2
<1>4. /\ received' \in [1..MaxNotes -> Nat]
      /\ \A n \in 1..MaxNotes : received'[n] = IF n \in S THEN 0 ELSE received[n]
  BY <1>1, <1>2
<1>5. /\ \A d \in Callers : BatchInv(d)' /\ Sends(d)' = Sends(d)
      /\ delivery' \in [Callers -> DeliveryStates]
  BY <1>1, <1>2, BatchesStay
<1>6. NoteTypeInv'
  BY <1>1, <1>2, <1>3, <1>4, <1>5 DEF NoteInv, NoteTypeInv
<1>7. DeliveredMeansReceived'
  BY <1>1, <1>2, <1>3, <1>4 DEF NoteInv, DeliveredMeansReceived
<1>8. \A n \in 1..MaxNotes : n > lastNote' => received'[n] = 0
  BY <1>1, <1>4 DEF NoteInv
<1>9. ~disturbed' => QuietInv'
  <2> SUFFICES ASSUME ~disturbed
               PROVE  QuietInv'
    BY <1>1
  <2>1. QuietInv
    BY DEF NoteInv
  <2>2. \A n \in Undelivered' : n \in Undelivered /\ n \in 1..MaxNotes /\ n \notin S
    BY <1>2, <1>3 DEF Undelivered
  <2>3. \A d \in Callers : \A r \in delivery[d].batch : r.id \in 1..MaxNotes
    BY DEF NoteInv, NoteTypeInv, DeliveryStates, BatchEntries
  <2>4. \A n \in 1..MaxNotes : received'[n] <= 1
    BY <1>4, <2>1 DEF QuietInv
  <2>5. \A n \in Undelivered' : received'[n] = 0
    BY <1>4, <2>1, <2>2 DEF QuietInv
  <2>6. \A d \in Callers : Sends(d)' => \A r \in delivery'[d].batch : received'[r.id] = 0
    BY <1>1, <1>4, <1>5, <2>1, <2>3 DEF QuietInv
  <2>7. \A c, d \in Callers : Sends(c)' /\ Sends(d)' => c = d
    BY <1>5, <2>1 DEF QuietInv
  <2> QED BY <2>4, <2>5, <2>6, <2>7 DEF QuietInv
<1> QED BY <1>5, <1>6, <1>7, <1>8, <1>9 DEF NoteInv

\* A request finds a place.
LEMMA NewCallIsFree ==
    /\ Free # {} => NewCall \in Callers
    /\ Cardinality({c \in Callers : ~Running(c)}) > 1 => Free # {}
<1>1. Free # {} => NewCall \in Callers
  BY DEF NewCall, Free
<1>2. ASSUME Cardinality({c \in Callers : ~Running(c)}) > 1
      PROVE  Free # {}
  <2> DEFINE I == {c \in Callers : ~Running(c)}
  <2> SUFFICES ASSUME Free = {}
               PROVE  FALSE
    OBVIOUS
  <2>1. I \in SUBSET {daemon}
    BY DEF Free
  <2>2. IsFiniteSet({daemon}) /\ Cardinality({daemon}) = 1
    BY FS_Singleton
  <2> HIDE DEF I
  <2>3. IsFiniteSet(I) /\ Cardinality(I) <= 1
    BY <2>1, <2>2, FS_Subset
  <2>4. Cardinality(I) \in Nat
    BY <2>3, FS_CardinalityType
  <2>5. Cardinality(I) > 1
    BY <1>2 DEF I
  <2> QED BY <2>3, <2>4, <2>5
<1> QED BY <1>1, <1>2

---------------------------------------------------------------------------
(* The theorems about notifications.                                       *)

\* No rows, no deliveries.
LEMMA NoteInitInv == NoteInit => NoteInv
<1> SUFFICES ASSUME NoteInit
             PROVE  NoteInv
  OBVIOUS
<1>0. lastNote = 0 /\ MaxNotes \in Nat /\ disturbed = FALSE
  BY NotificationsAssumption DEF NoteInit
<1>1. /\ notes = <<>>
      /\ delivery = [c \in Callers |-> NoDelivery]
      /\ received = [n \in 1..MaxNotes |-> 0]
  BY NotificationsAssumption DEF NoteInit
<1>2. DOMAIN notes = {} /\ notes \in [DOMAIN notes -> [to : Recipients, delivered : BOOLEAN]]
  BY <1>1
<1>3. /\ NoDelivery \in DeliveryStates /\ NoDelivery.pc = "idle" /\ NoDelivery.batch = {}
  BY DEF NoDelivery, DeliveryStates
<1>4. /\ delivery \in [Callers -> DeliveryStates]
      /\ \A c \in Callers : delivery[c] = NoDelivery
  BY <1>1, <1>3
<1>5. received \in [1..MaxNotes -> Nat] /\ \A n \in 1..MaxNotes : received[n] = 0
  BY <1>0, <1>1
<1>6. NoteTypeInv
  <2>1. lastNote \in 0..MaxNotes
    BY <1>0
  <2>3. disturbed \in BOOLEAN
    BY <1>0
  <2>2. DOMAIN notes \subseteq 1..lastNote
    BY <1>2
  <2> QED BY <2>1, <2>2, <2>3, <1>2, <1>4, <1>5 DEF NoteTypeInv
<1>7. \A c \in Callers : BatchInv(c) /\ ~Sends(c)
  BY <1>3, <1>4 DEF BatchInv, Sends, Running
<1>8. DeliveredMeansReceived /\ Undelivered = {}
  BY <1>2 DEF DeliveredMeansReceived, Undelivered
<1>9. QuietInv
  BY <1>5, <1>7, <1>8 DEF QuietInv
<1> QED BY <1>5, <1>6, <1>7, <1>8, <1>9 DEF NoteInv

\* Every step of every actor preserves the invariant.
LEMMA NoteNextInv == NoteInv /\ [NoteNext]_noteVars => NoteInv'
<1> SUFFICES ASSUME NoteInv, [NoteNext]_noteVars
             PROVE  NoteInv'
  OBVIOUS
<1>1. ASSUME NEW filter, NEW dry \in BOOLEAN, OperatorDelivers(filter, dry)
      PROVE  NoteInv'
  BY <1>1, NewCallIsFree, StartDeliveryInv DEF OperatorDelivers
<1>2. ASSUME NEW c \in Callers, DeliveryStep(c) \/ SendFails(c)
      PROVE  NoteInv'
  BY <1>2, SkipOrSendInv, SendEndsInv, SendFailsInv DEF DeliveryStep
<1>3. CASE DaemonCycle
  BY <1>3, NewCallIsFree, StartDeliveryInv DEF DaemonCycle
<1>4. ASSUME UNCHANGED <<notes, lastNote, delivery, received, pulled, disturbed>>
      PROVE  NoteInv'
  <2>1. lastNote' \in Nat /\ lastNote' >= lastNote
    BY <1>4, NotificationsAssumption DEF NoteInv, NoteTypeInv
  <2>2. /\ \A d \in Callers : BatchInv(d)' /\ Sends(d)' = Sends(d)
        /\ delivery' \in [Callers -> DeliveryStates]
    BY <1>4, <2>1, BatchesStay
  <2>3. /\ received' \in [1..MaxNotes -> Nat] /\ disturbed' \in BOOLEAN
    BY <1>4 DEF NoteInv, NoteTypeInv
  <2> QED BY <1>4, <2>2, <2>3, LostAnswerInv
<1>5. CASE StartDaemon \/ StopDaemon \/ DaemonAnswered
  BY <1>4, <1>5 DEF StartDaemon, StopDaemon, DaemonAnswered
<1>6. ASSUME NEW a \in Recipients, CreateNotification(a) \/ MarkDelivered(a) \/ GainKey(a)
      PROVE  NoteInv'
  BY <1>4, <1>6, CreateNotificationInv, MarkDeliveredInv DEF GainKey
<1>7. ASSUME NEW S \in {{n} : n \in DOMAIN notes}
                    \cup {{n \in DOMAIN notes : notes[n].to = a} : a \in Recipients},
             DeleteNotes(S)
      PROVE  NoteInv'
  <2>1. S \in SUBSET DOMAIN notes
    BY <1>7
  <2> QED BY <1>7, <2>1, DeleteNotesInv
<1>8. CASE UNCHANGED noteVars
  BY <1>4, <1>8 DEF noteVars
<1> QED BY <1>1, <1>2, <1>3, <1>5, <1>6, <1>7, <1>8, ServerStopsInv
  DEF NoteNext, DaemonStep

\* Rows, deliveries and what has arrived fit each other in every reachable state.
THEOREM NoteInvHolds == NoteSpec => []NoteInv
<1> QED BY NoteInitInv, NoteNextInv, PTL DEF NoteSpec

\* However many deliveries run, and wherever commands fail and the server stops:
\* a row marked as delivered was received or fetched, and nobody is told twice
\* unless deliveries overlapped or a command's outcome is unknown.
THEOREM NotificationsCorrect == NoteSpec => []DeliverySafe
<1>1. NoteInv => DeliverySafe
  <2> SUFFICES ASSUME NoteInv
               PROVE  DeliverySafe
    OBVIOUS
  <2>1. DOMAIN received = 1..MaxNotes
    BY DEF NoteInv, NoteTypeInv
  <2> QED BY <2>1 DEF NoteInv, DeliverySafe, ToldOnce, QuietInv
<1> QED BY <1>1, NoteInvHolds, PTL
=============================================================================
