-------------------------------- MODULE Usage --------------------------------
(***************************************************************************)
(* What the agents' tokens are counted from.  Heartbeats insert rows in    *)
(* token_usage, operators post records to a JSON file, and every question  *)
(* about usage loads both, folds identical records, and falls back to the  *)
(* gateway's sessions when there are none.  The writes of the file are one *)
(* step here; how they overlap is in SharedFiles.  The order of the answer *)
(* (newest first) matters to no count and is left out.                     *)
(*                                                                         *)
(* A session id is <<agent, chat type>>; "none" is a missing part, or a    *)
(* missing model.  Prices are in hundredths.                               *)
(***************************************************************************)
EXTENDS Naturals, Sequences, FiniteSets, SequencesExt, Lists

CONSTANTS
  UsageLimit,       \* rows loaded and records kept; 10000 in the code
  UsageRetention,   \* age at which the clean-up drops records of the file
  MaxUsage,         \* bound: reports in all
  MaxUsageTime      \* bound on the clock

VARIABLES
  dbUsage,       \* token_usage, in the order of insertion
  fileUsage,     \* the token file, newest first
  usageClock,    \* hours
  gatewayUsage,  \* usage as the session stores have it
  postedUsage    \* history: every record posted, newest first

usageVars == <<dbUsage, fileUsage, usageClock, gatewayUsage, postedUsage>>

ASSUME UsageAssumption ==
  {UsageLimit, UsageRetention} \subseteq Nat \ {0} /\ {MaxUsage, MaxUsageTime} \subseteq Nat

-----------------------------------------------------------------------------
\* MODEL_PRICING in its order, by the part of the name after the slash.
ModelPricing == <<[name |-> "claude-sonnet-4", price |-> 300],
                  [name |-> "qwen-coder", price |-> 0]>>
Includes(model, name) == model = name \/ <<model, name>> = <<"eu-claude-sonnet-4", "claude-sonnet-4">>
GetModelCost(model) ==
  LET hits == Filtered(ModelPricing, {e \in ToSet(ModelPricing) : Includes(model, e.name)})
  IN IF hits = <<>> THEN 100 ELSE hits[1].price

ExtractAgentName(session) == IF session[1] = "none" THEN "unknown" ELSE session[1]

UsageRecord(model, session, tokens, at, operation) ==
  [model |-> model, session |-> session, agent |-> ExtractAgentName(session), tokens |-> tokens,
   cost |-> tokens * GetModelCost(model), at |-> at, operation |-> operation]

\* POST of a heartbeat with token_usage, for an agent that exists
HeartbeatReports(agent, model, tokens) ==
  /\ Len(dbUsage) + Len(postedUsage) < MaxUsage
  /\ dbUsage' = Append(dbUsage, [model |-> model, session |-> <<agent, "cli">>,
                                 tokens |-> tokens, at |-> usageClock])
  /\ UNCHANGED <<fileUsage, usageClock, gatewayUsage, postedUsage>>

\* POST /api/tokens: in front of the others, of which the first are kept
CutToFirst(s) == SubSeq(s, 1, IF Len(s) > UsageLimit THEN UsageLimit ELSE Len(s))
PostUsage(model, session, tokens) ==
  LET record == UsageRecord(model, session, tokens, usageClock, "chat_completion") IN
  /\ Len(dbUsage) + Len(postedUsage) < MaxUsage
  /\ fileUsage' = CutToFirst(<<record>> \o fileUsage)
  /\ postedUsage' = <<record>> \o postedUsage
  /\ UNCHANGED <<dbUsage, usageClock, gatewayUsage>>

\* The clean-up filters the file only; token_usage is never pruned.
CleanUsage ==
  /\ fileUsage' = Filtered(fileUsage, {r \in ToSet(fileUsage) : r.at + UsageRetention >= usageClock})
  /\ fileUsage' # fileUsage
  /\ UNCHANGED <<dbUsage, usageClock, gatewayUsage, postedUsage>>

HourPasses ==
  /\ usageClock < MaxUsageTime /\ usageClock' = usageClock + 1
  /\ UNCHANGED <<dbUsage, fileUsage, gatewayUsage, postedUsage>>

-----------------------------------------------------------------------------
\* What a question about usage loads
LoadTokenDataFromDb ==
  LET newest == CutToFirst(Reverse(dbUsage))
  IN [i \in DOMAIN newest |->
        UsageRecord(newest[i].model, newest[i].session, newest[i].tokens, newest[i].at, "heartbeat")]

\* The key under which two records are the same usage
KeyWithoutModel(r) == <<r.session, r.at, r.tokens, r.operation>>
UsageKey(r) == <<r.session, r.model, r.at, r.tokens, r.operation>>
DedupeTokenRecords(records) ==
  LET isFirst(i) == \A k \in 1..(i - 1) : UsageKey(records[k]) # UsageKey(records[i])
      first == Filtered([i \in DOMAIN records |-> i], {i \in DOMAIN records : isFirst(i)})
  IN [k \in DOMAIN first |-> records[first[k]]]

\* Sessions without tokens and model are skipped.
DeriveFromSessions ==
  LET used == Filtered(gatewayUsage,
                      {s \in ToSet(gatewayUsage) : s.tokens # 0 \/ s.model # "none"})
  IN [i \in DOMAIN used |->
        UsageRecord(IF used[i].model = "none" THEN "unknown" ELSE used[i].model,
                    used[i].session, used[i].tokens, used[i].at, used[i].session[2])]

LoadTokenData ==
  LET combined == DedupeTokenRecords(LoadTokenDataFromDb \o fileUsage)
  IN IF combined # <<>> THEN combined ELSE DeriveFromSessions

\* "hour" is one unit of the clock, "day" two
FilterByTimeframe(records, timeframe) ==
  LET age == [hour |-> 1, day |-> 2]
  IN IF timeframe = "all" THEN records
     ELSE Filtered(records, {r \in ToSet(records) : r.at + age[timeframe] >= usageClock})

\* The loop that adds up a field
Total(rows, field) ==
  LET sum[i \in 0..Len(rows)] == IF i = 0 THEN 0 ELSE sum[i - 1] + rows[i][field]
  IN  sum[Len(rows)]

CalculateStats(records) ==
  [tokens |-> Total(records, "tokens"), cost |-> Total(records, "cost"), requests |-> Len(records)]

\* records grouped by one of their fields, and the statistics of each group
GroupsOf(records, field) == {r[field] : r \in ToSet(records)}
GroupStats(records, field) ==
  [g \in GroupsOf(records, field) |->
     CalculateStats(Filtered(records, {r \in ToSet(records) : r[field] = g}))]

\* GET ?action=stats
StatsAnswer(timeframe) ==
  LET records == FilterByTimeframe(LoadTokenData, timeframe)
  IN [summary |-> CalculateStats(records), models |-> GroupStats(records, "model"),
      sessions |-> GroupStats(records, "session"), agents |-> GroupStats(records, "agent")]

\* ?action=export: the records themselves (the rows of the CSV) and the same
\* statistics without the agents
ExportAnswer(timeframe) ==
  LET records == FilterByTimeframe(LoadTokenData, timeframe)
  IN [usage |-> records, summary |-> CalculateStats(records),
      models |-> GroupStats(records, "model"), sessions |-> GroupStats(records, "session")]

\* ?action=agent-costs: each agent with its models and its days
AgentCostsAnswer(timeframe) ==
  LET records == FilterByTimeframe(LoadTokenData, timeframe)
  IN [a \in GroupsOf(records, "agent") |->
        LET own == Filtered(records, {r \in ToSet(records) : r.agent = a})
        IN [stats |-> CalculateStats(own), models |-> GroupStats(own, "model"),
            timeline |-> GroupStats(own, "at")]]

\* ?action=trends: the hours of the last day within the period asked for
TrendsAnswer(timeframe) ==
  GroupStats(FilterByTimeframe(FilterByTimeframe(LoadTokenData, timeframe), "day"), "at")

-----------------------------------------------------------------------------
\* The gateway has no sessions, or one of each kind.
UsageInit ==
  /\ dbUsage = <<>> /\ fileUsage = <<>> /\ postedUsage = <<>>
  /\ usageClock = 0
  /\ gatewayUsage \in
       {<<>>, <<[model |-> "claude-sonnet-4", session |-> <<"apex", "direct">>, tokens |-> 2, at |-> 0],
                [model |-> "none", session |-> <<"gem", "group">>, tokens |-> 1, at |-> 0],
                [model |-> "none", session |-> <<"gem", "direct">>, tokens |-> 0, at |-> 0]>>}

UsageNext ==
  \/ \E model \in {"eu-claude-sonnet-4", "qwen-coder"}, tokens \in {1, 2} :
       HeartbeatReports("apex", model, tokens)
  \/ \E model \in {"claude-sonnet-4", "mystery"}, session \in {<<"apex", "cli">>, <<"none", "cli">>} :
       PostUsage(model, session, 1)
  \/ CleanUsage \/ HourPasses

UsageSpec == UsageInit /\ [][UsageNext]_usageVars

-----------------------------------------------------------------------------
SumOf(groups) ==
  LET all == SetToSeq(DOMAIN groups)
      rows == [k \in DOMAIN all |-> groups[all[k]]]
  IN [tokens |-> Total(rows, "tokens"), cost |-> Total(rows, "cost"),
      requests |-> Total(rows, "requests")]

\* Among the usage loaded there is exactly one record for every different
\* usage stored (session, model, hour, tokens and source), heartbeats beyond
\* the limit excepted: folding merges nothing that differs and leaves nothing
\* twice, though the same usage may stand in the table and in the file.
UsageCountedOnce ==
  LET stored == ToSet(LoadTokenDataFromDb) \cup ToSet(fileUsage)
      loaded == LoadTokenData
  IN stored # {} =>
       \A r \in stored :
         Cardinality({i \in DOMAIN loaded : loaded[i].model = r.model /\ loaded[i].session = r.session
                       /\ loaded[i].at = r.at /\ loaded[i].tokens = r.tokens
                       /\ loaded[i].operation = r.operation}) = 1

\* The breakdowns the panels show by model, session and agent, each agent's by
\* model and by day, the rows of an export and the hourly trend all add up to
\* the summary shown beside them, whichever period and source the records come from.
BreakdownsAddUp ==
  \A timeframe \in {"hour", "day", "all"} :
    LET s == StatsAnswer(timeframe)
        export == ExportAnswer(timeframe)
        costs == AgentCostsAnswer(timeframe)
    IN /\ \A part \in {"models", "sessions", "agents"} : SumOf(s[part]) = s.summary
       /\ CalculateStats(export.usage) = s.summary /\ SumOf(export.sessions) = export.summary
       /\ DOMAIN costs = DOMAIN s.agents
       /\ \A a \in DOMAIN costs :
            /\ costs[a].stats = s.agents[a]
            /\ SumOf(costs[a].models) = costs[a].stats /\ SumOf(costs[a].timeline) = costs[a].stats
       /\ timeframe # "all" => SumOf(TrendsAnswer(timeframe)) = s.summary

\* The token file holds the newest records posted: as many as the limit allows,
\* without those a clean-up found too old.
NewestUsageKept ==
  /\ IsPrefix(fileUsage, postedUsage)
  /\ Len(fileUsage) < UsageLimit =>
       \A i \in (Len(fileUsage) + 1)..Len(postedUsage) : postedUsage[i].at + UsageRetention < usageClock

\* Usage is neither lost nor counted twice between its sources and what the
\* panels show.
UsageSafe == UsageCountedOnce /\ BreakdownsAddUp /\ NewestUsageKept
=============================================================================
