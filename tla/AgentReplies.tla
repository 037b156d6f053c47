---------------------------- MODULE AgentReplies ----------------------------
(***************************************************************************)
(* How a user's message becomes an agent's answer: the Telegram bots       *)
(* (lib/telegram), the War Room endpoint (chat/omni), the agent service    *)
(* they share (lib/ai) and the memory service it asks (lib/memory).        *)
(*                                                                         *)
(* Each message is a job of its own; the jobs run interleaved and wait at  *)
(* every call to Telegram, to the memory and to a model, each of which may *)
(* fail.  A text is abstracted to the agent names it contains.             *)
(***************************************************************************)
EXTENDS Naturals, Sequences, FiniteSets, SequencesExt

CONSTANTS
  Incoming,        \* the messages users may write, of IncomingSet
  MaxJobs,         \* bound: messages in all
  MaxJobFaults,    \* bound: failed calls
  HistoryLimit,    \* rows of the conversation a model is shown; 20 in the code
  ToolTurns        \* rounds of CLAUD's tool loop; 5 in the code

\* AGENT_NAMES, in the order detectAgentMention tries them (three of the six).
AgentOrder == <<"CLAWDIO", "JESSY", "APEX">>
AgentNameSet == ToSet(AgentOrder)
FallbackAgent == "JESSY"

IncomingSet ==
  [via : {"telegram"}, bot : AgentNameSet \cup {"CLAUD", "GEM"},
   media : {"text", "voice", "photo", "video", "other"}, group : BOOLEAN,
   named : SUBSET (AgentNameSet \cup {"CLAUD", "GEM"}), contact : {"ann", "bob"}]
  \cup
  [via : {"room"}, override : AgentNameSet \cup {"none"}, contact : {"ann", "none"},
   conv : {"known", "new"}]

ASSUME AgentRepliesAssumption ==
  /\ Incoming \subseteq IncomingSet
  /\ {MaxJobs, MaxJobFaults, HistoryLimit} \subseteq Nat
  /\ ToolTurns \in Nat \ {0}

VARIABLES
  jobs,       \* the messages taken in, with how far each got
  talk,       \* conversation -> the rows of the messages table, in order
  memories,   \* what the memory service holds
  toMemorize, \* exchanges being sent to it without waiting
  broken,     \* agents whose row has status 'error'
  jobFaults   \* failed calls so far

replyVars == <<jobs, talk, memories, toMemorize, broken, jobFaults>>

JobIds == 1..Len(jobs)
Active(j, stage) == j \in JobIds /\ jobs[j].stage = stage

\* createConversation makes a fresh id each time, so every Telegram message is
\* a conversation of its own; the War Room may name one it had before.
KnownConversation == 0
NewConversation == Len(jobs) + 1
ConversationOf(m) ==
  IF m.via = "room" /\ m.conv = "known" THEN KnownConversation ELSE NewConversation
Conversations == 0..MaxJobs

\* memUserId: memories are kept per contact, or per conversation without one.
MemUser(j) ==
  IF jobs[j].msg.contact = "none" THEN <<"conversation", jobs[j].conv>>
  ELSE <<"contact", jobs[j].msg.contact>>

\* getAgentByName leaves out agents in error.
GetAgentByName(n) == IF n \in AgentNameSet \ broken THEN n ELSE "none"

\* detectAgentMention: the first of AGENT_NAMES the text contains.
DetectAgentMention(named) ==
  LET hits == SelectSeq(AgentOrder, LAMBDA n : n \in named)
  IN IF hits = <<>> THEN "none" ELSE Head(hits)

\* isBotAddressed looks at the text or the caption; a voice message has neither.
AddressedAlways(m) == TRUE
IsBotAddressed(m) == m.media # "voice" /\ m.bot \in m.named

ToStage(j, stage) == jobs' = [jobs EXCEPT ![j].stage = stage]
SetReply(j, reply) == jobs' = [jobs EXCEPT ![j].stage = "send", ![j].reply = reply]
\* The catch around the routing: any error becomes a reply.
GivesUp(j) == ToStage(j, "ignored")
Apologises(j) == SetReply(j, "error")
Fault == jobFaults < MaxJobFaults /\ jobFaults' = jobFaults + 1

-----------------------------------------------------------------------------
\* The webhook answers Telegram at once and processes the update afterwards;
\* messages of other chats and unknown bots are acknowledged and dropped.
\* In a group, and for a kind of message it does not know, a bot keeps silent.
Webhook(m) ==
  /\ m.via = "telegram"
  /\ Len(jobs) < MaxJobs
  /\ LET silent == (m.group /\ ~IsBotAddressed(m)) \/ m.media = "other"
         direct == m.media = "text" \/ (m.media = "video" /\ m.bot # "GEM")
     IN jobs' = Append(jobs,
          [msg |-> m, conv |-> ConversationOf(m), agent |-> "none", reply |-> "none",
           history |-> <<>>, recalled |-> {}, turn |-> 0,
           stage |-> IF silent THEN "ignored" ELSE IF direct THEN "route" ELSE "fetch"])
  /\ UNCHANGED <<talk, memories, toMemorize, broken, jobFaults>>

\* transcribeVoice and downloadTelegramFile; when they fail the user is told.
FetchMedia(j) ==
  /\ Active(j, "fetch")
  /\ \/ ToStage(j, "route") /\ UNCHANGED jobFaults
     \/ SetReply(j, "could_not_read") /\ Fault
  /\ UNCHANGED <<talk, memories, toMemorize, broken>>

\* The routing by bot.  clawdioReport selects tasks.assignee, a column the
\* schema does not have, so the CLAWDIO bot always lands in the catch.
Route(j) ==
  /\ Active(j, "route")
  /\ LET m == jobs[j].msg
         mentioned == DetectAgentMention(m.named)
         target == GetAgentByName(IF mentioned = "none" THEN m.bot ELSE mentioned)
         agent == IF target = "none" THEN GetAgentByName(m.bot) ELSE target
     IN CASE m.bot = "CLAUD" -> ToStage(j, "claud")
          [] m.bot = "GEM" -> ToStage(j, "gem")
          [] m.bot \in AgentNameSet /\ m.media = "video" -> SetReply(j, "redirect")
          [] m.bot = "CLAWDIO" /\ m.media # "video" -> Apologises(j)
          [] OTHER -> IF agent = "none" THEN Apologises(j)
                      ELSE jobs' = [jobs EXCEPT ![j].stage = "agent", ![j].agent = agent]
  /\ UNCHANGED <<talk, memories, toMemorize, broken, jobFaults>>

\* callClaud: a round ends the turn or asks for tools, at most ToolTurns
\* times.  A round that stops for another reason sends an empty tool result,
\* which the next call refuses.
ClaudGoesOn(j) == jobs[j].turn + 1 < ToolTurns
ClaudTurn(j) ==
  /\ Active(j, "claud")
  /\ \/ SetReply(j, "answer") /\ UNCHANGED jobFaults
     \/ /\ jobs' = IF ClaudGoesOn(j)
                   THEN [jobs EXCEPT ![j].turn = @ + 1]
                   ELSE [jobs EXCEPT ![j].stage = "send", ![j].reply = "limit"]
        /\ UNCHANGED jobFaults
     \/ Apologises(j) /\ Fault
  /\ UNCHANGED <<talk, memories, toMemorize, broken>>

CallGem(j) ==
  /\ Active(j, "gem")
  /\ \/ SetReply(j, "answer") /\ UNCHANGED jobFaults
     \/ Apologises(j) /\ Fault
  /\ UNCHANGED <<talk, memories, toMemorize, broken>>

\* POST chat/omni: without an override CLAWDIO is asked which agent fits, and
\* JESSY is it when that fails.
RoomRequest(m) ==
  /\ m.via = "room"
  /\ Len(jobs) < MaxJobs
  /\ jobs' = Append(jobs,
       [msg |-> m, conv |-> ConversationOf(m), agent |-> m.override, reply |-> "none",
        history |-> <<>>, recalled |-> {}, turn |-> 0,
        stage |-> IF m.override = "none" THEN "routing" ELSE "load"])
  /\ UNCHANGED <<talk, memories, toMemorize, broken, jobFaults>>

RouteMessage(j) ==
  /\ Active(j, "routing")
  /\ \/ \E n \in AgentNameSet :
          jobs' = [jobs EXCEPT ![j].stage = "load", ![j].agent = n] /\ UNCHANGED jobFaults
     \/ jobs' = [jobs EXCEPT ![j].stage = "load", ![j].agent = FallbackAgent] /\ Fault
  /\ UNCHANGED <<talk, memories, toMemorize, broken>>

LoadAgent(j) ==
  /\ Active(j, "load")
  /\ LET wanted == GetAgentByName(jobs[j].agent)
         agent == IF wanted = "none" THEN GetAgentByName(FallbackAgent) ELSE wanted
     IN IF agent = "none" THEN Apologises(j)
        ELSE jobs' = [jobs EXCEPT ![j].stage = "agent", ![j].agent = agent]
  /\ UNCHANGED <<talk, memories, toMemorize, broken, jobFaults>>

-----------------------------------------------------------------------------
\* processMessageWithAgent up to its first wait: the history is the first
\* HistoryLimit rows in the order of writing, then the question is stored.
HistoryOf(c) == SubSeq(talk[c], 1, IF Len(talk[c]) < HistoryLimit THEN Len(talk[c]) ELSE HistoryLimit)
AskedNotStored(j) == talk
Asked(j) == [talk EXCEPT ![jobs[j].conv] = Append(@, [from |-> "user", job |-> j])]
AgentStarts(j) ==
  /\ Active(j, "agent")
  /\ jobs' = [jobs EXCEPT ![j].stage = "recall", ![j].history = HistoryOf(jobs[j].conv)]
  /\ talk' = Asked(j)
  /\ UNCHANGED <<memories, toMemorize, broken, jobFaults>>

\* retrieve and retrieveShared: what this agent, and what any agent, keeps for
\* this user; a search that fails yields nothing.
RecallForAgent(j) == {m \in memories : m.agent = jobs[j].agent}
Recall(j) == {m \in memories : m.user = MemUser(j)}
Recalls(j) ==
  /\ Active(j, "recall")
  /\ \/ jobs' = [jobs EXCEPT ![j].stage = "model", ![j].recalled = Recall(j)] /\ UNCHANGED jobFaults
     \/ ToStage(j, "model") /\ Fault
  /\ UNCHANGED <<talk, memories, toMemorize, broken>>

\* sendToAgent through OpenClaw or callAgent directly: the answer is stored,
\* the exchange goes to the memory without waiting; an error skips both.
ModelAnswers(j) ==
  /\ Active(j, "model")
  /\ SetReply(j, "answer")
  /\ talk' = [talk EXCEPT ![jobs[j].conv] = Append(@, [from |-> "agent", job |-> j])]
  /\ toMemorize' = toMemorize \cup {[agent |-> jobs[j].agent, user |-> MemUser(j), job |-> j]}
  /\ UNCHANGED <<memories, broken, jobFaults>>
ModelFails(j) ==
  /\ Active(j, "model")
  /\ Apologises(j) /\ Fault
  /\ UNCHANGED <<talk, memories, toMemorize, broken>>

\* memorize: best effort, in any order.
Memorize(x) ==
  /\ toMemorize' = toMemorize \ {x}
  /\ \/ memories' = memories \cup {x} /\ UNCHANGED jobFaults
     \/ Fault /\ UNCHANGED memories
  /\ UNCHANGED <<jobs, talk, broken>>

\* sendMessage; a refusal, of its Markdown for example, is only logged.
SendReply(j) ==
  /\ Active(j, "send")
  /\ \/ ToStage(j, "answered") /\ UNCHANGED jobFaults
     \/ ToStage(j, "unheard") /\ Fault
  /\ UNCHANGED <<talk, memories, toMemorize, broken>>

\* An agent's row turns to 'error' and the seed sets every status again.
AgentBreaks(n) ==
  /\ broken = {} /\ broken' = {n}
  /\ UNCHANGED <<jobs, talk, memories, toMemorize, jobFaults>>
SeedAgents ==
  /\ broken # {} /\ broken' = {}
  /\ UNCHANGED <<jobs, talk, memories, toMemorize, jobFaults>>

ReplyInit ==
  /\ jobs = <<>>
  /\ talk = [c \in Conversations |-> <<>>]
  /\ memories = {} /\ toMemorize = {} /\ broken = {} /\ jobFaults = 0

JobStep(j) ==
  \/ FetchMedia(j) \/ Route(j) \/ ClaudTurn(j) \/ CallGem(j)
  \/ RouteMessage(j) \/ LoadAgent(j)
  \/ AgentStarts(j) \/ Recalls(j) \/ ModelAnswers(j) \/ ModelFails(j) \/ SendReply(j)

ReplyNext ==
  \/ \E m \in Incoming : Webhook(m) \/ RoomRequest(m)
  \/ \E j \in JobIds : JobStep(j)
  \/ \E x \in toMemorize : Memorize(x)
  \/ \E n \in AgentNameSet : AgentBreaks(n)
  \/ SeedAgents

ReplySpec == ReplyInit /\ [][ReplyNext]_replyVars

\* Every call of a job ends, in an answer or an error.
ReplyFairness == \A j \in 1..MaxJobs : WF_replyVars(JobStep(j))
ReplyFairSpec == ReplySpec /\ ReplyFairness

-----------------------------------------------------------------------------
\* What is remembered of one patient is never put into the answer to another:
\* every memory given to a model was stored for the user it answers, whatever
\* agents and conversations the two exchanges went through.
MemoryStaysWithUser ==
  \A j \in JobIds : \A m \in jobs[j].recalled : m.user = MemUser(j)

\* A conversation holds no answer without the question before it, and at most
\* one answer to each, also when several of its messages are worked on at once.
AnswerFollowsQuestion ==
  \A c \in Conversations : \A i \in DOMAIN talk[c] :
    talk[c][i].from = "agent" =>
      /\ \E k \in 1..(i - 1) : talk[c][k] = [from |-> "user", job |-> talk[c][i].job]
      /\ \A k \in DOMAIN talk[c] : talk[c][k] = talk[c][i] => k = i

\* In a group a bot speaks only when the message names it.
SilentUnlessNamed ==
  \A j \in JobIds :
    jobs[j].msg.via = "telegram" /\ jobs[j].msg.group /\ jobs[j].stage = "answered"
      => jobs[j].msg.bot \in jobs[j].msg.named

\* Every message a bot or the War Room takes up is answered, with an apology
\* when some call failed: no failure on the way leaves it without a reply.
EveryJobAnswers ==
  \A j \in 1..MaxJobs :
    (j \in JobIds /\ jobs[j].stage # "ignored")
      ~> (j \in JobIds /\ jobs[j].stage \in {"answered", "unheard"})

\* "Fetch recent conversation history": a question asked after an answer of
\* the same conversation was stored is worked on knowing that answer.
HistoryIsRecent ==
  \A j \in JobIds : \A i \in DOMAIN talk[jobs[j].conv] :
    LET rows == talk[jobs[j].conv] IN
    /\ i > 1 /\ rows[i] = [from |-> "user", job |-> j]
    => rows[i - 1] \in ToSet(jobs[j].history)

\* Exchanges worked on at once do not mix.
RepliesSafe == MemoryStaysWithUser /\ AnswerFollowsQuestion /\ SilentUnlessNamed
=============================================================================
