-------------------------------- MODULE Chat --------------------------------
(***************************************************************************)
(* Chat messages: POST /api/chat/messages with its two suspensions, the    *)
(* chat panel that shows a message before the server has it, the composer  *)
(* of the agent-comms panel, and the server-sent events that bring every   *)
(* stored message to the browser a second time.                            *)
(*                                                                         *)
(* A row of `messages` is its position in `chatRows`.  A card of the panel has *)
(* the positive id of its row, or the negative id it was given while the   *)
(* request is under way.                                                   *)
(***************************************************************************)
EXTENDS Integers, Sequences, SequencesExt, FiniteSets, Lists

CONSTANTS
  Threads,      \* conversations of the chat panel
  Addressed,    \* those whose messages have a recipient: 'agent_', or all begun
                \* with '@name'
  MaxSends,     \* bound on requests
  MaxChatLoads,     \* bound on fetches of a thread
  MaxLost,      \* bound on answers the network loses
  ThreadLimit   \* rows that one fetch of a thread returns

ASSUME ChatAssumption ==
  /\ Addressed \subseteq Threads
  /\ {MaxSends, MaxChatLoads, MaxLost, ThreadLimit} \subseteq Nat

VARIABLES
  chatRows,       \* table messages
  calls,      \* requests to send, in the order the browser made them
  chatCards,      \* chatMessages of the store
  thread,     \* activeConversation
  chatLoads,      \* fetches of a thread: [of, list, at]
  chatFeed,       \* rows broadcast and not yet dispatched in the browser
  composing,  \* `sending` of the agent-comms panel
  lost        \* answers lost so far

chatVars == <<chatRows, calls, chatCards, thread, chatLoads, chatFeed, composing, lost>>

Nowhere == "none"
Coord == "coord"  \* the composer's thread, which the chat panel lists like any other
ChatIds == DOMAIN chatRows

ChatInit ==
  /\ chatRows = <<>>
  /\ calls = <<>>
  /\ chatCards = <<>>
  /\ thread = Nowhere
  /\ chatLoads = <<>>
  /\ chatFeed = <<>>
  /\ composing = FALSE
  /\ lost = 0

StoredCard(id) == [id |-> id, in |-> chatRows[id].in, state |-> "stored"]

(***************************************************************************)
(* The store.                                                              *)
(***************************************************************************)
AddAnyway(card) == Append(chatCards, card)

\* addChatMessage
AddChatMessage(card) ==
  IF card.id > 0 /\ \E i \in DOMAIN chatCards : chatCards[i].id = card.id THEN chatCards ELSE Append(chatCards, card)

\* replacePendingMessage and updatePendingMessage: a card that is gone stays gone
ReplacePending(temp, card) == [i \in DOMAIN chatCards |-> IF chatCards[i].id = temp THEN card ELSE chatCards[i]]

MarkedSilently(temp, state) == chatCards
Marked(temp, state) == [i \in DOMAIN chatCards |-> IF chatCards[i].id = temp THEN [chatCards[i] EXCEPT !.state = state] ELSE chatCards[i]]

\* removePendingMessage
WithoutCard(temp) == Filtered(chatCards, {c \in Range(chatCards) : c.id # temp})

(***************************************************************************)
(* The chat panel.                                                         *)
(***************************************************************************)
ChatRequest(temp, conv, way) ==
  /\ Len(calls) < MaxSends
  /\ calls' = Append(calls, [temp |-> temp, in |-> conv, way |-> way, at |-> "posted", row |-> 0, heard |-> TRUE])

\* handleSend: the card appears at once, with a negative id
HandleSend ==
  /\ thread # Nowhere
  /\ LET temp == -(Len(calls) + 1) IN
       /\ ChatRequest(temp, thread, "send")
       /\ chatCards' = AddChatMessage([id |-> temp, in |-> thread, state |-> "sending"])
  /\ UNCHANGED <<chatRows, thread, chatLoads, chatFeed, composing, lost>>

\* handleRetry on a failed card
HandleRetry(i) ==
  /\ chatCards[i].state = "failed"
  /\ ChatRequest(chatCards[i].id, chatCards[i].in, "retry")
  /\ chatCards' = Marked(chatCards[i].id, "sending")
  /\ UNCHANGED <<chatRows, thread, chatLoads, chatFeed, composing, lost>>

\* The failed card's second button: removePendingMessage
Dismiss(i) ==
  /\ chatCards[i].state = "failed"
  /\ chatCards' = WithoutCard(chatCards[i].id)
  /\ UNCHANGED <<chatRows, calls, thread, chatLoads, chatFeed, composing, lost>>

\* sendComposedMessage of the agent-comms panel, in coordinator mode
Compose ==
  /\ ~composing
  /\ composing' = TRUE
  /\ ChatRequest(0, Coord, "compose")
  /\ UNCHANGED <<chatRows, chatCards, thread, chatLoads, chatFeed, lost>>

LoadThread(conv) == chatLoads' = Append(chatLoads, [of |-> conv, list |-> <<>>, at |-> "asked"])

\* handleSelect: the effect that follows chatLoads the thread.  A poll of
\* useSmartPoll does the same for the thread that is shown.
SelectThread(conv) ==
  /\ Len(chatLoads) < MaxChatLoads
  /\ thread' = conv
  /\ LoadThread(conv)
  /\ UNCHANGED <<chatRows, calls, chatCards, chatFeed, composing, lost>>

\* GET /api/chat/messages: the oldest rows of the thread
LoadAnswered(l) ==
  /\ chatLoads[l].at = "asked"
  /\ LET all == Filtered([i \in ChatIds |-> i], {i \in ChatIds : chatRows[i].in = chatLoads[l].of}) IN
       chatLoads' = [chatLoads EXCEPT ![l].at = "answered", ![l].list = SubSeq(all, 1, IF Len(all) < ThreadLimit THEN Len(all) ELSE ThreadLimit)]
  /\ UNCHANGED <<chatRows, calls, chatCards, thread, chatFeed, composing, lost>>

\* loadMessages goes on: whatever thread is shown now, the list is replaced
LoadArrives(l) ==
  /\ chatLoads[l].at = "answered"
  /\ chatLoads' = [chatLoads EXCEPT ![l].at = "over", ![l].list = <<>>]
  /\ chatCards' = [i \in DOMAIN chatLoads[l].list |-> StoredCard(chatLoads[l].list[i])]
  /\ UNCHANGED <<chatRows, calls, thread, chatFeed, composing, lost>>

\* useServerEvents dispatches 'chat.message'
EventArrives ==
  /\ chatFeed # <<>>
  /\ chatFeed' = Tail(chatFeed)
  /\ chatCards' = AddChatMessage(StoredCard(Head(chatFeed)))
  /\ UNCHANGED <<chatRows, calls, thread, chatLoads, composing, lost>>

(***************************************************************************)
(* The handler.                                                            *)
(***************************************************************************)
ChatAt(c, stage) == calls' = [calls EXCEPT ![c].at = stage]

\* The chat panel names a recipient only for an agent's thread or a mention; the
\* composer always names the coordinator.
HasRecipient(call) == call.way = "compose" \/ call.in \in Addressed
Coordinated(call) == call.in = Coord /\ HasRecipient(call)

\* createChatReply for row q: stored, then broadcast
ReplyTo(q) == [in |-> chatRows[q].in, answers |-> q]

\* Validation, role or rate limit refuse the request
ChatRefuse(c) ==
  /\ calls[c].at = "posted"
  /\ ChatAt(c, "refused")
  /\ UNCHANGED <<chatRows, chatCards, thread, chatLoads, chatFeed, composing, lost>>

\* The row is stored.  Without a recipient nothing is forwarded and the row
\* is broadcast and answered at once.
Store(c) ==
  LET id == Len(chatRows) + 1
      addressed == HasRecipient(calls[c])
  IN
  /\ calls[c].at = "posted"
  /\ chatRows' = Append(chatRows, [in |-> calls[c].in, answers |-> 0])
  /\ calls' = [calls EXCEPT ![c].row = id, ![c].at = IF addressed THEN "invoking" ELSE "answered"]
  /\ chatFeed' = IF addressed THEN chatFeed ELSE Append(chatFeed, id)
  /\ UNCHANGED <<chatCards, thread, chatLoads, composing, lost>>

OnlyDelivered(outcome) == outcome = "delivered"

\* Which outcomes of the gateway call the coordinator's thread hears of
ChatAnswered(outcome) == outcome \in {"delivered", "failed"}

\* The gateway call returns.  "delivered" includes a failure whose output
\* says 'accepted'.  A delivered coordinator message with a run is awaited.
InvokeEnds(c, outcome, run) ==
  LET id == Len(chatRows) + 1
      coordinated == calls[c].in = Coord
      waits == coordinated /\ outcome = "delivered" /\ run
      reply == IF coordinated /\ ChatAnswered(outcome) THEN <<id>> ELSE <<>>
  IN
  /\ calls[c].at = "invoking"
  /\ chatRows' = chatRows \o [i \in DOMAIN reply |-> ReplyTo(calls[c].row)]
  /\ ChatAt(c, IF waits THEN "waiting" ELSE "answered")
  /\ chatFeed' = chatFeed \o reply \o (IF waits THEN <<>> ELSE <<calls[c].row>>)
  /\ UNCHANGED <<chatCards, thread, chatLoads, composing, lost>>

WaitUnbounded(c) == calls[c].at = "waiting" /\ UNCHANGED chatVars

\* agent.wait returns, times out or fails: one more reply in each case
WaitEnds(c) ==
  /\ calls[c].at = "waiting"
  /\ chatRows' = Append(chatRows, ReplyTo(calls[c].row))
  /\ ChatAt(c, "answered")
  /\ chatFeed' = chatFeed \o <<Len(chatRows) + 1, calls[c].row>>
  /\ UNCHANGED <<chatCards, thread, chatLoads, composing, lost>>

(***************************************************************************)
(* The answer in the browser.                                              *)
(***************************************************************************)
Heard(c) == calls' = [calls EXCEPT ![c].heard = FALSE]

\* 201: handleSend puts the row in the place of its card, handleRetry removes
\* the card and adds the row, the composer chatLoads its thread again
AnswerArrives(c) ==
  LET call == calls[c] IN
  /\ call.heard /\ call.at = "answered"
  /\ Heard(c)
  /\ chatCards' = CASE call.way = "send" -> ReplacePending(call.temp, StoredCard(call.row))
                [] call.way = "retry" ->
                     LET left == WithoutCard(call.temp) IN
                     IF \E i \in DOMAIN left : left[i].id = call.row THEN left ELSE Append(left, StoredCard(call.row))
                [] call.way = "compose" -> chatCards
  /\ composing' = (composing /\ call.way # "compose")
  /\ UNCHANGED <<chatRows, thread, chatLoads, chatFeed, lost>>

\* handleSend and handleRetry fall into their error branch
Failed(c) ==
  /\ calls[c].heard
  /\ Heard(c)
  /\ chatCards' = Marked(calls[c].temp, "failed")
  /\ composing' = (composing /\ calls[c].way # "compose")
  /\ UNCHANGED <<chatRows, thread, chatLoads, chatFeed>>

\* A status other than 2xx
RefusalArrives(c) == calls[c].at = "refused" /\ Failed(c) /\ UNCHANGED lost

\* No answer at all, while the server goes on with the request
ChatAnswerLost(c) == lost < MaxLost /\ lost' = lost + 1 /\ Failed(c)

Server(c) ==
  \/ Store(c)
  \/ \E outcome \in {"delivered", "failed"}, run \in BOOLEAN : InvokeEnds(c, outcome, run)
  \/ WaitEnds(c)

ChatNext ==
  \/ HandleSend
  \/ Compose
  \/ \E i \in DOMAIN chatCards : HandleRetry(i) \/ Dismiss(i)
  \/ \E conv \in Threads : SelectThread(conv)
  \/ EventArrives
  \/ \E l \in DOMAIN chatLoads : LoadAnswered(l) \/ LoadArrives(l)
  \/ \E c \in DOMAIN calls : Server(c) \/ ChatRefuse(c) \/ AnswerArrives(c) \/ RefusalArrives(c) \/ ChatAnswerLost(c)

ChatSpec == ChatInit /\ [][ChatNext]_chatVars

\* runOpenClaw kills a command after its time limit, so the handler goes on,
\* and fetch settles
ChatFairness ==
  \A c \in 1 .. MaxSends :
    WF_chatVars(/\ c \in DOMAIN calls
                /\ Server(c) \/ AnswerArrives(c) \/ RefusalArrives(c))

ChatFairSpec == ChatSpec /\ ChatFairness

(***************************************************************************)
(* Properties.                                                             *)
(***************************************************************************)
\* handleSend and handleRetry: a card that says 'sending', or a composer that
\* is disabled, has a request on its way whose end it will be told of, however
\* lists are replaced and threads switched meanwhile.
SendingIsUnderWay ==
  /\ \A i \in DOMAIN chatCards : chatCards[i].state = "sending" =>
       \E c \in DOMAIN calls : calls[c].temp = chatCards[i].id /\ calls[c].heard
  /\ composing => \E c \in DOMAIN calls : calls[c].way = "compose" /\ calls[c].heard

\* "Coordinator mode should always show visible coordinator feedback in
\* thread": a message to the coordinator that was handled to the end has a
\* reply, stored after it and broadcast before it.  One written to the same
\* thread in the chat panel has no recipient, and gets none.
CoordinatorAnswers ==
  \A c \in DOMAIN calls :
    Coordinated(calls[c]) /\ calls[c].at = "answered" =>
      \E r \in ChatIds : r > calls[c].row /\ chatRows[r].answers = calls[c].row

\* addChatMessage: a message that was sent by a retry has one card, in
\* whatever order its answer, its event and a fetched list arrive.
RetryShowsOnce ==
  \A c \in DOMAIN calls :
    calls[c].way = "retry" /\ calls[c].row # 0 =>
      Cardinality({i \in DOMAIN chatCards : chatCards[i].id = calls[c].row}) <= 1

\* handleSend: a message does not say 'sending' for ever.
SendSettles ==
  \A c \in 1 .. MaxSends :
    (c \in DOMAIN calls /\ calls[c].heard) ~> (c \in DOMAIN calls /\ ~calls[c].heard)

\* What the chat shows of a message is what became of it.
ChatSafe == SendingIsUnderWay /\ CoordinatorAnswers /\ RetryShowsOnce
=============================================================================
