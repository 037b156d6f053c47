----------------------------- MODULE LiveBoard -----------------------------
(***************************************************************************)
(* How a page stays in step with the database.  A mutation is broadcast on *)
(* the event bus and forwarded by api/events to every open stream;         *)
(* lib/use-server-events.ts applies the events to the store and reconnects *)
(* with backoff; lib/use-smart-poll.ts fetches lists while there is no     *)
(* stream; the task board (task-board-panel.tsx) changes a card before the *)
(* server has agreed.                                                      *)
(*                                                                         *)
(* One page, one list.  A fetch is answered by the server and applied      *)
(* later, after further awaits, in any order with other fetches and with   *)
(* the stream.  A row is its status.                                       *)
(***************************************************************************)
EXTENDS Naturals, Sequences, FiniteSets, SequencesExt, Lists

CONSTANTS
    View,              \* "tasks": the board; "agents": the agents of the store
    RowIds,
    Statuses,
    MaxAttempts,       \* SSE_MAX_RECONNECT_ATTEMPTS
    PageLimit,         \* rows of a list: 50
    MaxFetches,        \* fetches of the page at a time
    Budgets            \* bounds of a behaviour: changes by others and refreshes
                       \* (mutations), cards dropped (drags), and broken streams,
                       \* failed fetches and changes of the tab (faults)

VARIABLES
    rows,         \* the table: status by id
    lastRow,      \* the highest id ever given, AUTOINCREMENT
    stream,       \* "connecting", "open", "waiting", "stopped"
    attempts,     \* sseReconnectAttemptsRef
    wire,         \* events on their way to the page
    visible,      \* document.visibilityState
    cards,        \* the list of the store
    fetches,      \* fetchData: requested, or answered with the rows
    drags,        \* handleDrop: what was dropped, where, and how far it is
    leftOut,      \* rows beyond the limit of the list the page shows (observation)
    budget,       \* what is left of the bounds
    apart         \* page and table were brought out of step by a lost event, by
                  \* a list older than an event or by a move undone (observation)

liveVars == <<rows, lastRow, stream, attempts, wire, visible, cards, fetches, drags,
              leftOut, budget, apart>>

ASSUME LiveBoardAssumption ==
    /\ View \in {"tasks", "agents"} /\ MaxAttempts \in Nat /\ MaxFetches \in Nat
    /\ PageLimit \in Nat /\ RowIds \subseteq Nat \ {0}

NoRows == [i \in {} |-> 0]
Card(i, s) == [id |-> i, status |-> s]
CardsOf(r) == SetToSeq({Card(i, r[i]) : i \in DOMAIN r})
ShownAre(ids) == Range(cards) = {Card(i, rows[i]) : i \in ids} /\ Len(cards) = Cardinality(ids)
Spend(what) == budget[what] > 0 /\ budget' = [budget EXCEPT ![what] = @ - 1]
---------------------------------------------------------------------------
(* The table, the bus and the stream.                                      *)

\* eventBus.broadcast: only open streams listen.
Broadcast(type, i, s) ==
    IF stream = "open"
    THEN wire' = Append(wire, [type |-> type, id |-> i, status |-> s]) /\ apart' = apart
    ELSE wire' = wire /\ apart' = TRUE

Insert(s) ==
    /\ Spend("mutations") /\ lastRow + 1 \in RowIds
    /\ lastRow' = lastRow + 1
    /\ rows' = [j \in DOMAIN rows \cup {lastRow'} |-> IF j = lastRow' THEN s ELSE rows[j]]
    /\ Broadcast("created", lastRow', s)
    /\ UNCHANGED <<stream, attempts, visible, cards, fetches, drags, leftOut>>

Update(i, s) ==
    /\ Spend("mutations") /\ i \in DOMAIN rows
    /\ rows' = [rows EXCEPT ![i] = s]
    /\ Broadcast("updated", i, s)
    /\ UNCHANGED <<lastRow, leftOut, stream, attempts, visible, cards, fetches, drags>>

Delete(i) ==
    /\ Spend("mutations") /\ i \in DOMAIN rows
    /\ rows' = [j \in DOMAIN rows \ {i} |-> rows[j]]
    /\ Broadcast("deleted", i, rows[i])
    /\ UNCHANGED <<lastRow, leftOut, stream, attempts, visible, cards, fetches, drags>>

\* addTask, updateTask, deleteTask of the store.
AddCard(i, s) == <<Card(i, s)>> \o cards
SetCard(i, s) == [k \in DOMAIN cards |-> IF cards[k].id = i THEN Card(i, s) ELSE cards[k]]
DropCard(i) == Filtered(cards, {c \in Range(cards) : c.id # i})

\* The cases of dispatch: there is none for agent.deleted.
\* Fault: none for task.deleted either.
ReactsToNoDelete(type) == type # "deleted"
ReactsTo(type) == View = "tasks" \/ type # "deleted"

Dispatch ==
    LET e == Head(wire) IN
    /\ stream = "open" /\ wire # <<>>
    /\ wire' = Tail(wire)
    /\ cards' = CASE ~ReactsTo(e.type)   -> cards
                  [] e.type = "created"  -> AddCard(e.id, e.status)
                  [] e.type = "updated"  -> SetCard(e.id, e.status)
                  [] e.type = "deleted"  -> DropCard(e.id)
    /\ UNCHANGED <<lastRow, leftOut, rows, stream, attempts, visible, fetches, drags, budget, apart>>

\* onopen.
StreamOpens ==
    /\ stream = "connecting"
    /\ stream' = "open" /\ attempts' = 0
    /\ UNCHANGED <<lastRow, leftOut, rows, wire, visible, cards, fetches, drags, budget, apart>>

\* onerror, of an open stream or of an attempt: what was on its way is lost.
StreamBreaks ==
    /\ stream \in {"connecting", "open"}
    /\ Spend("faults")
    /\ IF attempts >= MaxAttempts
       THEN stream' = "stopped" /\ attempts' = attempts
       ELSE stream' = "waiting" /\ attempts' = attempts + 1
    /\ wire' = <<>> /\ apart' = (apart \/ wire # <<>>)
    /\ UNCHANGED <<lastRow, leftOut, rows, visible, cards, fetches, drags>>

\* The timer of the backoff.
Reconnect ==
    /\ stream = "waiting" /\ stream' = "connecting"
    /\ UNCHANGED <<lastRow, leftOut, rows, attempts, wire, visible, cards, fetches, drags, budget, apart>>
---------------------------------------------------------------------------
(* Fetching the list.                                                      *)

\* shouldPoll with pauseWhenSseConnected.
\* Fault: the condition on the stream is inverted.
ShouldPollInverted == visible /\ stream = "open"
ShouldPoll == visible /\ stream # "open"

Free == {k \in 1..MaxFetches : \A f \in fetches : f.key # k}
Request == \E k \in Free : /\ \A j \in Free : k <= j
                          /\ fetches' = fetches \cup {[key |-> k, got |-> NoRows, answered |-> FALSE]}

\* The interval, or the tab becoming visible.
Poll ==
    /\ View = "tasks" /\ ShouldPoll /\ Request
    /\ UNCHANGED <<lastRow, leftOut, rows, stream, attempts, wire, visible, cards, drags, budget, apart>>

\* The first fetch of the page and the button, or the chat panel opening for the
\* agents of the store, stream or not.
Refresh ==
    /\ Spend("mutations") /\ Request
    /\ UNCHANGED <<lastRow, leftOut, rows, stream, attempts, wire, visible, cards, drags, apart>>

\* GET: ORDER BY created_at DESC LIMIT 50.  Rows of one second, whose order is
\* the database's, are taken by id.
NewestRows(r) == {i \in DOMAIN r : Cardinality({j \in DOMAIN r : j > i}) < PageLimit}
ListOf(r) == [i \in NewestRows(r) |-> r[i]]
Answer(f) ==
    /\ ~f.answered
    /\ fetches' = (fetches \ {f}) \cup {[f EXCEPT !.got = ListOf(rows), !.answered = TRUE]}
    /\ UNCHANGED <<rows, lastRow, stream, attempts, wire, visible, cards, drags, leftOut, budget, apart>>

\* setTasks: the whole list is replaced.
Apply(f) ==
    /\ f.answered
    /\ cards' = CardsOf(f.got)
    /\ leftOut' = DOMAIN rows \ NewestRows(rows)
    /\ apart' = (f.got # ListOf(rows) \/ wire # <<>>)
    /\ fetches' = fetches \ {f}
    /\ UNCHANGED <<rows, lastRow, stream, attempts, wire, visible, drags, budget>>

FetchFails(f) ==
    /\ Spend("faults") /\ fetches' = fetches \ {f}
    /\ UNCHANGED <<lastRow, leftOut, rows, stream, attempts, wire, visible, cards, drags, apart>>

ToggleVisible ==
    /\ Spend("faults") /\ visible' = ~visible
    /\ UNCHANGED <<lastRow, leftOut, rows, stream, attempts, wire, cards, fetches, drags, apart>>
---------------------------------------------------------------------------
(* handleDrop.  A move to done asks for Aegis' approval first.             *)

Drop(k, s) ==
    /\ View = "tasks" /\ Spend("drags") /\ cards[k].status # s
    /\ drags' = drags \cup {[key |-> budget["drags"], id |-> cards[k].id, prev |-> cards[k].status, to |-> s,
                             at |-> IF s = "done" THEN "review" ELSE "put"]}
    /\ cards' = IF s = "done" THEN cards ELSE SetCard(cards[k].id, s)
    /\ UNCHANGED <<lastRow, leftOut, rows, stream, attempts, wire, visible, fetches, apart>>

Approved(d) ==
    /\ d.at = "review"
    /\ drags' = (drags \ {d}) \cup {[d EXCEPT !.at = "put"]}
    /\ cards' = SetCard(d.id, d.to)
    /\ UNCHANGED <<lastRow, leftOut, rows, stream, attempts, wire, visible, fetches, budget, apart>>

\* PUT /api/tasks: the row changes and is broadcast like any other change.
PutDone(d) ==
    /\ d.at = "put" /\ d.id \in DOMAIN rows
    /\ rows' = [rows EXCEPT ![d.id] = d.to]
    /\ Broadcast("updated", d.id, d.to)
    /\ drags' = drags \ {d}
    /\ UNCHANGED <<lastRow, leftOut, stream, attempts, visible, cards, fetches, budget>>

\* The review is missing, the row is gone or the request fails: the card goes
\* back to the status it had when it was dropped, whatever came since.
Revert(d) == SetCard(d.id, d.prev)
DragFails(d) ==
    /\ cards' = Revert(d)
    /\ apart' = (apart \/ d.id \notin DOMAIN rows \/ d.prev # rows[d.id] \/ wire # <<>>
                 \/ Cardinality({e \in drags : e.id = d.id}) > 1)
    /\ drags' = drags \ {d}
    /\ UNCHANGED <<lastRow, leftOut, rows, stream, attempts, wire, visible, fetches, budget>>

LiveInit ==
    /\ rows = NoRows /\ lastRow = 0 /\ leftOut = {} /\ stream = "connecting" /\ attempts = 0 /\ wire = <<>>
    /\ visible = TRUE /\ cards = <<>> /\ drags = {} /\ apart = FALSE /\ fetches = {}
    /\ budget \in Budgets

LiveNext ==
    \/ \E s \in Statuses : Insert(s) \/ \E i \in RowIds : Update(i, s)
    \/ \E i \in RowIds : Delete(i)
    \/ Dispatch \/ StreamOpens \/ StreamBreaks \/ Reconnect
    \/ Poll \/ Refresh \/ ToggleVisible
    \/ \E f \in fetches : Answer(f) \/ Apply(f) \/ FetchFails(f)
    \/ \E k \in DOMAIN cards, s \in Statuses : Drop(k, s)
    \/ \E d \in drags : Approved(d) \/ PutDone(d) \/ DragFails(d)

\* Timers fire, requests are answered and their answers applied.
LiveFairness ==
    /\ WF_liveVars(Poll) /\ WF_liveVars(Dispatch)
    /\ WF_liveVars(StreamOpens \/ StreamBreaks \/ Reconnect)
    /\ \A k \in 1..MaxFetches :
          WF_liveVars(\E f \in fetches : f.key = k /\ (Answer(f) \/ Apply(f)))
    /\ WF_liveVars(\E d \in drags : Approved(d) \/ PutDone(d) \/ DragFails(d))

LiveSpec == LiveInit /\ [][LiveNext]_liveVars
LiveFairSpec == LiveSpec /\ LiveFairness
---------------------------------------------------------------------------
\* lib/use-server-events.ts: the stream gives instant updates.  With no event on
\* its way and no move under way the page shows each row as it is in the table and
\* nothing else, except after an event lost with a stream, a list older than an
\* event, or a move undone over an event.  Missing are only rows that were beyond
\* the limit of the list last fetched: rows added since are all there.
StreamKeepsInStep ==
    ~apart /\ wire = <<>> /\ drags = {} => ShownAre(DOMAIN rows \ leftOut)

\* When the stream is given up, polling makes the page show the newest rows, as
\* many as a list holds, and keeps it there, whatever was lost before and in
\* whatever order fetches come back.
PollingCatchesUp ==
    <>[](stream = "stopped" /\ visible) => <>[]ShownAre(NewestRows(rows))
=============================================================================
