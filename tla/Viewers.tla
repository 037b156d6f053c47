------------------------------- MODULE Viewers -------------------------------
(***************************************************************************)
(* The panels that only look: the user picks a period, a filter, an agent, *)
(* a page or a query, and the panel loads what belongs to it.  No load is  *)
(* ever cancelled and answers come in any order, so what a panel shows may *)
(* belong to something picked before.                                      *)
(*                                                                         *)
(* A viewer is described by when it asks, whether it polls and pages, and  *)
(* where the name above its data comes from.  Of an answer the model keeps *)
(* what it was asked for and how many rows there were.                     *)
(***************************************************************************)
EXTENDS Naturals, Sequences, FiniteSets, SequencesExt

CONSTANTS
  Viewers,         \* which viewers are open, a subset of AllViewers
  ViewChoices,         \* what can be picked; "short" is a query below two letters
  RowsPerPage,     \* limit; 50 in the code
  MaxViewRows,     \* bound: rows of one choice
  MaxAsked,        \* bound: loads under way for each part
  MaxPicks,        \* bound: what the user does, and changes of the rows
  MaxViewFaults    \* bound: failed loads

VARIABLES
  viewer,      \* the viewer that is open
  picked,      \* the choice and page the controls show
  onScreen,    \* part -> the choice and page its data is for
  title,       \* the choice named above the data
  total,       \* rows in all, from the last answer
  asked,       \* loads under way, in the order of asking
  debounce,    \* the query whose timer runs, or "none"
  viewRows,    \* the server's rows of each choice
  pollable,    \* polling is allowed: the tab is visible and the connection as wanted
  overtaken,   \* some answer came after one that was asked for later
  picks, viewFaults

viewVars == <<viewer, picked, onScreen, title, total, asked, debounce, viewRows,
              pollable, overtaken, picks, viewFaults>>
controls == <<debounce, pollable, viewFaults>>

-----------------------------------------------------------------------------
\* asks: "pick" loads on every change of the controls, "poll" only when the
\* poll fires, "typing" after a pause, "click" when a row or button is pressed.
\* failure: a refusal's body is "shown" as if it were data, the data are "kept",
\* or "cleared" on any failure.
TokenDashboard == [asks |-> "pick", polls |-> FALSE, pages |-> FALSE,
                   parts |-> {"stats", "trend"}, failure |-> "shown"]
AgentCosts == [asks |-> "pick", polls |-> FALSE, pages |-> FALSE,
               parts |-> {"stats"}, failure |-> "shown"]
AuditTrail == [asks |-> "pick", polls |-> TRUE, pages |-> TRUE,
               parts |-> {"stats"}, failure |-> "kept"]
AgentHistory == [asks |-> "pick", polls |-> TRUE, pages |-> TRUE,
                 parts |-> {"stats"}, failure |-> "kept"]
AgentComms == [asks |-> "poll", polls |-> TRUE, pages |-> FALSE,
               parts |-> {"stats"}, failure |-> "kept"]
Inbox == [asks |-> "poll", polls |-> TRUE, pages |-> FALSE,
          parts |-> {"stats"}, failure |-> "kept"]
HeaderSearch == [asks |-> "typing", polls |-> FALSE, pages |-> FALSE,
                 parts |-> {"stats"}, failure |-> "cleared"]
JobDetail == [asks |-> "click", polls |-> FALSE, pages |-> FALSE,
              parts |-> {"stats"}, failure |-> "kept"]

ViewerOf == [tokens |-> TokenDashboard, costs |-> AgentCosts, audit |-> AuditTrail,
             history |-> AgentHistory, comms |-> AgentComms, inbox |-> Inbox,
             search |-> HeaderSearch, job |-> JobDetail]
AllViewers == DOMAIN ViewerOf
Viewed == ViewerOf[viewer]
Counted == Viewed.pages \/ viewer = "inbox"

ASSUME ViewersAssumption ==
  /\ Viewers \subseteq AllViewers /\ "short" \in ViewChoices
  /\ "none" \notin ViewChoices /\ ViewChoices # {"short"}
  /\ RowsPerPage \in Nat \ {0}
  /\ {MaxViewRows, MaxAsked, MaxPicks, MaxViewFaults} \subseteq Nat

Nothing == [what |-> "none", page |-> 0]
TotalPages == (total + RowsPerPage - 1) \div RowsPerPage

LoadOf(part, sel) == [part |-> part, sel |-> sel, stage |-> "sent", rows |-> 0]
PartsInOrder == SetToSeq(Viewed.parts)
AskFor(sel) == asked \o [i \in DOMAIN PartsInOrder |-> LoadOf(PartsInOrder[i], sel)]
MayAsk == Len(asked) + Cardinality(Viewed.parts) <= MaxAsked * Cardinality(Viewed.parts)
SpendPick == picks < MaxPicks /\ picks' = picks + 1

-----------------------------------------------------------------------------
\* A new choice starts at the first page.  The effect that loads depends on
\* choice and page, so it runs when either has changed.
EffectOfChoice(sel) == IF Viewed.asks = "pick" /\ sel.what # picked.what THEN AskFor(sel) ELSE asked
Effect(sel) == IF Viewed.asks = "pick" /\ sel # picked THEN AskFor(sel) ELSE asked
Pick(c) ==
  /\ SpendPick /\ MayAsk
  /\ Viewed.asks \in {"pick", "poll"} /\ c # picked.what
  /\ picked' = [what |-> c, page |-> 0]
  /\ title' = c
  /\ asked' = Effect([what |-> c, page |-> 0])
  /\ UNCHANGED <<viewer, onScreen, total, viewRows, overtaken, controls>>

\* The page buttons are there when the last answer had more than one page.
PagerShown == TotalPages > 1
TurnTo(p) ==
  /\ SpendPick /\ MayAsk
  /\ Viewed.pages /\ PagerShown
  /\ picked' = [picked EXCEPT !.page = p]
  /\ asked' = Effect([picked EXCEPT !.page = p])
  /\ UNCHANGED <<viewer, onScreen, title, total, viewRows, overtaken, controls>>
NextPage == picked.page + 1 < TotalPages /\ TurnTo(picked.page + 1)
PreviousPage == picked.page # 0 /\ TurnTo(picked.page - 1)

\* The audit trail's Refresh resets the page but loads with the page it had.
RefreshAudit ==
  /\ SpendPick /\ viewer = "audit" /\ Len(asked) + 2 <= MaxAsked
  /\ picked' = [picked EXCEPT !.page = 0]
  /\ asked' = LET first == AskFor(picked)
              IN IF picked.page = 0 THEN first
                 ELSE first \o <<LoadOf("stats", [picked EXCEPT !.page = 0])>>
  /\ UNCHANGED <<viewer, onScreen, title, total, viewRows, overtaken, controls>>

\* A poll asks for what is picked now (the callback ref is kept current).
MayPollAway == ~pollable
MayPoll == pollable
PollView ==
  /\ Viewed.polls /\ MayPoll /\ MayAsk
  /\ asked' = AskFor(picked)
  /\ UNCHANGED <<viewer, picked, onScreen, title, total, viewRows, overtaken, picks, controls>>

\* markRead and markAllRead in the inbox, whose rows are the unread ones: the
\* list of the recipient at the click is loaded once the handler has answered,
\* whether it agreed or refused.
MarkRead(n) ==
  /\ SpendPick /\ viewer = "inbox" /\ MayAsk
  /\ asked' = Append(asked, [LoadOf("stats", picked) EXCEPT !.stage = "marking", !.rows = n])
  /\ UNCHANGED <<viewer, picked, onScreen, title, total, viewRows, overtaken, controls>>
LoadAfterMark(i) == Append(RemoveAt(asked, i), LoadOf("stats", asked[i].sel))
RowsMarked(i) ==
  /\ asked[i].stage = "marking"
  /\ viewRows' = [viewRows EXCEPT ![asked[i].sel.what] = IF @ > asked[i].rows THEN @ - asked[i].rows ELSE 0]
  /\ asked' = LoadAfterMark(i)
  /\ UNCHANGED <<viewer, picked, onScreen, title, total, debounce, pollable, overtaken, picks, viewFaults>>
MarkFails(i, how) ==
  /\ asked[i].stage = "marking" /\ viewFaults < MaxViewFaults
  /\ viewFaults' = viewFaults + 1
  /\ asked' = IF how = "refused" THEN LoadAfterMark(i) ELSE RemoveAt(asked, i)
  /\ UNCHANGED <<viewer, picked, onScreen, title, total, debounce, viewRows, pollable, overtaken, picks>>

\* handleSearchInput restarts the timer; doSearch clears the results of a
\* short query at once and asks for another.
Type(q) ==
  /\ SpendPick /\ Viewed.asks = "typing" /\ q # picked.what
  /\ picked' = [what |-> q, page |-> 0] /\ title' = q
  /\ debounce' = q
  /\ UNCHANGED <<viewer, onScreen, total, asked, viewRows, pollable, overtaken, viewFaults>>
TooShort(q) == q = "short"
DoSearch ==
  /\ debounce # "none" /\ MayAsk
  /\ debounce' = "none"
  /\ IF TooShort(debounce)
     THEN /\ onScreen' = [p \in Viewed.parts |-> [what |-> "short", page |-> 0]]
          /\ overtaken' = (overtaken \/ asked # <<>>)
          /\ UNCHANGED asked
     ELSE asked' = AskFor([what |-> debounce, page |-> 0]) /\ UNCHANGED <<onScreen, overtaken>>
  /\ UNCHANGED <<viewer, picked, title, total, viewRows, pollable,
                 picks, viewFaults>>

\* A click on a result closes the search; timer and loads go on.
ResultClick ==
  /\ Viewed.asks = "typing" /\ picked.what # "short" /\ onScreen["stats"].what \notin {"none", "short"}
  /\ picked' = [what |-> "short", page |-> 0] /\ title' = "short"
  /\ onScreen' = [p \in Viewed.parts |-> [what |-> "short", page |-> 0]]
  /\ overtaken' = (overtaken \/ asked # <<>> \/ debounce # "none")
  /\ UNCHANGED <<viewer, total, asked, viewRows, picks, controls>>

\* loadJobDetail: the job is selected when its events are there.
TitleAtClick(c) == c
TitleMeanwhile(c) == title
ClickRow(c) ==
  /\ SpendPick /\ Viewed.asks = "click" /\ MayAsk
  /\ asked' = AskFor([what |-> c, page |-> 0])
  /\ title' = TitleMeanwhile(c)
  /\ UNCHANGED <<viewer, picked, onScreen, total, viewRows, overtaken, controls>>

-----------------------------------------------------------------------------
\* The handlers count and read the rows of the choice.
RowsOf(sel) == viewRows[sel.what]
ServerAnswers(i) ==
  /\ asked[i].stage = "sent"
  /\ asked' = [asked EXCEPT ![i].stage = "ok", ![i].rows = RowsOf(asked[i].sel)]
  /\ UNCHANGED <<viewer, picked, onScreen, title, total, debounce, viewRows, pollable,
                 overtaken, picks, viewFaults>>
\* The handler refuses, or no answer comes.
Failures == {"refused", "lost"}
LoadFails(i, how) ==
  /\ asked[i].stage = "sent" /\ viewFaults < MaxViewFaults
  /\ viewFaults' = viewFaults + 1
  /\ asked' = [asked EXCEPT ![i].stage = how]
  /\ UNCHANGED <<viewer, picked, onScreen, title, total, debounce, viewRows, pollable,
                 overtaken, picks>>

\* Whatever answer comes replaces what is shown.
AnswerShown(r) ==
  CASE r.stage = "ok" -> r.sel
    [] r.stage = "refused" /\ Viewed.failure \in {"shown", "cleared"} -> Nothing
    [] r.stage = "lost" /\ Viewed.failure = "cleared" -> Nothing
    [] OTHER -> onScreen[r.part]
AnswerComes(i) ==
  LET r == asked[i] IN
  /\ r.stage \notin {"sent", "marking"}
  /\ onScreen' = [onScreen EXCEPT ![r.part] = AnswerShown(r)]
  /\ total' = IF r.stage = "ok" THEN r.rows ELSE total
  /\ IF Viewed.asks = "click" /\ r.stage = "ok"
     THEN picked' = r.sel /\ title' = r.sel.what
     ELSE UNCHANGED <<picked, title>>
  /\ asked' = RemoveAt(asked, i)
  /\ overtaken' = (overtaken \/ \E k \in 1..(i - 1) : asked[k].part = r.part)
  /\ UNCHANGED <<viewer, viewRows, picks, controls>>

\* Rows are written and cleaned up; the tab is hidden, or the connection that
\* decides about polling is lost or made.
RowsChange(c) ==
  /\ SpendPick /\ Counted
  /\ \E n \in 0..MaxViewRows : n # viewRows[c] /\ viewRows' = [viewRows EXCEPT ![c] = n]
  /\ UNCHANGED <<viewer, picked, onScreen, title, total, asked, overtaken,
                 controls>>
TogglePollable ==
  /\ Viewed.polls
  /\ pollable' = ~pollable
  /\ UNCHANGED <<viewer, picked, onScreen, title, total, asked, debounce, viewRows,
                 overtaken, picks, viewFaults>>

\* Mounted with the first choice, which is being loaded.
ViewInit ==
  /\ viewer \in Viewers
  /\ LET first == [what |-> CHOOSE c \in ViewChoices : c # "short", page |-> 0]
         start == IF Viewed.asks = "typing" THEN [what |-> "short", page |-> 0]
                  ELSE IF Viewed.asks = "click" THEN Nothing ELSE first
     IN /\ picked = start /\ title = start.what
        /\ asked = IF Viewed.asks \in {"pick", "poll"}
                   THEN [i \in DOMAIN PartsInOrder |-> LoadOf(PartsInOrder[i], start)]
                   ELSE <<>>
        /\ onScreen = [p \in Viewed.parts |-> IF Viewed.asks = "typing" THEN start ELSE Nothing]
  /\ total = 0 /\ debounce = "none" /\ pollable = TRUE
  /\ \E n \in 0..MaxViewRows :
       viewRows = [c \in ViewChoices |-> IF Counted /\ c # "short" THEN n ELSE 0]
  /\ overtaken = FALSE /\ picks = 0 /\ viewFaults = 0

ViewNext ==
  \/ \E q \in ViewChoices : Type(q)
  \/ \E c \in ViewChoices \ {"short"} : Pick(c) \/ ClickRow(c) \/ RowsChange(c)
  \/ NextPage \/ PreviousPage \/ RefreshAudit \/ PollView
  \/ \E n \in {1, MaxViewRows} : MarkRead(n)
  \/ DoSearch \/ ResultClick \/ TogglePollable
  \/ \E i \in DOMAIN asked :
       ServerAnswers(i) \/ RowsMarked(i) \/ AnswerComes(i)
         \/ \E how \in Failures : LoadFails(i, how) \/ MarkFails(i, how)

ViewSpec == ViewInit /\ [][ViewNext]_viewVars

\* Requests are served and answered, polls fire while they may.
ServeFirst ==
  /\ asked # <<>>
  /\ \/ ServerAnswers(1) \/ RowsMarked(1) \/ AnswerComes(1)
     \/ \E how \in Failures : LoadFails(1, how) \/ MarkFails(1, how)
ViewFairness == WF_viewVars(ServeFirst) /\ WF_viewVars(PollView)
ViewFairSpec == ViewSpec /\ ViewFairness

-----------------------------------------------------------------------------
\* When nothing is under way and no answer was overtaken or failed, every part
\* of a viewer that loads on its controls shows exactly what they say: no
\* control is left out of the loading, and a short query shows no results.
SettledShowsPicked ==
  /\ Viewed.asks \in {"pick", "typing"} /\ asked = <<>> /\ debounce = "none"
  /\ ~overtaken /\ viewFaults = 0
  => \A p \in Viewed.parts : onScreen[p] = picked

\* The events listed under a job are that job's, however the answers to several
\* clicks come in (super-admin-panel.tsx selects the job with its events).
TitleIsTrue == Viewed.asks = "click" => title = onScreen["stats"].what

\* A viewer that polls shows what is picked again and again as long as polling
\* is not suspended: a stale answer is replaced by a later poll.
PollingRepairs ==
  Viewed.polls /\ <>[]pollable => []<>(\A p \in Viewed.parts : onScreen[p] = picked)

\* A viewer at rest shows what its controls and titles say.
ViewersSafe == SettledShowsPicked /\ TitleIsTrue
=============================================================================
