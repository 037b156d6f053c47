-------------------------------- MODULE Feeds --------------------------------
(***************************************************************************)
(* The two feeds a panel keeps by asking for what is new since it last     *)
(* looked: the log viewer (log-viewer-panel.tsx over api/logs) and the     *)
(* activity feed (activity-feed-panel.tsx over api/activities).            *)
(*                                                                         *)
(* Both fire a full load and a "since" load when they are mounted and more *)
(* of them later; the loads overlap and are answered in any order.  A log  *)
(* line gets a random id each time it is read, an activity keeps its row   *)
(* id.                                                                     *)
(*                                                                         *)
(* Time counts half milliseconds, and the clock gives whole ones, which    *)
(* are even: an odd time is one with a fraction, as a JSON line or the     *)
(* gateway may carry it.                                                   *)
(***************************************************************************)
EXTENDS Naturals, Sequences, FiniteSets, SequencesExt, Lists

CONSTANTS
  FeedKinds,    \* which feeds are open, a subset of {"logs", "activities"}
  LogCap,       \* entries the store keeps; 1000 in the code
  FeedLimit,    \* rows an answer holds; 200 and 50 in the code
  GatewayIds,   \* ids the gateway gives to log entries it sends itself
  MaxFeedTime,  \* bound on the clock
  MaxItems,     \* bound: lines and activities written
  MaxFeedLoads  \* bound: loads after the first two

ASSUME FeedsAssumption ==
  /\ FeedKinds \subseteq {"logs", "activities"}
  /\ LogCap \in Nat \ {0} /\ FeedLimit \in Nat \ {0}
  /\ MaxFeedTime \in Nat /\ MaxItems \in Nat /\ MaxFeedLoads \in Nat
  /\ GatewayIds \subseteq Nat \ {0}

VARIABLES
  feedKind,    \* the feed that is open
  feedNow,     \* the clock
  items,       \* the log file, or the activities table: when each was written
  feed,        \* what the panel shows, newest first
  since,       \* the activity feed's lastRefresh
  feedWire,    \* loads under way
  loading,     \* the viewer's isLoading
  feedLoads,   \* loads after the first two
  overlapped,  \* an answer was applied over another that came after its asking
  oddTimes     \* a line carried no whole number for its time, or a gateway's
               \* entry a time behind a line that was shown

feedVars == <<feedKind, feedNow, items, feed, since, feedWire, loading, feedLoads, overlapped, oddTimes>>

Capped(s, n) == SubSeq(s, 1, IF Len(s) < n THEN Len(s) ELSE n)

\* The times a line may carry that are none, and parseInt of the others: text
\* is read as its year, which is before every time of a log.
Undated == 0
TextTime == 1
WholeTime(t) == t - (t % 2)

\* parseLogLine: the time the line carries, a JSON line's as it is, or the
\* present for an undated one; an entry made of line i.
ParseLogLine(i) == [item |-> i, at |-> IF items[i] = Undated THEN feedNow ELSE items[i], id |-> 0]
Activity(i) == [item |-> i, at |-> items[i], id |-> 0]
ReadItem(i) == IF feedKind = "logs" THEN ParseLogLine(i) ELSE Activity(i)

\* The queries: newest first, only what is strictly later than `since`.  Text is
\* later than nothing, and among the lines to sort it leaves them in some order.
Later(a, b) == a.at > b.at \/ (a.at = b.at /\ a.item < b.item)
SameSecondToo(e, s) == e.at # TextTime /\ e.at >= s
IsNewer(e, s) == e.at # TextTime /\ e.at > s
ItemsRead == {ReadItem(i) : i \in DOMAIN items}
Sortings ==
  IF \E e \in ItemsRead : e.at = TextTime THEN SetToSeqs(ItemsRead)
  ELSE {Ranked(ItemsRead, {p \in ItemsRead \X ItemsRead : Later(p[1], p[2])})}
Recent(q) == Capped(q, FeedLimit)
Tail_(q, s) == Filtered(Recent(q), {e \in ToSet(Recent(q)) : IsNewer(e, s)})

\* addLog: an entry whose id is there replaces it, another goes on top.
AddLog(s, e) ==
  IF e.id # 0 /\ \E k \in DOMAIN s : s[k].id = e.id
  THEN [k \in DOMAIN s |-> IF s[k].id = e.id THEN e ELSE s[k]]
  ELSE Capped(<<e>> \o s, LogCap)

\* New activities are put on top, those already shown left out.
AllOfThem(s, new) == new
UniqueNew(s, new) == Filtered(new, {e \in ToSet(new) : ~\E k \in DOMAIN s : s[k].item = e.item})

-----------------------------------------------------------------------------
\* loadLogs(tail) and fetchActivities(since).  The log viewer asks from the
\* time of its top entry, the activity feed from its last refresh.
SinceNow ==
  IF feedKind = "activities" THEN since
  ELSE IF feed = <<>> THEN 0 ELSE WholeTime(feed[1].at)
LoadFeed(tail, s) ==
  [tail |-> tail, since |-> s, stage |-> "sent", rows |-> <<>>, n |-> feedLoads, late |-> FALSE]

PollFeed ==
  /\ feedLoads < MaxFeedLoads
  /\ feedKind = "logs" => ~loading
  /\ feedWire' = feedWire \cup {[LoadFeed(TRUE, SinceNow) EXCEPT !.n = feedLoads + 1]}
  /\ feedLoads' = feedLoads + 1
  /\ UNCHANGED <<feedKind, feedNow, items, feed, since, loading, overlapped, oddTimes>>

\* The Refresh button, or another filter.
RefreshFeed ==
  /\ feedLoads < MaxFeedLoads
  /\ feedWire' = feedWire \cup {[LoadFeed(FALSE, 0) EXCEPT !.n = feedLoads + 1]}
  /\ feedLoads' = feedLoads + 1
  /\ loading' = TRUE
  /\ UNCHANGED <<feedKind, feedNow, items, feed, since, overlapped, oddTimes>>

\* GET: the server reads the files or the table once.
ServerReads(r) ==
  /\ r.stage = "sent"
  /\ \E q \in Sortings :
       feedWire' = (feedWire \ {r}) \cup
         {[r EXCEPT !.stage = "read", !.rows = IF r.tail THEN Tail_(q, r.since) ELSE Recent(q)]}
  /\ UNCHANGED <<feedKind, feedNow, items, feed, since, loading, feedLoads, overlapped, oddTimes>>

\* The answer is applied; it is late for every load still under way.
Applied(r) ==
  CASE feedKind = "logs" /\ ~r.tail ->
         IF r.rows = <<>> THEN feed ELSE Capped(r.rows, LogCap)
    [] feedKind = "logs" /\ r.tail -> Capped(r.rows \o feed, LogCap)
    [] feedKind = "activities" /\ ~r.tail -> r.rows
    [] feedKind = "activities" /\ r.tail -> Capped(UniqueNew(feed, r.rows) \o feed, FeedLimit)
FeedArrives(r) ==
  /\ r.stage = "read"
  /\ feed' = Applied(r)
  /\ since' = IF feedKind = "activities" THEN feedNow ELSE since
  /\ loading' = FALSE
  /\ feedWire' = {[q EXCEPT !.late = TRUE] : q \in feedWire \ {r}}
  /\ overlapped' = (overlapped \/ (r.tail /\ r.late))
  /\ UNCHANGED <<feedKind, feedNow, items, feedLoads, oddTimes>>

\* A log entry from the gateway's socket, with an id and a time of its own.
GatewayLog(id, t) ==
  /\ feedKind = "logs"
  /\ feed' = AddLog(feed, [item |-> 0, at |-> t, id |-> id])
  /\ oddTimes' = (oddTimes \/ \E k \in DOMAIN feed : feed[k].id = 0 /\ feed[k].at > WholeTime(t))
  /\ UNCHANGED <<feedKind, feedNow, items, since, feedWire, loading, feedLoads, overlapped>>

ClearLogs ==
  /\ feedKind = "logs" /\ feed # <<>>
  /\ feed' = <<>>
  /\ UNCHANGED <<feedKind, feedNow, items, since, feedWire, loading, feedLoads, overlapped, oddTimes>>

\* A program writes a log line, with the time or without, as text or with a
\* fraction; an operation logs an activity.
WriteItem(t) ==
  /\ Len(items) < MaxItems
  /\ feedKind = "activities" => t = feedNow
  /\ items' = Append(items, t)
  /\ oddTimes' = (oddTimes \/ WholeTime(t) # t)
  /\ UNCHANGED <<feedKind, feedNow, feed, since, feedWire, loading, feedLoads, overlapped>>

SecondPasses ==
  /\ feedNow + 2 <= MaxFeedTime
  /\ feedNow' = feedNow + 2
  /\ UNCHANGED <<feedKind, items, feed, since, feedWire, loading, feedLoads, overlapped, oddTimes>>

\* Mounted with the first full load and the poll's first firing under way.
FeedInit ==
  /\ feedKind \in FeedKinds
  /\ feedNow = 4 /\ items = <<>> /\ feed = <<>> /\ feedLoads = 0
  /\ since = 4 /\ loading = TRUE /\ overlapped = FALSE /\ oddTimes = FALSE
  /\ feedWire = {LoadFeed(FALSE, 0), LoadFeed(TRUE, IF feedKind = "logs" THEN 0 ELSE 4)}

FeedNext ==
  \/ PollFeed \/ RefreshFeed \/ ClearLogs \/ SecondPasses
  \/ \E r \in feedWire : ServerReads(r) \/ FeedArrives(r)
  \/ \E id \in GatewayIds, t \in {TextTime, feedNow - 2, feedNow} : GatewayLog(id, t)
  \/ \E t \in {Undated, TextTime, feedNow - 1, feedNow} : WriteItem(t)

FeedSpec == FeedInit /\ [][FeedNext]_feedVars

-----------------------------------------------------------------------------
\* No activity is shown twice, however its loads overlap; and two log entries
\* of the gateway never share an id.
ShownOnceById ==
  \A k, l \in DOMAIN feed :
    k # l => /\ feedKind = "activities" => feed[k].item # feed[l].item
             /\ feed[k].id # 0 => feed[k].id # feed[l].id

\* A dated log line is shown at most once as long as no tail is applied that
\* was asked for before another answer came, every line's time is a whole
\* number, and no entry of the gateway carries a time before a line's that is
\* shown: from such an entry on top, or from a time with a fraction, the next
\* tail asks for lines again that are on the page.
LineShownOnce ==
  feedKind = "logs" /\ ~overlapped /\ ~oddTimes =>
    \A k, l \in DOMAIN feed :
      k # l /\ feed[k].id = 0 /\ feed[l].id = 0 /\ items[feed[k].item] # Undated
        => feed[k].item # feed[l].item

\* Overlapping loads show nothing twice.
FeedsSafe == ShownOnceById /\ LineShownOnce
=============================================================================
