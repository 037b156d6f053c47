----------------------------- MODULE FeedProofs -----------------------------
(***************************************************************************)
(* Proofs about what is read from stores and shown: FeedsSafe of the log   *)
(* and activity feeds, for any items, loads and gateways; SessionsSafe of  *)
(* sessions, control commands and spawns, for any transcripts, stores,     *)
(* commands and calls; and UsageSafe of the token usage, for any number of *)
(* reports and any limit and retention.                                    *)
(***************************************************************************)
EXTENDS Feeds, Sessions, Usage, ListProofs

---------------------------------------------------------------------------
(***************************************************************************)
(* The feeds: the inductive invariant.                                     *)
(*                                                                         *)
(* A reading has every line once, newest first, with the time it was       *)
(* written.  Until a tail is applied late, or a time comes that tails      *)
(* cannot ask from, no log line on the page is later than what the top     *)
(* entry's time is asked as, and none is later than the time a tail that   *)
(* is not late was asked from.                                             *)
(***************************************************************************)
FeedLines == [item : Nat, at : Nat, id : Nat]
FeedLoadSet == [tail : BOOLEAN, since : Nat, stage : {"sent", "read"}, rows : Seq(FeedLines),
                n : Nat, late : BOOLEAN]

Strange == overlapped \/ oddTimes
Whole(t) == WholeTime(t) = t

FeedTypeInv ==
  /\ feedKind \in {"logs", "activities"}
  /\ feedNow \in Nat /\ feedNow >= 4 /\ Whole(feedNow) /\ items \in Seq(Nat)
  /\ feed \in Seq(FeedLines) /\ feedWire \subseteq FeedLoadSet
  /\ since \in Nat /\ feedLoads \in Nat /\ overlapped \in BOOLEAN /\ oddTimes \in BOOLEAN

\* Line e was read from the store.
FromStore(e) ==
  /\ e.id = 0 /\ e.item \in DOMAIN items
  /\ items[e.item] # Undated => e.at = items[e.item]

IsReading(rs) ==
  /\ \A k, l \in DOMAIN rs : k # l => rs[k].item # rs[l].item
  /\ ~oddTimes => \A k, l \in DOMAIN rs : k < l => rs[k].at >= rs[l].at
  /\ ~oddTimes => \A k \in DOMAIN rs : Whole(rs[k].at)
  /\ \A k \in DOMAIN rs : FromStore(rs[k]) /\ rs[k].at <= feedNow

ReadingsInv ==
  /\ \A i \in DOMAIN items : items[i] <= feedNow /\ (~oddTimes => Whole(items[i]))
  /\ \A q \in feedWire : IsReading(q.rows)
  /\ \A q \in feedWire : q.tail => \A k \in DOMAIN q.rows : q.rows[k].at > q.since

EntriesInv ==
  \A k \in DOMAIN feed :
    /\ feed[k].at <= feedNow
    /\ FromStore(feed[k]) \/ (feedKind = "logs" /\ feed[k].id # 0)

TopIsNewest ==
  feedKind = "logs" /\ ~Strange =>
    \A k \in DOMAIN feed : feed[k].id = 0 => feed[k].at <= WholeTime(feed[1].at)
TailsAreNewer ==
  feedKind = "logs" /\ ~Strange =>
    \A q \in feedWire : q.tail /\ ~q.late =>
      \A k \in DOMAIN feed : feed[k].id = 0 => feed[k].at <= q.since

FeedInv ==
  /\ FeedTypeInv /\ ReadingsInv /\ EntriesInv /\ TopIsNewest /\ TailsAreNewer
  /\ ShownOnceById /\ LineShownOnce

---------------------------------------------------------------------------
(* What a reading of the store gives.                                      *)

\* The beginning of a list.
LEMMA CappedFacts ==
  ASSUME NEW S, NEW s \in Seq(S), NEW n \in Nat
  PROVE  /\ Capped(s, n) \in Seq(S) /\ DOMAIN Capped(s, n) \subseteq DOMAIN s
         /\ \A k \in DOMAIN Capped(s, n) : Capped(s, n)[k] = s[k]
<1> DEFINE m == IF Len(s) < n THEN Len(s) ELSE n
<1>1. Len(s) \in Nat /\ m \in Nat /\ m <= Len(s) /\ Capped(s, n) = SubSeq(s, 1, m)
  BY LenProperties DEF Capped
<1> HIDE DEF m
<1>2. /\ SubSeq(s, 1, m) \in Seq(S) /\ Len(SubSeq(s, 1, m)) = m
      /\ \A k \in 1..m : SubSeq(s, 1, m)[k] = s[k]
  BY <1>1
<1> QED BY <1>1, <1>2

\* parseInt of a time.
LEMMA WholeFacts ==
  /\ \A t \in Nat : WholeTime(t) \in Nat /\ WholeTime(t) <= t
  /\ \A t, u \in Nat : Whole(u) /\ u <= t => u <= WholeTime(t)
  /\ \A t \in Nat : Whole(t) => Whole(t + 2)
  /\ ~Whole(TextTime)
BY DEF WholeTime, Whole, TextTime

LEMMA ReadItemFacts ==
  ASSUME FeedTypeInv, ReadingsInv, NEW i \in DOMAIN items
  PROVE  /\ ReadItem(i) \in FeedLines /\ ReadItem(i).item = i
         /\ FromStore(ReadItem(i)) /\ ReadItem(i).at <= feedNow
         /\ ~oddTimes => Whole(ReadItem(i).at)
<1>1. i \in Nat /\ items[i] \in Nat /\ feedNow \in Nat /\ items[i] <= feedNow
  BY DEF FeedTypeInv, ReadingsInv
<1>2. Whole(feedNow) /\ (~oddTimes => Whole(items[i])) BY DEF FeedTypeInv, ReadingsInv
<1> QED BY <1>1, <1>2 DEF ReadItem, ParseLogLine, Activity, FeedLines, FromStore

\* The lines, newest first; with text for a time among them, in some order.
LEMMA SortingFacts ==
  ASSUME FeedTypeInv, ReadingsInv, NEW q \in Sortings
  PROVE  /\ q \in Seq(ItemsRead)
         /\ \A j, k \in DOMAIN q : j # k => q[j] # q[k]
         /\ ~oddTimes => \A j, k \in DOMAIN q : j < k => Later(q[j], q[k])
<1> DEFINE R == {p \in ItemsRead \X ItemsRead : Later(p[1], p[2])}
           all == Ranked(ItemsRead, R)
           W == DOMAIN items
           f == [i \in W |-> ReadItem(i)]
<1>2. IsFiniteSet(ItemsRead)
  <2>1. IsFiniteSet(W)
    <3>1. W = 1..Len(items) /\ Len(items) \in Nat BY DEF FeedTypeInv
    <3> QED BY <3>1, FS_Interval
  <2>2. f \in Surjection(W, ItemsRead) BY DEF Surjection, ItemsRead
  <2> HIDE DEF W, f
  <2> QED BY <2>1, <2>2, FS_Surjection
<1>3. \A e \in ItemsRead : e \in FeedLines BY ReadItemFacts DEF ItemsRead
<1>4. \A d, e \in ItemsRead : d.item = e.item => d = e BY ReadItemFacts DEF ItemsRead
<1>5. \A e \in ItemsRead : e.at \in Nat /\ e.item \in Nat BY <1>3 DEF FeedLines
<1>6. CASE \E e \in ItemsRead : e.at = TextTime
  <2>1. q \in SetToSeqs(ItemsRead) BY <1>6 DEF Sortings
  <2>2. PICK m \in Nat : m = Cardinality(ItemsRead) BY <1>2, FS_CardinalityType
  <2>3. q \in [1..m -> ItemsRead] /\ \A j, k \in 1..m : j # k => q[j] # q[k]
    BY <2>1, <2>2 DEF SetToSeqs
  <2>4. q \in Seq(ItemsRead) /\ DOMAIN q = 1..m BY <2>3
  <2>5. oddTimes
    <3>1. PICK i \in DOMAIN items : ReadItem(i).at = TextTime BY <1>6 DEF ItemsRead
    <3> QED BY <3>1, ReadItemFacts, WholeFacts DEF FeedTypeInv
  <2> QED BY <2>3, <2>4, <2>5
<1>7. CASE ~\E e \in ItemsRead : e.at = TextTime
  <2>1. q = all BY <1>7 DEF Sortings
  <2>2. IsOrder(ItemsRead, R)
    <3>1. \A d, e \in ItemsRead : <<d, e>> \in R <=> Later(d, e) OBVIOUS
    <3> HIDE DEF R
    <3>2. \A x \in ItemsRead : <<x, x>> \notin R BY <3>1, <1>5 DEF Later
    <3>3. \A x, y, z \in ItemsRead : <<x, y>> \in R /\ <<y, z>> \in R => <<x, z>> \in R
      BY <3>1, <1>5 DEF Later
    <3>4. \A x, y \in ItemsRead : x # y => <<x, y>> \in R \/ <<y, x>> \in R
      BY <3>1, <1>4, <1>5 DEF Later
    <3> QED BY <3>2, <3>3, <3>4 DEF IsOrder
  <2>3. /\ all \in Seq(ItemsRead)
        /\ \A j, k \in DOMAIN all : j < k => <<all[j], all[k]>> \in R
    <3> HIDE DEF R
    <3> QED BY <1>2, <2>2, RankedFacts
  <2>4. \A j, k \in DOMAIN all : j < k => Later(all[j], all[k]) BY <2>3
  <2> HIDE DEF all, R
  <2>5. \A j \in DOMAIN q : q[j] \in ItemsRead BY <2>1, <2>3
  <2>6. DOMAIN q = 1..Len(q) /\ Len(q) \in Nat BY <2>1, <2>3
  <2>7. ASSUME NEW j \in DOMAIN q, NEW k \in DOMAIN q, j < k PROVE q[j] # q[k]
    BY <2>1, <2>4, <2>5, <2>7, <1>5 DEF Later
  <2>8. ASSUME NEW j \in DOMAIN q, NEW k \in DOMAIN q, j # k PROVE q[j] # q[k]
    <3>1. j < k \/ k < j BY <2>6, <2>8
    <3> QED BY <3>1, <2>7
  <2> QED BY <2>1, <2>3, <2>4, <2>8
<1> QED BY <1>6, <1>7

LEMMA RecentFacts ==
  ASSUME FeedTypeInv, ReadingsInv, NEW q \in Sortings
  PROVE  Recent(q) \in Seq(FeedLines) /\ IsReading(Recent(q))
<1>0. PICK rs : rs = Recent(q) OBVIOUS
<1>1. rs = Capped(q, FeedLimit) BY <1>0 DEF Recent
<1>3. \A e \in ItemsRead : /\ e \in FeedLines /\ FromStore(e) /\ e.at <= feedNow
                           /\ ~oddTimes => Whole(e.at)
  BY ReadItemFacts DEF ItemsRead
<1>4. \A d, e \in ItemsRead : d.item = e.item => d = e BY ReadItemFacts DEF ItemsRead
<1>5. \A e \in ItemsRead : e.at \in Nat /\ e.item \in Nat BY <1>3 DEF FeedLines
<1>8. /\ q \in Seq(ItemsRead) /\ \A j, k \in DOMAIN q : j # k => q[j] # q[k]
      /\ ~oddTimes => \A j, k \in DOMAIN q : j < k => Later(q[j], q[k])
  BY SortingFacts
<1>9. /\ rs \in Seq(ItemsRead) /\ DOMAIN rs \subseteq DOMAIN q
      /\ \A k \in DOMAIN rs : rs[k] = q[k]
  <2>1. FeedLimit \in Nat BY FeedsAssumption
  <2> QED BY <2>1, <1>1, <1>8, CappedFacts
<1>10. \A k \in DOMAIN rs : rs[k] \in ItemsRead BY <1>9
<1>12. rs \in Seq(FeedLines) BY <1>3, <1>9, <1>10, SeqMonotonic
<1>14. ~oddTimes => \A j, k \in DOMAIN rs : j < k => rs[j].at >= rs[k].at
  BY <1>5, <1>8, <1>9, <1>10 DEF Later
<1>15. \A j, k \in DOMAIN rs : j # k => rs[j].item # rs[k].item
  BY <1>4, <1>8, <1>9, <1>10
<1>16. \A k \in DOMAIN rs : /\ FromStore(rs[k]) /\ rs[k].at <= feedNow
                            /\ ~oddTimes => Whole(rs[k].at)
  BY <1>3, <1>10
<1> QED BY <1>0, <1>12, <1>14, <1>15, <1>16 DEF IsReading

\* What a filter leaves of a reading is one.
LEMMA ReadingFiltered ==
  ASSUME NEW rs \in Seq(FeedLines), IsReading(rs), NEW T
  PROVE  Filtered(rs, T) \in Seq(FeedLines) /\ IsReading(Filtered(rs, T))
<1> DEFINE r == Filtered(rs, T)
<1>1. r \in Seq(FeedLines) /\ (\A k \in DOMAIN r : \E i \in DOMAIN rs : r[k] = rs[i])
  <2>1. PICK h \in [DOMAIN r -> DOMAIN rs] : \A k \in DOMAIN r : r[k] = rs[h[k]]
    BY FilteredFacts
  <2>2. r \in Seq(FeedLines) BY FilteredFacts
  <2> HIDE DEF r
  <2> QED BY <2>1, <2>2
<1>2. ASSUME NEW j \in DOMAIN r, NEW k \in DOMAIN r, j < k
      PROVE  (~oddTimes => r[j].at >= r[k].at) /\ r[j].item # r[k].item
  <2>1. PICK a, b \in DOMAIN rs : a < b /\ rs[a] = r[j] /\ rs[b] = r[k] BY <1>2, FilteredOrder
  <2>2. a # b BY <2>1
  <2> HIDE DEF r
  <2> QED BY <2>1, <2>2 DEF IsReading
<1> HIDE DEF r
<1>3. ASSUME NEW j \in DOMAIN r, NEW k \in DOMAIN r, j # k PROVE r[j].item # r[k].item
  <2>1. DOMAIN r = 1..Len(r) /\ Len(r) \in Nat BY <1>1
  <2>2. j < k \/ k < j BY <2>1, <1>3
  <2> QED BY <2>2, <1>2
<1>4. \A k \in DOMAIN r : /\ FromStore(r[k]) /\ r[k].at <= feedNow
                          /\ ~oddTimes => Whole(r[k].at)
  BY <1>1 DEF IsReading
<1>5. IsReading(r) BY <1>2, <1>3, <1>4 DEF IsReading
<1> QED BY <1>1, <1>5 DEF r

LEMMA TailFacts ==
  ASSUME FeedTypeInv, ReadingsInv, NEW q \in Sortings, NEW s
  PROVE  /\ Tail_(q, s) \in Seq(FeedLines) /\ IsReading(Tail_(q, s))
         /\ \A k \in DOMAIN Tail_(q, s) : Tail_(q, s)[k].at > s
<1> DEFINE T == {e \in ToSet(Recent(q)) : IsNewer(e, s)}
<1>1. Tail_(q, s) = Filtered(Recent(q), T) BY DEF Tail_
<1>2. \A e \in T : e.at > s BY DEF IsNewer
<1> HIDE DEF T
<1>3. Recent(q) \in Seq(FeedLines) /\ IsReading(Recent(q)) BY RecentFacts
<1>4. \A k \in DOMAIN Filtered(Recent(q), T) : Filtered(Recent(q), T)[k] \in T BY <1>3, FilteredFacts
<1>5. Filtered(Recent(q), T) \in Seq(FeedLines) /\ IsReading(Filtered(Recent(q), T))
  BY <1>3, ReadingFiltered
<1> QED BY <1>1, <1>2, <1>4, <1>5
---------------------------------------------------------------------------
(* The feeds: every step keeps the invariant.                              *)

LEMMA LoadFeedFacts ==
  ASSUME NEW s \in Nat, feedLoads \in Nat
  PROVE  /\ LoadFeed(TRUE, s) \in FeedLoadSet /\ LoadFeed(FALSE, s) \in FeedLoadSet
         /\ LoadFeed(TRUE, s).rows = <<>> /\ LoadFeed(FALSE, s).rows = <<>>
         /\ LoadFeed(TRUE, s).since = s /\ LoadFeed(FALSE, s).tail = FALSE
<1>1. <<>> \in Seq(FeedLines) OBVIOUS
<1> QED BY <1>1 DEF LoadFeed, FeedLoadSet

LEMMA NumberedLoad ==
  ASSUME NEW q \in FeedLoadSet, NEW m \in Nat
  PROVE  /\ [q EXCEPT !.n = m] \in FeedLoadSet
         /\ [q EXCEPT !.n = m].rows = q.rows /\ [q EXCEPT !.n = m].tail = q.tail
         /\ [q EXCEPT !.n = m].since = q.since
BY DEF FeedLoadSet

LEMMA FeedInitInv == FeedInit => FeedInv
<1> SUFFICES ASSUME FeedInit PROVE FeedInv OBVIOUS
<1>1. feedLoads = 0 BY DEF FeedInit
<1>2. feedKind \in {"logs", "activities"}
  <2>1. feedKind \in FeedKinds BY DEF FeedInit
  <2> QED BY <2>1, FeedsAssumption
<1>3. \A q \in feedWire : q \in FeedLoadSet /\ q.rows = <<>>
  <2>1. PICK s \in Nat : feedWire = {LoadFeed(FALSE, 0), LoadFeed(TRUE, s)} BY DEF FeedInit
  <2> QED BY <2>1, <1>1, LoadFeedFacts
<1>4. FeedTypeInv
  <2>1. <<>> \in Seq(Nat) /\ <<>> \in Seq(FeedLines) OBVIOUS
  <2>2. feedNow = 4 /\ items = <<>> /\ feed = <<>> /\ since = 4 /\ overlapped = FALSE /\ oddTimes = FALSE
    BY DEF FeedInit
  <2>3. feedWire \subseteq FeedLoadSet BY <1>3
  <2>4. overlapped \in BOOLEAN /\ oddTimes \in BOOLEAN BY <2>2
  <2>5. feedNow \in Nat /\ feedNow >= 4 /\ Whole(feedNow) /\ since \in Nat /\ feedLoads \in Nat
    BY <1>1, <2>2 DEF Whole, WholeTime
  <2>6. items \in Seq(Nat) /\ feed \in Seq(FeedLines) BY <2>1, <2>2
  <2> QED BY <1>2, <2>3, <2>4, <2>5, <2>6 DEF FeedTypeInv
<1>5. ReadingsInv
  <2>1. IsReading(<<>>) BY DEF IsReading
  <2>2. items = <<>> /\ DOMAIN items = {} BY DEF FeedInit
  <2>3. \A q \in feedWire : DOMAIN q.rows = {} BY <1>3
  <2> QED BY <1>3, <2>1, <2>2, <2>3 DEF ReadingsInv
<1>6. EntriesInv /\ TopIsNewest /\ TailsAreNewer /\ ShownOnceById /\ LineShownOnce
  BY DEF FeedInit, EntriesInv, TopIsNewest, TailsAreNewer, ShownOnceById, LineShownOnce
<1> QED BY <1>4, <1>5, <1>6 DEF FeedInv

\* Another load is asked for.
LEMMA AskingKeeps ==
  ASSUME FeedInv, NEW q \in FeedLoadSet, q.rows = <<>>,
         q.tail => q.since = SinceNow,
         feedWire' = feedWire \cup {q}, feedLoads' \in Nat,
         UNCHANGED <<feedKind, feedNow, items, feed, since, overlapped, oddTimes>>
  PROVE  FeedInv'
<1>1. FeedTypeInv' BY DEF FeedInv, FeedTypeInv
<1>2. IsReading(q.rows)' BY DEF IsReading
<1>3. ReadingsInv' BY <1>2 DEF FeedInv, ReadingsInv, IsReading, FromStore
<1>4. EntriesInv' /\ TopIsNewest' /\ ShownOnceById' /\ LineShownOnce'
  BY DEF FeedInv, EntriesInv, TopIsNewest, ShownOnceById, LineShownOnce, FromStore, Strange
<1>5. ASSUME feedKind = "logs", ~Strange, q.tail, NEW k \in DOMAIN feed, feed[k].id = 0
      PROVE  feed[k].at <= q.since
  <2>1. feed # <<>> /\ SinceNow = WholeTime(feed[1].at) BY <1>5 DEF SinceNow
  <2> QED BY <2>1, <1>5 DEF FeedInv, TopIsNewest
<1>6. TailsAreNewer' BY <1>5 DEF FeedInv, TailsAreNewer, Strange
<1> QED BY <1>1, <1>3, <1>4, <1>6 DEF FeedInv

LEMMA PollKeeps == FeedInv /\ PollFeed => FeedInv'
<1> SUFFICES ASSUME FeedInv, PollFeed PROVE FeedInv' OBVIOUS
<1> DEFINE q == [LoadFeed(TRUE, SinceNow) EXCEPT !.n = feedLoads + 1]
<1>1. SinceNow \in Nat
  <2>1. CASE feedKind = "logs" /\ feed # <<>>
    <3>1. feed[1] \in FeedLines BY <2>1 DEF FeedInv, FeedTypeInv
    <3> QED BY <2>1, <3>1, WholeFacts DEF SinceNow, FeedLines
  <2>2. CASE ~(feedKind = "logs" /\ feed # <<>>) BY <2>2 DEF SinceNow, FeedInv, FeedTypeInv
  <2> QED BY <2>1, <2>2
<1>2. feedLoads \in Nat BY DEF FeedInv, FeedTypeInv
<1>3. q \in FeedLoadSet /\ q.rows = <<>> /\ q.since = SinceNow
  <2>1. /\ LoadFeed(TRUE, SinceNow) \in FeedLoadSet /\ LoadFeed(TRUE, SinceNow).rows = <<>>
        /\ LoadFeed(TRUE, SinceNow).since = SinceNow
    BY <1>1, <1>2, LoadFeedFacts
  <2>2. feedLoads + 1 \in Nat BY <1>2
  <2> QED BY <2>1, <2>2, NumberedLoad
<1>4. /\ feedWire' = feedWire \cup {q} /\ feedLoads' \in Nat
      /\ UNCHANGED <<feedKind, feedNow, items, feed, since, overlapped, oddTimes>>
  BY <1>2 DEF PollFeed
<1> HIDE DEF q
<1> QED BY <1>3, <1>4, AskingKeeps

LEMMA RefreshKeeps == FeedInv /\ RefreshFeed => FeedInv'
<1> SUFFICES ASSUME FeedInv, RefreshFeed PROVE FeedInv' OBVIOUS
<1> DEFINE q == [LoadFeed(FALSE, 0) EXCEPT !.n = feedLoads + 1]
<1>1. feedLoads \in Nat BY DEF FeedInv, FeedTypeInv
<1>2. q \in FeedLoadSet /\ q.rows = <<>> /\ ~q.tail
  <2>1. /\ LoadFeed(FALSE, 0) \in FeedLoadSet /\ LoadFeed(FALSE, 0).rows = <<>>
        /\ LoadFeed(FALSE, 0).tail = FALSE
    BY <1>1, LoadFeedFacts
  <2>2. feedLoads + 1 \in Nat BY <1>1
  <2> QED BY <2>1, <2>2, NumberedLoad
<1>3. /\ feedWire' = feedWire \cup {q} /\ feedLoads' \in Nat
      /\ UNCHANGED <<feedKind, feedNow, items, feed, since, overlapped, oddTimes>>
  BY <1>1 DEF RefreshFeed
<1> HIDE DEF q
<1> QED BY <1>2, <1>3, AskingKeeps

LEMMA ReadsKeeps ==
  ASSUME FeedInv, NEW r \in feedWire, ServerReads(r)
  PROVE  FeedInv'
<1>a. PICK o \in Sortings :
        feedWire' = (feedWire \ {r}) \cup
          {[r EXCEPT !.stage = "read", !.rows = IF r.tail THEN Tail_(o, r.since) ELSE Recent(o)]}
  BY DEF ServerReads
<1>0. PICK rs : rs = IF r.tail THEN Tail_(o, r.since) ELSE Recent(o) OBVIOUS
<1> DEFINE q == [r EXCEPT !.stage = "read", !.rows = rs]
<1>1. feedWire' = (feedWire \ {r}) \cup {q} BY <1>0, <1>a
<1>2. UNCHANGED <<feedKind, feedNow, items, feed, since, overlapped, oddTimes, feedLoads>> BY DEF ServerReads
<1>3. r \in FeedLoadSet BY DEF FeedInv, FeedTypeInv
<1>4. /\ rs \in Seq(FeedLines) /\ IsReading(rs)
      /\ r.tail => \A k \in DOMAIN rs : rs[k].at > r.since
  BY <1>0, RecentFacts, TailFacts DEF FeedInv
<1>5. /\ q \in FeedLoadSet /\ q.rows = rs
      /\ q.tail = r.tail /\ q.since = r.since /\ q.late = r.late
  BY <1>3, <1>4 DEF FeedLoadSet
<1> HIDE DEF q
<1>6. FeedTypeInv'
  <2>1. feedWire' \subseteq FeedLoadSet BY <1>1, <1>5 DEF FeedInv, FeedTypeInv
  <2>2. overlapped' \in BOOLEAN /\ oddTimes' \in BOOLEAN BY <1>2 DEF FeedInv, FeedTypeInv
  <2> QED BY <1>2, <2>1, <2>2 DEF FeedInv, FeedTypeInv
<1>7. IsReading(rs)' BY <1>2, <1>4 DEF IsReading, FromStore
<1>8. \A p \in feedWire : IsReading(p.rows)' BY <1>2 DEF FeedInv, ReadingsInv, IsReading, FromStore
<1>9. ReadingsInv'
  <2>1. ASSUME NEW p \in feedWire' PROVE IsReading(p.rows)'
    <3>1. CASE p = q
      <4>1. p.rows = rs BY <3>1, <1>5
      <4> QED BY <4>1, <1>7 DEF IsReading
    <3>2. CASE p \in feedWire BY <3>2, <1>8
    <3> QED BY <3>1, <3>2, <1>1
  <2>2. \A p \in feedWire' : p.tail => \A k \in DOMAIN p.rows : p.rows[k].at > p.since
    BY <1>1, <1>4, <1>5 DEF FeedInv, ReadingsInv
  <2>3. \A i \in DOMAIN items' : items'[i] <= feedNow' /\ (~oddTimes' => Whole(items'[i]))
    BY <1>2 DEF FeedInv, ReadingsInv
  <2> QED BY <2>1, <2>2, <2>3 DEF ReadingsInv
<1>10. EntriesInv' /\ TopIsNewest' /\ ShownOnceById' /\ LineShownOnce'
  BY <1>2 DEF FeedInv, EntriesInv, TopIsNewest, ShownOnceById, LineShownOnce, FromStore, Strange
<1>11. TailsAreNewer' BY <1>1, <1>2, <1>5 DEF FeedInv, TailsAreNewer, Strange
<1> QED BY <1>6, <1>9, <1>10, <1>11 DEF FeedInv

\* A line is written, time passes.
LEMMA StoreGrowsKeeps ==
  ASSUME FeedInv, items' \in Seq(Nat), DOMAIN items \subseteq DOMAIN items',
         \A i \in DOMAIN items : items'[i] = items[i],
         feedNow' \in Nat, feedNow' >= feedNow, Whole(feedNow'),
         oddTimes' \in BOOLEAN, oddTimes => oddTimes',
         \A i \in DOMAIN items' : items'[i] <= feedNow' /\ (~oddTimes' => Whole(items'[i])),
         UNCHANGED <<feedKind, feed, since, feedWire, feedLoads, overlapped>>
  PROVE  FeedInv'
<1>1. FeedTypeInv' BY DEF FeedInv, FeedTypeInv
<1>2. \A e : FromStore(e) => FromStore(e)' BY DEF FromStore
<1>3. \A n \in Nat : n <= feedNow => n <= feedNow' BY DEF FeedInv, FeedTypeInv
<1>4. ASSUME NEW q \in feedWire PROVE IsReading(q.rows)'
  <2>1. q.rows \in Seq(FeedLines) BY DEF FeedInv, FeedTypeInv, FeedLoadSet
  <2>2. ASSUME NEW k \in DOMAIN q.rows PROVE FromStore(q.rows[k])' /\ q.rows[k].at <= feedNow'
    <3>1. q.rows[k] \in FeedLines BY <2>1
    <3>2. FromStore(q.rows[k]) /\ q.rows[k].at <= feedNow BY DEF FeedInv, ReadingsInv, IsReading
    <3> QED BY <3>1, <3>2, <1>2, <1>3 DEF FeedLines
  <2> QED BY <2>2 DEF FeedInv, ReadingsInv, IsReading
<1>5. ReadingsInv' BY <1>4 DEF FeedInv, ReadingsInv
<1>6. EntriesInv'
  <2>1. ASSUME NEW k \in DOMAIN feed
        PROVE  feed[k].at <= feedNow' /\ (FromStore(feed[k])' \/ (feedKind = "logs" /\ feed[k].id # 0))
    <3>1. feed[k] \in FeedLines BY DEF FeedInv, FeedTypeInv
    <3>2. feed[k].at <= feedNow /\ (FromStore(feed[k]) \/ (feedKind = "logs" /\ feed[k].id # 0))
      BY DEF FeedInv, EntriesInv
    <3> QED BY <3>1, <3>2, <1>2, <1>3 DEF FeedLines
  <2> QED BY <2>1 DEF EntriesInv
<1>7. TopIsNewest' /\ TailsAreNewer' /\ ShownOnceById'
  BY DEF FeedInv, TopIsNewest, TailsAreNewer, ShownOnceById, Strange
<1>8. LineShownOnce'
  <2> SUFFICES ASSUME feedKind = "logs", ~Strange, NEW k \in DOMAIN feed, NEW l \in DOMAIN feed,
                      k # l, feed[k].id = 0, feed[l].id = 0, items'[feed[k].item] # Undated
               PROVE  feed[k].item # feed[l].item
    BY DEF LineShownOnce, Strange
  <2>1. feed[k].item \in DOMAIN items BY DEF FeedInv, EntriesInv, FromStore
  <2> QED BY <2>1 DEF FeedInv, LineShownOnce, Strange
<1> QED BY <1>1, <1>5, <1>6, <1>7, <1>8 DEF FeedInv

LEMMA WriteItemKeeps ==
  ASSUME FeedInv, NEW t \in {Undated, TextTime, feedNow - 1, feedNow}, WriteItem(t)
  PROVE  FeedInv'
<1>1. items \in Seq(Nat) /\ feedNow \in Nat /\ t \in Nat /\ t <= feedNow
  BY DEF FeedInv, FeedTypeInv, Undated, TextTime
<1>2. items' = Append(items, t) /\ UNCHANGED <<feedKind, feedNow, feed, since, feedWire, feedLoads, overlapped>>
  BY DEF WriteItem
<1>6. oddTimes' = (oddTimes \/ ~Whole(t)) BY DEF WriteItem, Whole
<1>7. oddTimes' \in BOOLEAN /\ (oddTimes => oddTimes') /\ Whole(feedNow')
  BY <1>2, <1>6 DEF FeedInv, FeedTypeInv
<1>3. /\ items' \in Seq(Nat) /\ DOMAIN items \subseteq DOMAIN items'
      /\ \A i \in DOMAIN items : items'[i] = items[i]
      /\ \A i \in DOMAIN items' : i \in DOMAIN items \/ items'[i] = t
  BY <1>1, <1>2
<1>4. \A i \in DOMAIN items' : items'[i] <= feedNow' /\ (~oddTimes' => Whole(items'[i]))
  BY <1>1, <1>2, <1>3, <1>6 DEF FeedInv, ReadingsInv
<1>5. feedNow' \in Nat /\ feedNow' >= feedNow BY <1>1, <1>2
<1> QED BY <1>2, <1>3, <1>4, <1>5, <1>7, StoreGrowsKeeps

LEMMA SecondPassesKeeps == FeedInv /\ SecondPasses => FeedInv'
<1> SUFFICES ASSUME FeedInv, SecondPasses PROVE FeedInv' OBVIOUS
<1>1. items \in Seq(Nat) /\ feedNow \in Nat BY DEF FeedInv, FeedTypeInv
<1>2. feedNow' = feedNow + 2 /\ UNCHANGED <<feedKind, items, feed, since, feedWire, feedLoads, overlapped, oddTimes>>
  BY DEF SecondPasses
<1>3. \A i \in DOMAIN items : items[i] \in Nat /\ items[i] <= feedNow BY <1>1 DEF FeedInv, ReadingsInv
<1>4. \A i \in DOMAIN items' : items'[i] <= feedNow' /\ (~oddTimes' => Whole(items'[i]))
  BY <1>1, <1>2, <1>3 DEF FeedInv, ReadingsInv
<1>7. oddTimes' \in BOOLEAN /\ (oddTimes => oddTimes') /\ Whole(feedNow')
  BY <1>1, <1>2, WholeFacts DEF FeedInv, FeedTypeInv
<1>5. feedNow' \in Nat /\ feedNow' >= feedNow /\ items' \in Seq(Nat) BY <1>1, <1>2
<1>6. DOMAIN items \subseteq DOMAIN items' /\ \A i \in DOMAIN items : items'[i] = items[i] BY <1>2
<1> QED BY <1>2, <1>4, <1>5, <1>6, <1>7, StoreGrowsKeeps

LEMMA ClearKeeps == FeedInv /\ ClearLogs => FeedInv'
<1> SUFFICES ASSUME FeedInv, ClearLogs PROVE FeedInv' OBVIOUS
<1>1. feed' = <<>> /\ UNCHANGED <<feedKind, feedNow, items, since, feedWire, feedLoads, overlapped, oddTimes>>
  BY DEF ClearLogs
<1>2. FeedTypeInv' BY <1>1 DEF FeedInv, FeedTypeInv
<1>3. ReadingsInv' BY <1>1 DEF FeedInv, ReadingsInv, IsReading, FromStore
<1>4. EntriesInv' /\ TopIsNewest' /\ TailsAreNewer' /\ ShownOnceById' /\ LineShownOnce'
  BY <1>1 DEF EntriesInv, TopIsNewest, TailsAreNewer, ShownOnceById, LineShownOnce
<1> QED BY <1>2, <1>3, <1>4 DEF FeedInv
\* What is put on top of a list: the elements of both, and those on top first.
LEMMA OnTop ==
  ASSUME NEW S, NEW a \in Seq(S), NEW b \in Seq(S), NEW n \in Nat
  PROVE  /\ Capped(a \o b, n) \in Seq(S)
         /\ \A k \in DOMAIN Capped(a \o b, n) :
              \/ k \in DOMAIN a /\ Capped(a \o b, n)[k] = a[k]
              \/ k > Len(a) /\ k - Len(a) \in DOMAIN b /\ Capped(a \o b, n)[k] = b[k - Len(a)]
<1> DEFINE c == a \o b
<1>1. c \in Seq(S) /\ Len(c) = Len(a) + Len(b) OBVIOUS
<1>2. \A k \in DOMAIN c : \/ k \in DOMAIN a /\ c[k] = a[k]
                          \/ k > Len(a) /\ k - Len(a) \in DOMAIN b /\ c[k] = b[k - Len(a)]
  OBVIOUS
<1> HIDE DEF c
<1>3. /\ Capped(c, n) \in Seq(S) /\ DOMAIN Capped(c, n) \subseteq DOMAIN c
      /\ \A k \in DOMAIN Capped(c, n) : Capped(c, n)[k] = c[k]
  BY <1>1, CappedFacts
<1> QED BY <1>2, <1>3 DEF c

\* An answer is applied: what has to be shown of the new list f.
LEMMA ArrivalFrame ==
  ASSUME FeedInv, NEW r \in feedWire, FeedArrives(r), NEW f \in Seq(FeedLines), feed' = f,
         \A k \in DOMAIN f : /\ f[k].at <= feedNow
                             /\ FromStore(f[k]) \/ (feedKind = "logs" /\ f[k].id # 0),
         \A k, l \in DOMAIN f :
           k # l => /\ feedKind = "activities" => f[k].item # f[l].item
                    /\ f[k].id # 0 => f[k].id # f[l].id,
         feedKind = "logs" /\ ~Strange' =>
           \A k, l \in DOMAIN f :
             k # l /\ f[k].id = 0 /\ f[l].id = 0 /\ items[f[k].item] # Undated => f[k].item # f[l].item,
         feedKind = "logs" /\ ~Strange' =>
           \A k \in DOMAIN f : f[k].id = 0 => f[k].at <= WholeTime(f[1].at)
  PROVE  FeedInv'
<1>1. /\ feedWire' = {[q EXCEPT !.late = TRUE] : q \in feedWire \ {r}}
      /\ UNCHANGED <<feedKind, feedNow, items, feedLoads, oddTimes>>
      /\ since' = IF feedKind = "activities" THEN feedNow ELSE since
  BY DEF FeedArrives
<1>2. ASSUME NEW p \in feedWire'
      PROVE  \E q \in feedWire : p = [q EXCEPT !.late = TRUE] /\ q \in FeedLoadSet
  BY <1>1 DEF FeedInv, FeedTypeInv
<1>3. ASSUME NEW p \in feedWire'
      PROVE  /\ p \in FeedLoadSet /\ p.late = TRUE
             /\ \E q \in feedWire : p.rows = q.rows /\ p.tail = q.tail /\ p.since = q.since
  <2>1. PICK q \in feedWire : p = [q EXCEPT !.late = TRUE] /\ q \in FeedLoadSet BY <1>2
  <2> QED BY <2>1 DEF FeedLoadSet
<1>4. FeedTypeInv'
  <2>1. overlapped' \in BOOLEAN /\ oddTimes' \in BOOLEAN BY <1>1 DEF FeedArrives, FeedInv, FeedTypeInv
  <2>2. since' \in Nat BY <1>1 DEF FeedInv, FeedTypeInv
  <2>3. feedWire' \subseteq FeedLoadSet BY <1>3
  <2>4. feedLoads' \in Nat /\ feedNow' \in Nat /\ feedNow' >= 4 /\ Whole(feedNow') /\ feedKind' \in {"logs", "activities"}
    BY <1>1 DEF FeedInv, FeedTypeInv
  <2>5. items' \in Seq(Nat) BY <1>1 DEF FeedInv, FeedTypeInv
  <2> QED BY <2>1, <2>2, <2>3, <2>4, <2>5 DEF FeedTypeInv
<1>5. ReadingsInv'
  <2>1. ASSUME NEW p \in feedWire'
        PROVE  IsReading(p.rows)' /\ (p.tail => \A k \in DOMAIN p.rows : p.rows[k].at > p.since)
    <3>1. PICK q \in feedWire : p.rows = q.rows /\ p.tail = q.tail /\ p.since = q.since BY <1>3
    <3>2. IsReading(q.rows) /\ (q.tail => \A k \in DOMAIN q.rows : q.rows[k].at > q.since)
      BY DEF FeedInv, ReadingsInv
    <3>3. IsReading(p.rows) BY <3>1, <3>2
    <3> QED BY <3>1, <3>2, <3>3, <1>1 DEF IsReading, FromStore
  <2>2. \A i \in DOMAIN items' : items'[i] <= feedNow' /\ (~oddTimes' => Whole(items'[i]))
    BY <1>1 DEF FeedInv, ReadingsInv
  <2> QED BY <2>1, <2>2 DEF ReadingsInv
<1>6. EntriesInv' BY <1>1 DEF EntriesInv, FromStore
<1>7. TopIsNewest' BY <1>1 DEF TopIsNewest
<1>8. TailsAreNewer' BY <1>3 DEF TailsAreNewer
<1>9. ShownOnceById' BY <1>1 DEF ShownOnceById
<1>10. LineShownOnce' BY <1>1 DEF LineShownOnce, Strange
<1> QED BY <1>4, <1>5, <1>6, <1>7, <1>8, <1>9, <1>10 DEF FeedInv

\* A full load: a reading takes the place of the list.
LEMMA FullArrives ==
  ASSUME FeedInv, NEW r \in feedWire, FeedArrives(r), ~r.tail
  PROVE  FeedInv'
<1>1. r \in FeedLoadSet /\ r.rows \in Seq(FeedLines) /\ IsReading(r.rows)
  BY DEF FeedInv, FeedTypeInv, FeedLoadSet, ReadingsInv
<1>2. feed' = Applied(r) /\ (Strange' <=> Strange) BY DEF FeedArrives, Strange
<1>3. feed \in Seq(FeedLines) /\ feedKind \in {"logs", "activities"} /\ LogCap \in Nat
  BY FeedsAssumption DEF FeedInv, FeedTypeInv
<1>4. CASE feedKind = "logs" /\ r.rows = <<>>
  <2>1. feed' = feed BY <1>2, <1>4 DEF Applied
  <2>2. \A k \in DOMAIN feed : /\ feed[k].at <= feedNow
                               /\ FromStore(feed[k]) \/ (feedKind = "logs" /\ feed[k].id # 0)
    BY DEF FeedInv, EntriesInv
  <2>3. \A k, l \in DOMAIN feed :
          k # l => /\ feedKind = "activities" => feed[k].item # feed[l].item
                   /\ feed[k].id # 0 => feed[k].id # feed[l].id
    BY DEF FeedInv, ShownOnceById
  <2>4. feedKind = "logs" /\ ~Strange' =>
          \A k, l \in DOMAIN feed :
            k # l /\ feed[k].id = 0 /\ feed[l].id = 0 /\ items[feed[k].item] # Undated
              => feed[k].item # feed[l].item
    <3> SUFFICES ASSUME feedKind = "logs", ~Strange' PROVE LineShownOnce /\ ~Strange
      BY DEF LineShownOnce, Strange
    <3> QED BY <1>2 DEF FeedInv
  <2>5. feedKind = "logs" /\ ~Strange' =>
           \A k \in DOMAIN feed : feed[k].id = 0 => feed[k].at <= WholeTime(feed[1].at)
    BY <1>2 DEF FeedInv, TopIsNewest
  <2> QED BY <1>3, <2>1, <2>2, <2>3, <2>4, <2>5, ArrivalFrame
<1>5. CASE ~(feedKind = "logs" /\ r.rows = <<>>)
  <2> DEFINE f == feed'
  <2>1. f \in Seq(FeedLines) /\ DOMAIN f \subseteq DOMAIN r.rows /\ (\A k \in DOMAIN f : f[k] = r.rows[k])
    <3>1. CASE feedKind = "logs"
      <4>1. f = Capped(r.rows, LogCap) BY <1>2, <1>5, <3>1 DEF Applied
      <4> HIDE DEF f
      <4> QED BY <4>1, <1>1, <1>3, CappedFacts
    <3>2. CASE feedKind = "activities"
      <4>1. f = r.rows BY <1>2, <3>2 DEF Applied
      <4> QED BY <4>1, <1>1
    <3> QED BY <3>1, <3>2, <1>3
  <2>2. feed' = f OBVIOUS
  <2> HIDE DEF f
  <2>3. \A k \in DOMAIN f : f[k].at <= feedNow /\ FromStore(f[k]) BY <2>1, <1>1 DEF IsReading
  <2>4. \A k \in DOMAIN f : /\ f[k].at <= feedNow
                            /\ FromStore(f[k]) \/ (feedKind = "logs" /\ f[k].id # 0)
    BY <2>3
  <2>5. \A k, l \in DOMAIN f : k # l => f[k].item # f[l].item BY <2>1, <1>1 DEF IsReading
  <2>6. \A k \in DOMAIN f : f[k].id = 0 BY <2>3 DEF FromStore
  <2>7. \A k, l \in DOMAIN f :
           k # l => /\ feedKind = "activities" => f[k].item # f[l].item
                    /\ f[k].id # 0 => f[k].id # f[l].id
    BY <2>5, <2>6
  <2>8. feedKind = "logs" /\ ~Strange' =>
           \A k, l \in DOMAIN f :
             k # l /\ f[k].id = 0 /\ f[l].id = 0 /\ items[f[k].item] # Undated => f[k].item # f[l].item
    BY <2>5
  <2>9. ASSUME ~Strange, NEW k \in DOMAIN f PROVE f[k].at <= WholeTime(f[1].at)
    <3>1. DOMAIN f = 1..Len(f) /\ Len(f) \in Nat BY <2>1
    <3>2. 1 \in DOMAIN f /\ k \in DOMAIN r.rows /\ 1 \in DOMAIN r.rows /\ f[k] = r.rows[k] /\ f[1] = r.rows[1]
      BY <3>1, <2>1
    <3>3. k = 1 \/ 1 < k BY <3>1
    <3>4. r.rows[1] \in FeedLines /\ r.rows[k] \in FeedLines BY <3>2, <1>1
    <3>5. ~oddTimes /\ Whole(r.rows[1].at) BY <2>9, <3>2, <1>1 DEF IsReading, Strange
    <3>6. r.rows[k].at <= r.rows[1].at BY <3>2, <3>3, <3>4, <3>5, <1>1 DEF IsReading, FeedLines
    <3> QED BY <3>2, <3>5, <3>6 DEF Whole
  <2>10. feedKind = "logs" /\ ~Strange' =>
           \A k \in DOMAIN f : f[k].id = 0 => f[k].at <= WholeTime(f[1].at)
    BY <2>9, <1>2
  <2> QED BY <2>1, <2>2, <2>4, <2>7, <2>8, <2>10, ArrivalFrame
<1> QED BY <1>4, <1>5
\* A tail of the log: its rows go on top.
LEMMA LogTailArrives ==
  ASSUME FeedInv, NEW r \in feedWire, FeedArrives(r), r.tail, feedKind = "logs"
  PROVE  FeedInv'
<1> DEFINE a == r.rows
           n == Len(a)
           f == Capped(a \o feed, LogCap)
<1>1. /\ r \in FeedLoadSet /\ a \in Seq(FeedLines) /\ IsReading(a)
      /\ \A k \in DOMAIN a : a[k].at > r.since
  BY DEF FeedInv, FeedTypeInv, FeedLoadSet, ReadingsInv
<1>2. feed' = f /\ (Strange' <=> (Strange \/ r.late))
  BY DEF FeedArrives, Applied, Strange
<1>3. feed \in Seq(FeedLines) /\ LogCap \in Nat BY FeedsAssumption DEF FeedInv, FeedTypeInv
<1>4. r.since \in Nat /\ n \in Nat /\ DOMAIN a = 1..n BY <1>1 DEF FeedLoadSet
<1> HIDE DEF a
<1>5. f \in Seq(FeedLines) BY <1>1, <1>3, OnTop
<1>6. \A k \in DOMAIN f : \/ k \in DOMAIN a /\ f[k] = a[k]
                          \/ k > n /\ k - n \in DOMAIN feed /\ f[k] = feed[k - n]
  BY <1>1, <1>3, OnTop
<1> HIDE DEF f, n
<1>7. DOMAIN f \subseteq Nat /\ DOMAIN f = 1..Len(f) /\ Len(f) \in Nat BY <1>5
<1>8. \A k \in DOMAIN a : FromStore(a[k]) /\ a[k].id = 0 /\ a[k].at <= feedNow
  BY <1>1 DEF IsReading, FromStore
<1>9. \A k \in DOMAIN feed : feed[k].at <= feedNow /\ (FromStore(feed[k]) \/ feed[k].id # 0)
  BY DEF FeedInv, EntriesInv
<1>10. ASSUME NEW k \in DOMAIN f
       PROVE  f[k].at <= feedNow /\ (FromStore(f[k]) \/ (feedKind = "logs" /\ f[k].id # 0))
  BY <1>6, <1>8, <1>9
<1>11. ASSUME NEW k \in DOMAIN f, NEW l \in DOMAIN f, k # l, f[k].id # 0
       PROVE  f[k].id # f[l].id
  <2>1. k > n /\ k - n \in DOMAIN feed /\ f[k] = feed[k - n] BY <1>6, <1>8, <1>11
  <2>2. CASE l \in DOMAIN a /\ f[l] = a[l] BY <2>2, <1>8, <1>11
  <2>3. CASE l > n /\ l - n \in DOMAIN feed /\ f[l] = feed[l - n]
    <3>1. k - n # l - n BY <1>4, <1>7, <1>11
    <3> QED BY <2>1, <2>3, <3>1, <1>11 DEF FeedInv, ShownOnceById
  <2> QED BY <2>2, <2>3, <1>6
<1>12. \A k, l \in DOMAIN f :
           k # l => /\ feedKind = "activities" => f[k].item # f[l].item
                    /\ f[k].id # 0 => f[k].id # f[l].id
  BY <1>11
<1>13. ASSUME ~Strange', NEW k \in DOMAIN feed, feed[k].id = 0
       PROVE  feed[k].at \in Nat /\ feed[k].at <= r.since
  <2>1. feed[k] \in FeedLines BY <1>3
  <2>2. ~Strange /\ ~r.late BY <1>2, <1>13
  <2>3. feed[k].at <= r.since BY <2>2, <1>13 DEF FeedInv, TailsAreNewer
  <2> QED BY <2>1, <2>3 DEF FeedLines
<1>14. ASSUME NEW k \in DOMAIN a PROVE a[k].at \in Nat /\ a[k].at > r.since
  <2>1. a[k] \in FeedLines BY <1>1
  <2> QED BY <2>1, <1>1 DEF FeedLines
<1>15. ASSUME ~Strange', NEW k \in DOMAIN a, NEW l \in DOMAIN feed, feed[l].id = 0,
              items[a[k].item] # Undated \/ items[feed[l].item] # Undated
       PROVE  a[k].item # feed[l].item
  <2>1. FromStore(a[k]) /\ FromStore(feed[l]) BY <1>8, <1>9, <1>15
  <2>2. a[k].at # feed[l].at BY <1>4, <1>13, <1>14, <1>15
  <2> QED BY <2>1, <2>2, <1>15 DEF FromStore
<1>16. ASSUME ~Strange', NEW k \in DOMAIN f, NEW l \in DOMAIN f,
              k # l, f[k].id = 0, f[l].id = 0, items[f[k].item] # Undated
       PROVE  f[k].item # f[l].item
  <2> SUFFICES ASSUME f[k].item = f[l].item PROVE FALSE OBVIOUS
  <2>1. CASE k \in DOMAIN a /\ f[k] = a[k]
    <3>1. CASE l \in DOMAIN a /\ f[l] = a[l] BY <2>1, <3>1, <1>1, <1>16 DEF IsReading
    <3>2. CASE l > n /\ l - n \in DOMAIN feed /\ f[l] = feed[l - n]
      <4>1. feed[l - n].id = 0 /\ items[a[k].item] # Undated BY <2>1, <3>2, <1>16
      <4>2. a[k].item # feed[l - n].item BY <2>1, <3>2, <4>1, <1>15, <1>16
      <4> QED BY <2>1, <3>2, <4>2
    <3> QED BY <3>1, <3>2, <1>6
  <2>2. CASE k > n /\ k - n \in DOMAIN feed /\ f[k] = feed[k - n]
    <3>1. CASE l \in DOMAIN a /\ f[l] = a[l]
      <4>1. feed[k - n].id = 0 /\ items[feed[k - n].item] # Undated BY <2>2, <1>16
      <4>2. a[l].item # feed[k - n].item BY <2>2, <3>1, <4>1, <1>15, <1>16
      <4> QED BY <2>2, <3>1, <4>2
    <3>2. CASE l > n /\ l - n \in DOMAIN feed /\ f[l] = feed[l - n]
      <4>1. k - n # l - n BY <1>4, <1>7, <1>16
      <4>2. ~Strange BY <1>2, <1>16
      <4>3. feed[k - n].id = 0 /\ feed[l - n].id = 0 /\ items[feed[k - n].item] # Undated BY <2>2, <3>2, <1>16
      <4>5. LineShownOnce /\ ~overlapped /\ ~oddTimes BY <4>2 DEF FeedInv, Strange
      <4>4. feed[k - n].item # feed[l - n].item BY <2>2, <3>2, <4>1, <4>3, <4>5 DEF LineShownOnce
      <4> QED BY <2>2, <3>2, <4>4
    <3> QED BY <3>1, <3>2, <1>6
  <2> QED BY <2>1, <2>2, <1>6
<1>17. feedKind = "logs" /\ ~Strange' =>
           \A k, l \in DOMAIN f :
             k # l /\ f[k].id = 0 /\ f[l].id = 0 /\ items[f[k].item] # Undated => f[k].item # f[l].item
  BY <1>16
<1>18. ASSUME ~Strange', NEW k \in DOMAIN f, f[k].id = 0
       PROVE  f[k].at <= WholeTime(f[1].at)
  <2>1. 1 \in DOMAIN f /\ k \in Nat /\ 1 <= k BY <1>7
  <2>2. CASE n = 0
    <3>1. DOMAIN a = {} BY <2>2, <1>4
    <3>2. k - n = k /\ 1 - n = 1 BY <2>1, <2>2
    <3>3. f[k] = feed[k] /\ f[1] = feed[1] /\ k \in DOMAIN feed BY <1>6, <2>1, <3>1, <3>2
    <3>4. ~Strange BY <1>2, <1>18
    <3> QED BY <3>3, <3>4, <1>18 DEF FeedInv, TopIsNewest
  <2>3. CASE n # 0
    <3>1. 1 \in DOMAIN a /\ ~(1 > n) BY <2>3, <1>4
    <3>2. f[1] = a[1] BY <2>1, <3>1, <1>6
    <3>5. ~oddTimes /\ Whole(a[1].at) BY <3>1, <1>1, <1>2, <1>18 DEF IsReading, Strange
    <3>6. WholeTime(f[1].at) = a[1].at BY <3>2, <3>5 DEF Whole
    <3>3. CASE k \in DOMAIN a /\ f[k] = a[k]
      <4>1. k = 1 \/ 1 < k BY <2>1
      <4>2. a[k].at \in Nat /\ a[1].at \in Nat BY <3>1, <3>3, <1>14
      <4> QED BY <3>1, <3>3, <3>5, <3>6, <4>1, <4>2, <1>1 DEF IsReading
    <3>4. CASE k > n /\ k - n \in DOMAIN feed /\ f[k] = feed[k - n]
      <4>1. f[k].at \in Nat /\ f[k].at <= r.since BY <3>4, <1>13, <1>18
      <4>2. a[1].at \in Nat /\ a[1].at > r.since BY <3>1, <1>14
      <4> QED BY <4>1, <4>2, <3>6, <1>4
    <3> QED BY <3>3, <3>4, <1>6
  <2> QED BY <2>2, <2>3
<1>19. feedKind = "logs" /\ ~Strange' =>
           \A k \in DOMAIN f : f[k].id = 0 => f[k].at <= WholeTime(f[1].at)
  BY <1>18
<1>20. \A k \in DOMAIN f : /\ f[k].at <= feedNow
                           /\ FromStore(f[k]) \/ (feedKind = "logs" /\ f[k].id # 0)
  BY <1>10
<1> QED BY <1>2, <1>5, <1>12, <1>17, <1>19, <1>20, ArrivalFrame

\* A tail of the activities: those that are not shown yet go on top.
LEMMA ActivityTailArrives ==
  ASSUME FeedInv, NEW r \in feedWire, FeedArrives(r), r.tail, feedKind = "activities"
  PROVE  FeedInv'
<1> DEFINE U == {e \in ToSet(r.rows) : ~\E k \in DOMAIN feed : feed[k].item = e.item}
           a == Filtered(r.rows, U)
           n == Len(a)
           f == Capped(a \o feed, FeedLimit)
<1>1. r.rows \in Seq(FeedLines) /\ IsReading(r.rows)
  BY DEF FeedInv, FeedTypeInv, FeedLoadSet, ReadingsInv
<1>2. feed' = f BY DEF FeedArrives, Applied, UniqueNew
<1>3. feed \in Seq(FeedLines) /\ FeedLimit \in Nat BY FeedsAssumption DEF FeedInv, FeedTypeInv
<1>4. \A e \in U : \A k \in DOMAIN feed : feed[k].item # e.item OBVIOUS
<1> HIDE DEF U
<1>5. a \in Seq(FeedLines) /\ IsReading(a) BY <1>1, ReadingFiltered
<1>6. \A k \in DOMAIN a : a[k] \in U BY <1>1, FilteredFacts
<1> HIDE DEF a
<1>7. f \in Seq(FeedLines) BY <1>3, <1>5, OnTop
<1>8. \A k \in DOMAIN f : \/ k \in DOMAIN a /\ f[k] = a[k]
                          \/ k > n /\ k - n \in DOMAIN feed /\ f[k] = feed[k - n]
  BY <1>3, <1>5, OnTop
<1>9. n \in Nat /\ DOMAIN a = 1..n BY <1>5
<1> HIDE DEF f, n
<1>10. DOMAIN f \subseteq Nat BY <1>7
<1>11. \A k \in DOMAIN feed : feed[k].at <= feedNow /\ FromStore(feed[k])
  BY DEF FeedInv, EntriesInv
<1>12. \A k \in DOMAIN f : f[k].at <= feedNow /\ FromStore(f[k])
  BY <1>5, <1>8, <1>11 DEF IsReading
<1>13. ASSUME NEW k \in DOMAIN f, NEW l \in DOMAIN f, k # l PROVE f[k].item # f[l].item
  <2>1. CASE k \in DOMAIN a /\ f[k] = a[k]
    <3>1. CASE l \in DOMAIN a /\ f[l] = a[l] BY <2>1, <3>1, <1>5, <1>13 DEF IsReading
    <3>2. CASE l > n /\ l - n \in DOMAIN feed /\ f[l] = feed[l - n] BY <2>1, <3>2, <1>4, <1>6
    <3> QED BY <3>1, <3>2, <1>8
  <2>2. CASE k > n /\ k - n \in DOMAIN feed /\ f[k] = feed[k - n]
    <3>1. CASE l \in DOMAIN a /\ f[l] = a[l] BY <2>2, <3>1, <1>4, <1>6
    <3>2. CASE l > n /\ l - n \in DOMAIN feed /\ f[l] = feed[l - n]
      <4>1. k - n # l - n BY <1>9, <1>10, <1>13
      <4> QED BY <2>2, <3>2, <4>1 DEF FeedInv, ShownOnceById
    <3> QED BY <3>1, <3>2, <1>8
  <2> QED BY <2>1, <2>2, <1>8
<1>14. \A k, l \in DOMAIN f :
           k # l => /\ feedKind = "activities" => f[k].item # f[l].item
                    /\ f[k].id # 0 => f[k].id # f[l].id
  BY <1>12, <1>13 DEF FromStore
<1>15. \A k \in DOMAIN f : /\ f[k].at <= feedNow
                           /\ FromStore(f[k]) \/ (feedKind = "logs" /\ f[k].id # 0)
  BY <1>12
<1>16. feedKind # "logs" OBVIOUS
<1> QED BY <1>2, <1>7, <1>14, <1>15, <1>16, ArrivalFrame

\* An entry of the gateway changes the list only.
LEMMA GatewayFrame ==
  ASSUME FeedInv, NEW f \in Seq(FeedLines), feed' = f, feedKind = "logs",
         oddTimes' \in BOOLEAN, oddTimes => oddTimes',
         UNCHANGED <<feedKind, feedNow, items, since, feedWire, feedLoads, overlapped>>,
         \A k \in DOMAIN f : f[k].at <= feedNow /\ (FromStore(f[k]) \/ f[k].id # 0),
         \A k, l \in DOMAIN f : k # l /\ f[k].id # 0 => f[k].id # f[l].id,
         ~Strange' =>
           \A k, l \in DOMAIN f :
             k # l /\ f[k].id = 0 /\ f[l].id = 0 /\ items[f[k].item] # Undated => f[k].item # f[l].item,
         ~Strange' =>
           \A k \in DOMAIN f : f[k].id = 0 =>
             /\ f[k].at <= WholeTime(f[1].at)
             /\ \A q \in feedWire : q.tail /\ ~q.late => f[k].at <= q.since
  PROVE  FeedInv'
<1>1. FeedTypeInv'
  <2>1. overlapped' \in BOOLEAN BY DEF FeedInv, FeedTypeInv
  <2>2. feed' \in Seq(FeedLines) OBVIOUS
  <2> QED BY <2>1, <2>2 DEF FeedInv, FeedTypeInv
<1>2. ReadingsInv'
  <2>1. \A p \in feedWire : IsReading(p.rows)' BY DEF FeedInv, ReadingsInv, IsReading, FromStore
  <2> QED BY <2>1 DEF FeedInv, ReadingsInv
<1>3. EntriesInv' BY DEF EntriesInv, FromStore
<1>4. TopIsNewest' /\ TailsAreNewer' BY DEF TopIsNewest, TailsAreNewer
<1>5. ShownOnceById' BY DEF ShownOnceById
<1>6. LineShownOnce' BY DEF LineShownOnce, Strange
<1> QED BY <1>1, <1>2, <1>3, <1>4, <1>5, <1>6 DEF FeedInv

\* An entry of the gateway: it takes the place of the one that has its id, or goes
\* on top.
LEMMA GatewayLogKeeps ==
  ASSUME FeedInv, NEW id \in GatewayIds, NEW t \in {TextTime} \cup (feedNow - 2)..feedNow,
         GatewayLog(id, t)
  PROVE  FeedInv'
<1> DEFINE e == [item |-> 0, at |-> t, id |-> id]
           f == AddLog(feed, e)
           Has == \E k \in DOMAIN feed : feed[k].id = id
<1>1. /\ id \in Nat /\ id # 0 /\ LogCap \in Nat /\ feedNow \in Nat /\ feed \in Seq(FeedLines)
      /\ feedKind = "logs"
  BY FeedsAssumption DEF FeedInv, FeedTypeInv, GatewayLog
<1>a. t \in Nat /\ t <= feedNow BY <1>1 DEF FeedInv, FeedTypeInv, TextTime
<1>2. e \in FeedLines /\ e.id = id /\ e.at = t /\ e.at <= feedNow BY <1>1, <1>a DEF FeedLines
<1>b. /\ oddTimes' \in BOOLEAN /\ (oddTimes => oddTimes')
      /\ ~Strange' => ~Strange
      /\ ~Strange' => \A k \in DOMAIN feed : feed[k].id = 0 => ~(feed[k].at > WholeTime(t))
  BY DEF GatewayLog, FeedInv, FeedTypeInv, Strange
<1>c. ~Strange' => \A k \in DOMAIN feed : feed[k].id = 0 => feed[k].at <= WholeTime(t)
  <2>1. WholeTime(t) \in Nat BY <1>a, WholeFacts
  <2> SUFFICES ASSUME ~Strange', NEW k \in DOMAIN feed, feed[k].id = 0
               PROVE  feed[k].at <= WholeTime(t)
    OBVIOUS
  <2>2. feed[k] \in FeedLines BY <1>1
  <2>3. feed[k].at \in Nat BY <2>2 DEF FeedLines
  <2>4. ~(feed[k].at > WholeTime(t)) BY <1>b
  <2> QED BY <2>1, <2>3, <2>4
<1>3. feed' = f /\ UNCHANGED <<feedKind, feedNow, items, since, feedWire, feedLoads, overlapped>>
  BY DEF GatewayLog
<1>4. \A k \in DOMAIN feed : feed[k] \in FeedLines /\ feed[k].at <= feedNow
                             /\ (FromStore(feed[k]) \/ feed[k].id # 0)
  BY <1>1 DEF FeedInv, EntriesInv
<1> HIDE DEF e
<1>5. CASE Has
  <2>1. f = [k \in DOMAIN feed |-> IF feed[k].id = id THEN e ELSE feed[k]]
    BY <1>1, <1>2, <1>5 DEF AddLog
  <2>2. /\ f \in Seq(FeedLines) /\ DOMAIN f = DOMAIN feed
        /\ \A k \in DOMAIN f : IF feed[k].id = id THEN f[k] = e ELSE f[k] = feed[k]
    <3>1. \A k \in DOMAIN feed : (IF feed[k].id = id THEN e ELSE feed[k]) \in FeedLines BY <1>2, <1>4
    <3> HIDE DEF f
    <3>2. f \in [1..Len(feed) -> FeedLines] BY <2>1, <3>1, <1>1
    <3>3. f \in Seq(FeedLines) BY <3>2, <1>1
    <3> QED BY <2>1, <3>3
  <2> HIDE DEF f
  <2>3. \A k \in DOMAIN f : f[k].id = feed[k].id /\ (f[k].id # id => f[k] = feed[k])
    BY <2>2, <1>2
  <2>4. ASSUME NEW k \in DOMAIN f
        PROVE  f[k].at <= feedNow /\ (FromStore(f[k]) \/ f[k].id # 0)
    BY <2>2, <1>1, <1>2, <1>4
  <2>5. \A k, l \in DOMAIN f : k # l /\ f[k].id # 0 => f[k].id # f[l].id
    BY <2>2, <2>3 DEF FeedInv, ShownOnceById
  <2>6. ASSUME ~Strange', NEW k \in DOMAIN f, NEW l \in DOMAIN f,
               k # l, f[k].id = 0, f[l].id = 0, items[f[k].item] # Undated
        PROVE  f[k].item # f[l].item
    <3>1. f[k] = feed[k] /\ f[l] = feed[l] BY <2>3, <2>6, <1>1
    <3> QED BY <3>1, <2>2, <2>6, <1>1, <1>b DEF FeedInv, LineShownOnce, Strange
  <2>7. ASSUME ~Strange', NEW k \in DOMAIN f, f[k].id = 0
        PROVE  f[k].at <= WholeTime(f[1].at) /\ \A q \in feedWire : q.tail /\ ~q.late => f[k].at <= q.since
    <3>1. f[k] = feed[k] BY <2>3, <2>7, <1>1
    <3>2. feed[k].at <= WholeTime(feed[1].at) BY <2>2, <2>7, <3>1, <1>1, <1>b DEF FeedInv, TopIsNewest
    <3>3. 1 \in DOMAIN f /\ DOMAIN f = DOMAIN feed
      <4>1. DOMAIN f = 1..Len(f) /\ Len(f) \in Nat BY <2>2
      <4> QED BY <4>1, <2>2
    <3>4. f[1] = e \/ f[1] = feed[1] BY <2>2, <3>3
    <3>5. feed[k].at <= WholeTime(t) BY <1>c, <2>2, <2>7, <3>1
    <3>6. \A q \in feedWire : q.tail /\ ~q.late => feed[k].at <= q.since
      BY <2>2, <2>7, <3>1, <1>1, <1>b DEF FeedInv, TailsAreNewer
    <3> QED BY <3>1, <3>2, <3>4, <3>5, <3>6, <1>2
  <2> QED BY <2>2, <2>4, <2>5, <2>6, <2>7, <1>1, <1>3, <1>b, GatewayFrame
<1>6. CASE ~Has
  <2> DEFINE a == <<e>>
  <2>1. f = Capped(a \o feed, LogCap) BY <1>2, <1>6 DEF AddLog
  <2>2. a \in Seq(FeedLines) /\ Len(a) = 1 /\ DOMAIN a = {1} /\ a[1] = e BY <1>2
  <2> HIDE DEF f, a
  <2>3. f \in Seq(FeedLines) BY <2>1, <2>2, <1>1, OnTop
  <2>4. \A k \in DOMAIN f : \/ k \in DOMAIN a /\ f[k] = a[k]
                            \/ k > Len(a) /\ k - Len(a) \in DOMAIN feed /\ f[k] = feed[k - Len(a)]
    <3>1. a \in Seq(FeedLines) /\ feed \in Seq(FeedLines) /\ LogCap \in Nat BY <1>1, <2>2
    <3> DEFINE c == Capped(a \o feed, LogCap)
    <3>2. \A k \in DOMAIN c :
              \/ k \in DOMAIN a /\ c[k] = a[k]
              \/ k > Len(a) /\ k - Len(a) \in DOMAIN feed /\ c[k] = feed[k - Len(a)]
      BY <3>1, OnTop
    <3>3. f = c BY <2>1
    <3> HIDE DEF c
    <3> QED BY <3>2, <3>3
  <2>5. \A k \in DOMAIN f : \/ k = 1 /\ f[k] = e
                            \/ k > 1 /\ k - 1 \in DOMAIN feed /\ f[k] = feed[k - 1]
    BY <2>2, <2>4
  <2>6. DOMAIN f = 1..Len(f) /\ Len(f) \in Nat BY <2>3
  <2>7. ASSUME NEW k \in DOMAIN f
        PROVE  f[k].at <= feedNow /\ (FromStore(f[k]) \/ f[k].id # 0)
    BY <2>5, <1>1, <1>2, <1>4
  <2>8. ASSUME NEW k \in DOMAIN f, NEW l \in DOMAIN f, k # l, f[k].id # 0
        PROVE  f[k].id # f[l].id
    <3>1. CASE k = 1 /\ f[k] = e
      <4>1. l > 1 /\ l - 1 \in DOMAIN feed /\ f[l] = feed[l - 1] BY <2>5, <2>8, <3>1
      <4> QED BY <3>1, <4>1, <1>2, <1>6
    <3>2. CASE k > 1 /\ k - 1 \in DOMAIN feed /\ f[k] = feed[k - 1]
      <4>1. CASE l = 1 /\ f[l] = e BY <3>2, <4>1, <1>2, <1>6
      <4>2. CASE l > 1 /\ l - 1 \in DOMAIN feed /\ f[l] = feed[l - 1]
        <5>1. k - 1 # l - 1 BY <2>6, <2>8
        <5> QED BY <3>2, <4>2, <5>1, <2>8 DEF FeedInv, ShownOnceById
      <4> QED BY <4>1, <4>2, <2>5
    <3> QED BY <3>1, <3>2, <2>5
  <2>9. \A k, l \in DOMAIN f : k # l /\ f[k].id # 0 => f[k].id # f[l].id BY <2>8
  <2>10. ASSUME NEW k \in DOMAIN f, f[k].id = 0
         PROVE  k > 1 /\ k - 1 \in DOMAIN feed /\ f[k] = feed[k - 1]
    BY <2>5, <2>10, <1>1, <1>2
  <2>11. ASSUME ~Strange', NEW k \in DOMAIN f, NEW l \in DOMAIN f,
               k # l, f[k].id = 0, f[l].id = 0, items[f[k].item] # Undated
        PROVE  f[k].item # f[l].item
    <3>1. /\ k - 1 \in DOMAIN feed /\ f[k] = feed[k - 1]
          /\ l - 1 \in DOMAIN feed /\ f[l] = feed[l - 1]
      BY <2>10, <2>11
    <3>2. k - 1 # l - 1 BY <2>6, <2>11
    <3> QED BY <3>1, <3>2, <2>11, <1>1, <1>b DEF FeedInv, LineShownOnce, Strange
  <2>12. ASSUME ~Strange', NEW k \in DOMAIN f, f[k].id = 0
        PROVE  f[k].at <= WholeTime(f[1].at) /\ \A q \in feedWire : q.tail /\ ~q.late => f[k].at <= q.since
    <3>1. k - 1 \in DOMAIN feed /\ f[k] = feed[k - 1] BY <2>10, <2>12
    <3>2. 1 \in DOMAIN f BY <2>6
    <3>3. f[1] = e BY <2>5, <3>2
    <3>4. f[k].at <= WholeTime(t) BY <1>c, <2>12, <3>1
    <3>5. \A q \in feedWire : q.tail /\ ~q.late => f[k].at <= q.since
      BY <2>12, <3>1, <1>1, <1>b DEF FeedInv, TailsAreNewer
    <3> QED BY <3>3, <3>4, <3>5, <1>2
  <2> QED BY <2>3, <2>7, <2>9, <2>11, <2>12, <1>1, <1>3, <1>b, GatewayFrame
<1> QED BY <1>5, <1>6

LEMMA FeedStep == FeedInv /\ [FeedNext]_feedVars => FeedInv'
<1> SUFFICES ASSUME FeedInv, [FeedNext]_feedVars PROVE FeedInv' OBVIOUS
<1>1. CASE PollFeed BY <1>1, PollKeeps
<1>2. CASE RefreshFeed BY <1>2, RefreshKeeps
<1>3. CASE ClearLogs BY <1>3, ClearKeeps
<1>4. CASE SecondPasses BY <1>4, SecondPassesKeeps
<1>5. ASSUME NEW r \in feedWire, ServerReads(r) PROVE FeedInv' BY <1>5, ReadsKeeps
<1>6. ASSUME NEW r \in feedWire, FeedArrives(r) PROVE FeedInv'
  <2>1. feedKind \in {"logs", "activities"} BY DEF FeedInv, FeedTypeInv
  <2> QED BY <1>6, <2>1, FullArrives, LogTailArrives, ActivityTailArrives
<1>7. ASSUME NEW id \in GatewayIds, NEW t \in {TextTime, feedNow - 2, feedNow}, GatewayLog(id, t)
      PROVE  FeedInv'
  <2>1. feedNow \in Nat BY DEF FeedInv, FeedTypeInv
  <2>2. t \in {TextTime} \cup (feedNow - 2)..feedNow BY <2>1
  <2> QED BY <1>7, <2>2, GatewayLogKeeps
<1>8. ASSUME NEW t \in {Undated, TextTime, feedNow - 1, feedNow}, WriteItem(t) PROVE FeedInv'
  BY <1>8, WriteItemKeeps
<1>9. CASE UNCHANGED feedVars
  <2>1. /\ items' \in Seq(Nat) /\ DOMAIN items \subseteq DOMAIN items'
        /\ \A i \in DOMAIN items : items'[i] = items[i]
    BY <1>9 DEF feedVars, FeedInv, FeedTypeInv
  <2>2. feedNow' \in Nat /\ feedNow' >= feedNow BY <1>9 DEF feedVars, FeedInv, FeedTypeInv
  <2>3. \A i \in DOMAIN items' : items'[i] <= feedNow' /\ (~oddTimes' => Whole(items'[i]))
    BY <1>9 DEF feedVars, FeedInv, ReadingsInv
  <2>4. UNCHANGED <<feedKind, feed, since, feedWire, feedLoads, overlapped>> BY <1>9 DEF feedVars
  <2>5. oddTimes' \in BOOLEAN /\ (oddTimes => oddTimes') /\ Whole(feedNow')
    BY <1>9 DEF feedVars, FeedInv, FeedTypeInv
  <2> QED BY <2>1, <2>2, <2>3, <2>4, <2>5, StoreGrowsKeeps
<1> QED BY <1>1, <1>2, <1>3, <1>4, <1>5, <1>6, <1>7, <1>8, <1>9 DEF FeedNext

\* loadLogs and addLog of the log viewer, fetchActivities of the activity feed:
\* for any number of lines, loads, gateway entries and limits, answered in any
\* order, no activity and no gateway entry is shown twice, and a dated log line
\* only after a tail was applied over an answer that came after its asking, or
\* after a line whose time was no whole number or an entry of the gateway whose
\* time was behind the page.
THEOREM FeedsCorrect == FeedSpec => []FeedsSafe
<1>1. FeedInv /\ [FeedNext]_feedVars => FeedInv' BY FeedStep
<1>2. FeedInv => FeedsSafe BY DEF FeedInv, FeedsSafe
<1> QED BY <1>1, <1>2, FeedInitInv, PTL DEF FeedSpec
---------------------------------------------------------------------------
(***************************************************************************)
(* Sessions: the inductive invariant.                                      *)
(***************************************************************************)
ClaudeRows == [active : BOOLEAN, last : Nat, known : BOOLEAN]
StoreSids == SessionIds \cup {""}
StoreEntries == [sid : StoreSids, at : Nat]
ControlCommands ==
  [op : Nat, sid : SessionIds, act : ControlActions, acted : BOOLEAN, heard : BOOLEAN]
SpawnCalls == [req : Nat, at : {"server", "ok", "failed", "history"}]

SesTypeInv ==
  /\ sesNow \in Nat /\ sesOps \in Nat
  /\ transcripts \in [Files_ -> [sid : SessionIds \cup {"none"}, last : Nat]]
  /\ \A f \in Files_ : transcripts[f] # NoTranscript => transcripts[f].sid \in SessionIds
  /\ claudeRows \in [SessionIds -> ClaudeRows]
  /\ stores \in [Agents_ -> [torn : BOOLEAN, entries : Seq(StoreEntries)]]
  /\ commands \subseteq ControlCommands
  /\ spawns \in Seq({"pending", "completed", "failed"})
  /\ spawnCalls \subseteq SpawnCalls

\* What the gateway acted on was carried out, and a call that fetches the history
\* has settled its request.
ActedInv == \A c \in commands : c.acted => <<c.op, c.sid, c.act>> \in carriedOut
SettledInv ==
  \A c \in spawnCalls :
    /\ c.req \in DOMAIN spawns
    /\ c.at = "history" => spawns[c.req] # "pending"

SesInv ==
  /\ SesTypeInv /\ ActiveWasScanned /\ ActedInv /\ LoggedMeansDone
  /\ SettledInv /\ PendingSpawnIsUnderWay

---------------------------------------------------------------------------
(* The scan and its transaction.                                           *)

LEMMA ScanFacts ==
  ASSUME SesTypeInv
  PROVE  ScanClaudeSessions \in Seq([sid : SessionIds, last : Nat, active : BOOLEAN])
<1> DEFINE S == {f \in Files_ : transcripts[f] # NoTranscript}
           found == Filtered(Transcripts, S)
           Found == [sid : SessionIds, last : Nat, active : BOOLEAN]
           scan == [i \in DOMAIN found |-> ParseSessionFile(found[i])]
<1>1. Transcripts \in Seq(STRING) BY SessionsAssumption
<1>2. found \in Seq(STRING) /\ \A k \in DOMAIN found : found[k] \in S
  <2> HIDE DEF S
  <2> QED BY <1>1, FilteredFacts
<1>3. ASSUME NEW f \in S PROVE ParseSessionFile(f) \in Found
  <2>1. transcripts[f] \in [sid : SessionIds \cup {"none"}, last : Nat] BY DEF SesTypeInv
  <2>2. transcripts[f].sid \in SessionIds /\ transcripts[f].last \in Nat BY <2>1 DEF SesTypeInv
  <2>3. (sesNow - transcripts[f].last < ActiveFor) \in BOOLEAN OBVIOUS
  <2> QED BY <2>2, <2>3 DEF ParseSessionFile
<1> HIDE DEF found, S
<1>4. \A i \in DOMAIN found : ParseSessionFile(found[i]) \in Found BY <1>2, <1>3
<1> HIDE DEF Found
<1>5. DOMAIN found = 1..Len(found) /\ Len(found) \in Nat BY <1>2
<1>6. scan \in [1..Len(found) -> Found] BY <1>4, <1>5
<1>7. scan \in Seq(Found)
  <2> HIDE DEF scan
  <2> QED BY <1>5, <1>6
<1>8. ScanClaudeSessions = scan BY DEF ScanClaudeSessions, found, S
<1> QED BY <1>7, <1>8 DEF Found

\* The table after each session of the scan.
Upserting(scan, t) ==
  t = [i \in 0..Len(scan) |->
         IF i = 0 THEN MarkAllInactive(claudeRows) ELSE UpsertSession(t[i - 1], scan[i])]

LEMMA SyncedFacts ==
  ASSUME SesTypeInv
  PROVE  /\ SyncedTable \in [SessionIds -> ClaudeRows]
         /\ ScanClaudeSessions = <<>> => SyncedTable = claudeRows
         /\ ScanClaudeSessions # <<>> =>
              \A s \in SessionIds : SyncedTable[s].active =>
                \E k \in DOMAIN ScanClaudeSessions : ScanClaudeSessions[k].sid = s
<1> DEFINE scan == ScanClaudeSessions
           n == Len(scan)
           Table == [SessionIds -> ClaudeRows]
           base == MarkAllInactive(claudeRows)
           t == CHOOSE u : Upserting(scan, u)
           Found == [sid : SessionIds, last : Nat, active : BOOLEAN]
<1>1. SyncedTable = IF scan = <<>> THEN claudeRows ELSE t[n] BY DEF SyncedTable, Upserting
<1>2. scan \in Seq(Found) BY ScanFacts
<1>3. claudeRows \in Table BY DEF SesTypeInv
<1> HIDE DEF scan, t, Found
<1>4. n \in Nat /\ (DOMAIN scan = 1..n) /\ \A i \in 1..n : scan[i] \in Found
  BY <1>2, ElementOfSeq
<1>5. base \in Table /\ \A s \in SessionIds : ~base[s].active
  BY <1>3 DEF MarkAllInactive, ClaudeRows
<1>6. ASSUME NEW u \in Table, NEW p \in Found
      PROVE  /\ UpsertSession(u, p) \in Table
             /\ \A s \in SessionIds : UpsertSession(u, p)[s].active => u[s].active \/ p.sid = s
  <2>1. [active |-> p.active, last |-> p.last, known |-> TRUE] \in ClaudeRows BY DEF ClaudeRows, Found
  <2>2. p.sid \in SessionIds BY DEF Found
  <2> QED BY <2>1, <2>2 DEF UpsertSession
<1> HIDE DEF base, Table
<1> DEFINE W == 1..n
           G == [x \in Table \X W |-> UpsertSession(x[1], scan[x[2]])]
<1>7. PICK f \in [0..n -> Table] : f[0] = base /\ \A i \in 1..n : f[i] = UpsertSession(f[i - 1], scan[i])
  <2>1. G \in [Table \X W -> Table] BY <1>4, <1>6
  <2>2. \A u \in Table, i \in W : G[<<u, i>>] = UpsertSession(u, scan[i]) OBVIOUS
  <2> HIDE DEF G
  <2>3. PICK f : IsRun(f, Table, n, base, G)
    <3>1. n \in Nat /\ base \in Table BY <1>4, <1>5
    <3>2. G \in [Table \X (1..n) -> Table] BY <2>1
    <3> HIDE DEF n
    <3> QED BY <3>1, <3>2, Iterated
  <2>4. f \in [0..n -> Table] /\ f[0] = base BY <2>3 DEF IsRun
  <2>5. ASSUME NEW i \in 1..n PROVE f[i] = UpsertSession(f[i - 1], scan[i])
    <3>1. f[i] = G[<<f[i - 1], i>>] BY <2>3 DEF IsRun
    <3>2. i - 1 \in 0..n BY <1>4
    <3>3. f[i - 1] \in Table BY <2>4, <3>2
    <3> QED BY <2>2, <3>1, <3>3
  <2> QED BY <2>4, <2>5
<1>8. Upserting(scan, f)
  <2>1. \A i \in 0..n : f[i] = IF i = 0 THEN base ELSE UpsertSession(f[i - 1], scan[i])
    BY <1>4, <1>7
  <2>2. f = [i \in 0..n |-> f[i]] BY <1>7
  <2>3. f = [i \in 0..n |-> IF i = 0 THEN base ELSE UpsertSession(f[i - 1], scan[i])]
    BY <2>1, <2>2
  <2> QED BY <2>3 DEF Upserting, base
<1>9. Upserting(scan, t) BY <1>8 DEF t
<1>10. t[0] = base /\ \A i \in 1..n : t[i] = UpsertSession(t[i - 1], scan[i])
  <2>1. t = [i \in 0..n |-> IF i = 0 THEN base ELSE UpsertSession(t[i - 1], scan[i])]
    BY <1>9 DEF Upserting, base
  <2>2. \A i \in 0..n : t[i] = IF i = 0 THEN base ELSE UpsertSession(t[i - 1], scan[i]) BY <2>1
  <2> QED BY <2>2, <1>4
\* After i rounds, an active row is one of the first i sessions of the scan.
<1> DEFINE P == {i \in 0..n : /\ t[i] \in Table
                              /\ \A s \in SessionIds : t[i][s].active =>
                                   \E k \in 1..i : scan[k].sid = s}
<1>11. 0 \in P BY <1>4, <1>5, <1>10
<1>12. ASSUME NEW i \in 1..n, i - 1 \in P PROVE i \in P
  <2>1. t[i] = UpsertSession(t[i - 1], scan[i]) BY <1>10
  <2>2. t[i] \in Table BY <2>1, <1>4, <1>6, <1>12
  <2>3. ASSUME NEW s \in SessionIds, t[i][s].active PROVE \E k \in 1..i : scan[k].sid = s
    <3>1. t[i - 1] \in Table /\ scan[i] \in Found BY <1>4, <1>12
    <3>2. t[i - 1][s].active \/ scan[i].sid = s BY <2>1, <2>3, <3>1, <1>6
    <3>3. CASE t[i - 1][s].active
      <4>1. PICK k \in 1..(i - 1) : scan[k].sid = s BY <3>3, <1>12
      <4> QED BY <4>1, <1>4
    <3>4. CASE scan[i].sid = s BY <3>4, <1>4
    <3> QED BY <3>2, <3>3, <3>4
  <2> QED BY <2>2, <2>3, <1>4
<1> HIDE DEF P
<1>13. n \in P
  <2>1. \A i \in 0..n : i \in P BY <1>4, <1>11, <1>12, UpTo
  <2> QED BY <2>1, <1>4
<1>14. /\ t[n] \in Table
       /\ \A s \in SessionIds : t[n][s].active => \E k \in 1..n : scan[k].sid = s
  BY <1>13 DEF P
<1>15. SyncedTable \in Table BY <1>1, <1>3, <1>14
<1>16. scan # <<>> => \A s \in SessionIds : SyncedTable[s].active =>
                        \E k \in DOMAIN scan : scan[k].sid = s
  BY <1>1, <1>4, <1>14
<1>17. scan = <<>> => SyncedTable = claudeRows BY <1>1
<1> QED BY <1>15, <1>16, <1>17 DEF scan, Table
---------------------------------------------------------------------------
(* The sessions of the gateway.                                            *)
StoreRecords == [agent : Agents_, dir : Nat, key : Nat, sid : StoreSids, at : Nat]

LEMMA ReadStoreFacts ==
  ASSUME SesTypeInv, NEW d \in DOMAIN SessionAgents
  PROVE  /\ IsFiniteSet(ReadStore(d)) /\ ReadStore(d) \subseteq StoreRecords
         /\ \A x, y \in ReadStore(d) : x.key = y.key => x = y
         /\ \A x \in ReadStore(d) : x.dir = d
<1> DEFINE a == SessionAgents[d]
           entries == stores[a].entries
           W == DOMAIN entries
           f == [i \in W |-> [agent |-> a, dir |-> d, key |-> i, sid |-> entries[i].sid, at |-> entries[i].at]]
           S == {f[i] : i \in W}
<1>1. SessionAgents \in Seq(STRING) BY SessionsAssumption
<1>2. a \in Agents_ /\ d \in Nat BY <1>1 DEF Agents_, ToSet
<1>3. stores[a] \in [torn : BOOLEAN, entries : Seq(StoreEntries)] BY <1>2 DEF SesTypeInv
<1>4. entries \in Seq(StoreEntries) BY <1>3
<1>5. ReadStore(d) = IF stores[a].torn THEN {} ELSE S BY DEF ReadStore
<1> HIDE DEF a, entries
<1>6. W = 1..Len(entries) /\ Len(entries) \in Nat BY <1>4
<1>7. \A i \in W : entries[i].sid \in StoreSids /\ entries[i].at \in Nat
  <2>1. \A i \in W : entries[i] \in StoreEntries BY <1>4
  <2> QED BY <2>1 DEF StoreEntries
<1>8. ASSUME NEW i \in W PROVE f[i] \in StoreRecords /\ f[i].key = i /\ f[i].dir = d
  <2>1. i \in Nat BY <1>6
  <2>2. entries[i].sid \in StoreSids /\ entries[i].at \in Nat BY <1>7
  <2>3. f[i] = [agent |-> a, dir |-> d, key |-> i, sid |-> entries[i].sid, at |-> entries[i].at]
    OBVIOUS
  <2> HIDE DEF f, W
  <2> QED BY <2>1, <2>2, <2>3, <1>2 DEF StoreRecords
<1>9. IsFiniteSet(S)
  <2>1. IsFiniteSet(W) BY <1>6, FS_Interval
  <2>2. f \in Surjection(W, S) BY DEF Surjection
  <2> HIDE DEF W, f, S
  <2> QED BY <2>1, <2>2, FS_Surjection
<1> HIDE DEF f
<1> QED BY <1>5, <1>8, <1>9, FS_EmptySet

LEMMA GatewayListFacts ==
  ASSUME SesTypeInv
  PROVE  /\ GetAllGatewaySessions \in Seq(StoreRecords)
         /\ \A j, k \in DOMAIN GetAllGatewaySessions :
              j < k => GetAllGatewaySessions[j].at >= GetAllGatewaySessions[k].at
<1> DEFINE D == DOMAIN SessionAgents
           SS == {ReadStore(d) : d \in D}
           all == UNION SS
           R == {p \in all \X all : Precedes(p[1], p[2])}
           r == Ranked(all, R)
<1>1. SessionAgents \in Seq(STRING) BY SessionsAssumption
<1>2. \A x \in all : x \in StoreRecords BY ReadStoreFacts
<1>3. \A x \in all : x.dir \in Nat /\ x.key \in Nat /\ x.at \in Nat BY <1>2 DEF StoreRecords
<1>4. \A x, y \in all : x.dir = y.dir /\ x.key = y.key => x = y BY ReadStoreFacts
<1>5. IsFiniteSet(all)
  <2> DEFINE f == [d \in D |-> ReadStore(d)]
  <2>1. IsFiniteSet(D)
    <3>1. D = 1..Len(SessionAgents) /\ Len(SessionAgents) \in Nat BY <1>1
    <3> QED BY <3>1, FS_Interval
  <2>2. f \in Surjection(D, SS) BY DEF Surjection
  <2>3. \A T \in SS : IsFiniteSet(T) BY ReadStoreFacts
  <2> HIDE DEF D, SS, f
  <2>4. IsFiniteSet(SS) BY <2>1, <2>2, FS_Surjection
  <2> QED BY <2>3, <2>4, FS_UNION
<1>6. GetAllGatewaySessions = r BY DEF GetAllGatewaySessions
<1> HIDE DEF all
<1>7. \A x, y \in all : <<x, y>> \in R <=> Precedes(x, y) OBVIOUS
<1> HIDE DEF R
<1>8. IsOrder(all, R)
  <2>1. \A x \in all : <<x, x>> \notin R BY <1>3, <1>7 DEF Precedes
  <2>2. \A x, y, z \in all : <<x, y>> \in R /\ <<y, z>> \in R => <<x, z>> \in R
    BY <1>3, <1>7 DEF Precedes
  <2>3. \A x, y \in all : x # y => <<x, y>> \in R \/ <<y, x>> \in R
    BY <1>3, <1>4, <1>7 DEF Precedes
  <2> QED BY <2>1, <2>2, <2>3 DEF IsOrder
<1>9. r \in Seq(all) /\ \A j, k \in DOMAIN r : j < k => <<r[j], r[k]>> \in R
  BY <1>5, <1>8, RankedFacts
<1> HIDE DEF r
<1>10. r \in Seq(StoreRecords)
  <2>1. all \subseteq StoreRecords BY <1>2
  <2> QED BY <2>1, <1>9, SeqMonotonic
<1>11. ASSUME NEW j \in DOMAIN r, NEW k \in DOMAIN r, j < k PROVE r[j].at >= r[k].at
  <2>1. r[j] \in all /\ r[k] \in all BY <1>9
  <2>2. Precedes(r[j], r[k]) BY <2>1, <1>7, <1>9, <1>11
  <2> QED BY <2>1, <2>2, <1>3 DEF Precedes
<1> QED BY <1>6, <1>10, <1>11

\* The first session of an agent in the list is its newest.
LEMMA LatestFacts ==
  ASSUME SesTypeInv, NEW g \in ToSet(GetAllGatewaySessions)
  PROVE  LatestOf(g.agent) >= g.at
<1> DEFINE all == GetAllGatewaySessions
           T == {x \in ToSet(all) : x.agent = g.agent}
           mine == Filtered(all, T)
<1>1. all \in Seq(StoreRecords) /\ \A j, k \in DOMAIN all : j < k => all[j].at >= all[k].at
  BY GatewayListFacts
<1>2. LatestOf(g.agent) = mine[1].at BY DEF LatestOf
<1>3. PICK i \in DOMAIN all : all[i] = g BY DEF ToSet
<1>4. g \in T OBVIOUS
<1> HIDE DEF all, T
<1>5. \E k \in DOMAIN mine : mine[k] = g BY <1>1, <1>3, <1>4, FilteredFacts
<1>6. PICK k \in DOMAIN mine : mine[k] = g BY <1>5
<1>7. mine \in Seq(StoreRecords) BY <1>1, FilteredFacts
<1>8. DOMAIN mine = 1..Len(mine) /\ Len(mine) \in Nat
  <2> HIDE DEF mine
  <2> QED BY <1>7
<1>9. 1 \in DOMAIN mine /\ (k = 1 \/ 1 < k) BY <1>6, <1>8
<1>10. CASE k = 1
  <2>1. g \in StoreRecords BY <1>1, <1>3
  <2>2. mine[1].at = g.at /\ g.at \in Nat BY <1>6, <1>10, <2>1 DEF StoreRecords
  <2> QED BY <1>2, <2>2
<1>11. CASE 1 < k
  <2>1. PICK a, b \in DOMAIN all : a < b /\ all[a] = mine[1] /\ all[b] = mine[k]
    BY <1>1, <1>6, <1>9, <1>11, FilteredOrder
  <2> HIDE DEF mine
  <2> QED BY <1>1, <1>2, <1>6, <2>1
<1> QED BY <1>9, <1>10, <1>11

\* The map of the loop after each entry.
Deduplicating(all, f) ==
  f = [i \in 0..Len(all) |-> IF i = 0 THEN <<>> ELSE KeepNewest(f[i - 1], all[i])]

\* c has one entry of each session among the first i of the list, and no entry of
\* the session is newer.
KeptOf(all, i, c) ==
  /\ \A k, l \in DOMAIN c : IdOf(c[k]) = IdOf(c[l]) => k = l
  /\ \A j \in 1..i : \E k \in DOMAIN c : IdOf(c[k]) = IdOf(all[j]) /\ c[k].at >= all[j].at

LEMMA KeepNewestFacts ==
  ASSUME NEW c \in Seq(StoreRecords), NEW g \in StoreRecords
  PROVE  KeepNewest(c, g) \in Seq(StoreRecords)
<1> DEFINE d == [i \in DOMAIN c |-> IF IdOf(c[i]) = IdOf(g) /\ g.at > c[i].at THEN g ELSE c[i]]
<1>1. d \in Seq(StoreRecords)
  <2>1. DOMAIN c = 1..Len(c) /\ Len(c) \in Nat OBVIOUS
  <2>2. d \in [1..Len(c) -> StoreRecords] BY <2>1
  <2> HIDE DEF d
  <2> QED BY <2>1, <2>2
<1> HIDE DEF d
<1>2. Append(c, g) \in Seq(StoreRecords) OBVIOUS
<1>3. KeepNewest(c, g) = d \/ KeepNewest(c, g) = Append(c, g) BY DEF KeepNewest, d
<1> QED BY <1>1, <1>2, <1>3

LEMMA KeepsNewest ==
  ASSUME NEW all \in Seq(StoreRecords), NEW i \in DOMAIN all,
         NEW c \in Seq(StoreRecords), KeptOf(all, i - 1, c)
  PROVE  KeptOf(all, i, KeepNewest(c, all[i]))
<1> DEFINE g == all[i]
           new == KeepNewest(c, g)
<1>1. i \in Nat /\ i # 0 /\ g \in StoreRecords OBVIOUS
<1>2. g.at \in Nat BY <1>1 DEF StoreRecords
<1>3. \A j \in DOMAIN all : all[j].at \in Nat
  <2>1. \A j \in DOMAIN all : all[j] \in StoreRecords OBVIOUS
  <2> QED BY <2>1 DEF StoreRecords
<1>4. \A k \in DOMAIN c : c[k].at \in Nat
  <2>1. \A k \in DOMAIN c : c[k] \in StoreRecords OBVIOUS
  <2> QED BY <2>1 DEF StoreRecords
<1>5. DOMAIN c = 1..Len(c) /\ Len(c) \in Nat OBVIOUS
<1>6. 1..(i - 1) \subseteq DOMAIN all BY <1>1
<1> HIDE DEF g
<1>7. CASE \E k \in DOMAIN c : IdOf(c[k]) = IdOf(g)
  <2>1. new = [k \in DOMAIN c |-> IF IdOf(c[k]) = IdOf(g) /\ g.at > c[k].at THEN g ELSE c[k]]
    BY <1>7 DEF KeepNewest
  <2>2. DOMAIN new = DOMAIN c /\ \A k \in DOMAIN c :
          new[k] = IF IdOf(c[k]) = IdOf(g) /\ g.at > c[k].at THEN g ELSE c[k]
    BY <2>1
  <2> HIDE DEF new
  <2>3. \A k \in DOMAIN c : /\ IdOf(new[k]) = IdOf(c[k]) /\ new[k].at >= c[k].at
                            /\ IdOf(c[k]) = IdOf(g) => new[k].at >= g.at
    BY <2>2, <1>2, <1>4
  <2>4. \A k, l \in DOMAIN new : IdOf(new[k]) = IdOf(new[l]) => k = l
    BY <2>2, <2>3 DEF KeptOf
  <2>5. ASSUME NEW j \in 1..i
        PROVE  \E k \in DOMAIN new : IdOf(new[k]) = IdOf(all[j]) /\ new[k].at >= all[j].at
    <3>1. CASE j = i
      <4>1. PICK k \in DOMAIN c : IdOf(c[k]) = IdOf(g) BY <1>7
      <4> QED BY <3>1, <4>1, <2>2, <2>3 DEF g
    <3>2. CASE j # i
      <4>1. j \in 1..(i - 1) /\ j \in DOMAIN all BY <3>2, <1>1, <1>6
      <4>2. PICK k \in DOMAIN c : IdOf(c[k]) = IdOf(all[j]) /\ c[k].at >= all[j].at
        BY <4>1 DEF KeptOf
      <4>3. new[k].at \in Nat BY <2>2, <1>2, <1>4
      <4>4. new[k].at >= all[j].at BY <4>1, <4>2, <4>3, <2>3, <1>3, <1>4
      <4> QED BY <4>2, <4>4, <2>2, <2>3
    <3> QED BY <3>1, <3>2
  <2>6. KeptOf(all, i, new) BY <2>4, <2>5 DEF KeptOf
  <2> QED BY <2>6 DEF new, g
<1>8. CASE ~\E k \in DOMAIN c : IdOf(c[k]) = IdOf(g)
  <2> DEFINE m == Len(c)
  <2>1. new = Append(c, g) BY <1>8 DEF KeepNewest
  <2>2. /\ DOMAIN new = 1..(m + 1) /\ m \in Nat /\ new[m + 1] = g
        /\ \A k \in 1..m : new[k] = c[k]
    BY <2>1, <1>1
  <2> HIDE DEF new, m
  <2>3. DOMAIN c = 1..m BY <1>5 DEF m
  <2>4. ASSUME NEW k \in DOMAIN new, NEW l \in DOMAIN new, IdOf(new[k]) = IdOf(new[l])
        PROVE  k = l
    <3>1. (k = m + 1 \/ k \in 1..m) /\ (l = m + 1 \/ l \in 1..m) BY <2>2
    <3> QED BY <3>1, <2>2, <2>3, <2>4, <1>8 DEF KeptOf
  <2>5. ASSUME NEW j \in 1..i
        PROVE  \E k \in DOMAIN new : IdOf(new[k]) = IdOf(all[j]) /\ new[k].at >= all[j].at
    <3>1. CASE j = i
      <4>1. m + 1 \in DOMAIN new /\ g.at >= g.at BY <2>2, <1>2
      <4> QED BY <3>1, <4>1, <2>2 DEF g
    <3>2. CASE j # i
      <4>1. j \in 1..(i - 1) BY <3>2, <1>1
      <4>2. PICK k \in DOMAIN c : IdOf(c[k]) = IdOf(all[j]) /\ c[k].at >= all[j].at
        BY <4>1 DEF KeptOf
      <4>3. k \in DOMAIN new /\ new[k] = c[k] BY <2>2, <2>3
      <4> QED BY <4>2, <4>3
    <3> QED BY <3>1, <3>2
  <2>6. KeptOf(all, i, new) BY <2>4, <2>5 DEF KeptOf
  <2> QED BY <2>6 DEF new, g
<1> QED BY <1>7, <1>8

\* The loop over a list has a state after each of its entries.
KeepingRun(f, L, n, base, all) ==
  f \in [0..n -> L] /\ f[0] = base /\ \A i \in 1..n : f[i] = KeepNewest(f[i - 1], all[i])

LEMMA KeepingRuns ==
  ASSUME NEW L, NEW base \in L, NEW n \in Nat, NEW all,
         \A c \in L, i \in 1..n : KeepNewest(c, all[i]) \in L
  PROVE  \E f : KeepingRun(f, L, n, base, all)
<1> DEFINE G == [x \in L \X (1..n) |-> KeepNewest(x[1], all[x[2]])]
<1>1. G \in [L \X (1..n) -> L] OBVIOUS
<1>2. \A c \in L, i \in 1..n : G[<<c, i>>] = KeepNewest(c, all[i]) OBVIOUS
<1> HIDE DEF G
<1>3. PICK f : IsRun(f, L, n, base, G) BY <1>1, Iterated
<1>4. f \in [0..n -> L] /\ f[0] = base BY <1>3 DEF IsRun
<1>5. ASSUME NEW i \in 1..n PROVE f[i] = KeepNewest(f[i - 1], all[i])
  <2>1. f[i] = G[<<f[i - 1], i>>] BY <1>3 DEF IsRun
  <2>2. i - 1 \in 0..n OBVIOUS
  <2>3. f[i - 1] \in L BY <1>4, <2>2
  <2> QED BY <1>2, <2>1, <2>3
<1>6. KeepingRun(f, L, n, base, all) BY <1>4, <1>5 DEF KeepingRun
<1> QED BY <1>6

LEMMA DeduplicatedFacts ==
  ASSUME NEW all \in Seq(StoreRecords)
  PROVE  KeptOf(all, Len(all), Deduplicated(all))
<1> DEFINE n == Len(all)
           Lists_ == Seq(StoreRecords)
           t == CHOOSE f : Deduplicating(all, f)
<1>1. Deduplicated(all) = t[n] BY DEF Deduplicated, Deduplicating
<1>2. n \in Nat /\ DOMAIN all = 1..n /\ \A i \in 1..n : all[i] \in StoreRecords BY ElementOfSeq
<1>3. <<>> \in Lists_ OBVIOUS
<1>4. \A c \in Lists_, g \in StoreRecords : KeepNewest(c, g) \in Lists_ BY KeepNewestFacts
<1> HIDE DEF t, Lists_
<1>5. PICK f \in [0..n -> Lists_] : f[0] = <<>> /\ \A i \in 1..n : f[i] = KeepNewest(f[i - 1], all[i])
  <2>1. \A c \in Lists_, i \in 1..n : KeepNewest(c, all[i]) \in Lists_ BY <1>2, <1>4
  <2>2. n \in Nat BY <1>2
  <2>3. PICK f : KeepingRun(f, Lists_, n, <<>>, all)
    <3> HIDE DEF n
    <3> QED BY <2>1, <2>2, <1>3, KeepingRuns
  <2> QED BY <2>3 DEF KeepingRun
<1>6. Deduplicating(all, f)
  <2>1. \A i \in 0..n : f[i] = IF i = 0 THEN <<>> ELSE KeepNewest(f[i - 1], all[i])
    BY <1>2, <1>5
  <2>2. f = [i \in 0..n |-> f[i]] BY <1>5
  <2>3. f = [i \in 0..n |-> IF i = 0 THEN <<>> ELSE KeepNewest(f[i - 1], all[i])]
    BY <2>1, <2>2
  <2> QED BY <2>3 DEF Deduplicating
<1>7. Deduplicating(all, t) BY <1>6 DEF t
<1>8. t[0] = <<>> /\ \A i \in 1..n : t[i] = KeepNewest(t[i - 1], all[i])
  <2>1. t = [i \in 0..n |-> IF i = 0 THEN <<>> ELSE KeepNewest(t[i - 1], all[i])]
    BY <1>7 DEF Deduplicating
  <2>2. \A i \in 0..n : t[i] = IF i = 0 THEN <<>> ELSE KeepNewest(t[i - 1], all[i]) BY <2>1
  <2> QED BY <2>2, <1>2
<1> DEFINE P == {i \in 0..n : t[i] \in Lists_ /\ KeptOf(all, i, t[i])}
<1>9. 0 \in P
  <2>1. KeptOf(all, 0, <<>>) BY DEF KeptOf
  <2> QED BY <2>1, <1>2, <1>3, <1>8
<1>10. ASSUME NEW i \in 1..n, i - 1 \in P PROVE i \in P
  <2>1. t[i] = KeepNewest(t[i - 1], all[i]) BY <1>8
  <2>2. i \in DOMAIN all /\ all[i] \in StoreRecords /\ i \in 0..n BY <1>2
  <2>3. t[i - 1] \in Lists_ /\ KeptOf(all, i - 1, t[i - 1]) BY <1>10
  <2>4. t[i] \in Lists_ BY <2>1, <2>2, <2>3, <1>4
  <2>5. KeptOf(all, i, t[i]) BY <2>1, <2>2, <2>3, KeepsNewest DEF Lists_
  <2> QED BY <2>2, <2>4, <2>5
<1> HIDE DEF P
<1>11. \A i \in 0..n : i \in P BY <1>2, <1>9, <1>10, UpTo
<1>12. n \in P BY <1>2, <1>11
<1> QED BY <1>1, <1>12 DEF P

\* What the page and the status poll make of the stores.
LEMMA SesListed == SesTypeInv => ListedOnceAndNewest
<1> SUFFICES ASSUME SesTypeInv PROVE ListedOnceAndNewest OBVIOUS
<1> DEFINE all == GetAllGatewaySessions
           shown == Deduplicated(all)
<1>1. all \in Seq(StoreRecords) BY GatewayListFacts
<1>2. \A g \in ToSet(all) : LatestOf(g.agent) >= g.at BY LatestFacts
<1> HIDE DEF all
<1>3. KeptOf(all, Len(all), shown) BY <1>1, DeduplicatedFacts
<1>4. \A j, k \in DOMAIN shown : IdOf(shown[j]) = IdOf(shown[k]) => j = k BY <1>3 DEF KeptOf
<1>5. ASSUME NEW g \in ToSet(all)
      PROVE  \E k \in ToSet(shown) : IdOf(k) = IdOf(g) /\ k.at >= g.at
  <2>1. PICK j \in DOMAIN all : all[j] = g BY DEF ToSet
  <2>2. j \in 1..Len(all) BY <1>1, <2>1
  <2>3. PICK k \in DOMAIN shown : IdOf(shown[k]) = IdOf(all[j]) /\ shown[k].at >= all[j].at
    BY <2>2, <1>3 DEF KeptOf
  <2> HIDE DEF shown
  <2>4. shown[k] \in ToSet(shown) BY <2>3 DEF ToSet
  <2> QED BY <2>1, <2>3, <2>4
<1> QED BY <1>2, <1>4, <1>5 DEF ListedOnceAndNewest, all
---------------------------------------------------------------------------
(* The steps: what each part of the invariant asks of those that leave it alone. *)
LEMMA ScanFrame ==
  ASSUME ActiveWasScanned, UNCHANGED <<claudeRows, scannedAt>>
  PROVE  ActiveWasScanned'
BY DEF ActiveWasScanned

LEMMA ControlFrame ==
  ASSUME ActedInv, LoggedMeansDone, UNCHANGED <<commands, carriedOut, controlLog>>
  PROVE  ActedInv' /\ LoggedMeansDone'
BY DEF ActedInv, LoggedMeansDone

LEMMA SpawnFrame ==
  ASSUME SettledInv, PendingSpawnIsUnderWay, UNCHANGED <<spawns, spawnCalls>>
  PROVE  SettledInv' /\ PendingSpawnIsUnderWay'
BY DEF SettledInv, PendingSpawnIsUnderWay

LEMMA SesInitInv == SessionsInit => SesInv
<1> SUFFICES ASSUME SessionsInit PROVE SesInv OBVIOUS
<1>1. sesNow \in Nat /\ sesOps \in Nat BY DEF SessionsInit
<1>2. /\ transcripts \in [Files_ -> [sid : SessionIds \cup {"none"}, last : Nat]]
      /\ \A f \in Files_ : transcripts[f] = NoTranscript
  BY DEF SessionsInit, NoTranscript
<1>3. claudeRows \in [SessionIds -> ClaudeRows] /\ \A s \in SessionIds : ~claudeRows[s].active
  BY DEF SessionsInit, NoSessionRow, ClaudeRows
<1>4. stores \in [Agents_ -> [torn : BOOLEAN, entries : Seq(StoreEntries)]]
  <2>1. <<>> \in Seq(StoreEntries) OBVIOUS
  <2>2. [torn |-> FALSE, entries |-> <<>>] \in [torn : BOOLEAN, entries : Seq(StoreEntries)] BY <2>1
  <2> QED BY <2>2 DEF SessionsInit
<1>5. commands = {} /\ controlLog = {} /\ spawnCalls = {} BY DEF SessionsInit
<1>6. spawns = <<>> BY DEF SessionsInit
<1>7. spawns \in Seq({"pending", "completed", "failed"}) /\ DOMAIN spawns = {} BY <1>6
<1>8. SesTypeInv BY <1>1, <1>2, <1>3, <1>4, <1>5, <1>7 DEF SesTypeInv
<1> QED BY <1>3, <1>5, <1>7, <1>8
  DEF SesInv, ActiveWasScanned, ActedInv, LoggedMeansDone, SettledInv, PendingSpawnIsUnderWay

LEMMA SesTick == SesInv /\ SessionTick => SesInv'
<1> SUFFICES ASSUME SesInv, SessionTick PROVE SesInv' OBVIOUS
<1> USE DEF SessionTick, scanVars, listVars, controlVars, spawnVars
<1>1. SesTypeInv' BY DEF SesInv, SesTypeInv
<1> QED BY <1>1, ScanFrame, ControlFrame, SpawnFrame DEF SesInv

LEMMA SesTranscript ==
  ASSUME NEW f \in Files_,
         RemoveTranscript(f) \/ \E s \in SessionIds : WriteTranscript(f, s)
  PROVE  SesInv => SesInv'
<1> SUFFICES ASSUME SesInv PROVE SesInv' OBVIOUS
<1> USE DEF RemoveTranscript, WriteTranscript, listVars, controlVars, spawnVars, SpendOp
<1> DEFINE Lines == [sid : SessionIds \cup {"none"}, last : Nat]
<1>1. SesTypeInv BY DEF SesInv
<1>2. PICK new \in Lines : /\ transcripts' = [transcripts EXCEPT ![f] = new]
                           /\ new # NoTranscript => new.sid \in SessionIds
  <2>1. sesNow \in Nat BY <1>1 DEF SesTypeInv
  <2>2. CASE RemoveTranscript(f) BY <2>2 DEF NoTranscript
  <2>3. ASSUME NEW s \in SessionIds, WriteTranscript(f, s)
        PROVE  transcripts' = [transcripts EXCEPT ![f] = [sid |-> s, last |-> sesNow]]
    BY <2>3
  <2> QED BY <2>1, <2>2, <2>3
<1>3. transcripts' \in [Files_ -> Lines] BY <1>1, <1>2 DEF SesTypeInv
<1>4. \A g \in Files_ : transcripts'[g] # NoTranscript => transcripts'[g].sid \in SessionIds
  BY <1>1, <1>2 DEF SesTypeInv
<1>5. sesOps' \in Nat BY <1>1 DEF SesTypeInv
<1>6. UNCHANGED <<sesNow, claudeRows, scannedAt, stores, commands, carriedOut, controlLog,
                  spawns, spawnCalls>>
  OBVIOUS
<1>7. SesTypeInv'
  <2>1. NoTranscript' = NoTranscript BY DEF NoTranscript
  <2> QED BY <1>1, <1>3, <1>4, <1>5, <1>6, <2>1 DEF SesTypeInv
<1> QED BY <1>6, <1>7, ScanFrame, ControlFrame, SpawnFrame DEF SesInv

\* A scan leaves active only what it saw.
LEMMA SyncStep ==
  ASSUME SesTypeInv, ActiveWasScanned, SyncClaudeSessions
  PROVE  claudeRows' \in [SessionIds -> ClaudeRows] /\ ActiveWasScanned'
<1>1. claudeRows' = SyncedTable /\ SyncedTable \in [SessionIds -> ClaudeRows]
  BY SyncedFacts DEF SyncClaudeSessions
<1>2. CASE ScanClaudeSessions = <<>>
  <2>1. claudeRows' = claudeRows /\ scannedAt' = scannedAt
    BY <1>1, <1>2, SyncedFacts DEF SyncClaudeSessions
  <2> QED BY <1>1, <2>1, ScanFrame
<1>3. CASE ScanClaudeSessions # <<>>
  <2>1. scannedAt' = {p.sid : p \in ToSet(ScanClaudeSessions)} BY <1>3 DEF SyncClaudeSessions
  <2>2. ASSUME NEW s \in SessionIds, SyncedTable[s].active PROVE s \in scannedAt'
    <3>1. PICK k \in DOMAIN ScanClaudeSessions : ScanClaudeSessions[k].sid = s
      BY <1>3, <2>2, SyncedFacts
    <3>2. ScanClaudeSessions[k] \in ToSet(ScanClaudeSessions) BY <3>1 DEF ToSet
    <3> QED BY <2>1, <3>1, <3>2
  <2> QED BY <1>1, <2>2 DEF ActiveWasScanned
<1> QED BY <1>2, <1>3

LEMMA SesScan == SesInv /\ (ScanSessions \/ LoadSessions) => SesInv'
<1> SUFFICES ASSUME SesInv, ScanSessions \/ LoadSessions PROVE SesInv' OBVIOUS
<1>1. SesTypeInv BY DEF SesInv
<1>2. UNCHANGED <<sesNow, transcripts, stores, commands, carriedOut, controlLog,
                  spawns, spawnCalls, sesOps>>
  BY DEF ScanSessions, LoadSessions, listVars, controlVars, spawnVars
<1>3. SyncClaudeSessions \/ UNCHANGED <<claudeRows, scannedAt>>
  BY DEF ScanSessions, LoadSessions
<1>4. claudeRows' \in [SessionIds -> ClaudeRows] /\ ActiveWasScanned'
  <2>1. CASE SyncClaudeSessions BY <2>1, <1>1, SyncStep DEF SesInv
  <2>2. CASE UNCHANGED <<claudeRows, scannedAt>> BY <2>2, <1>1, ScanFrame DEF SesInv, SesTypeInv
  <2> QED BY <1>3, <2>1, <2>2
<1>5. SesTypeInv'
  <2>1. NoTranscript' = NoTranscript BY DEF NoTranscript
  <2> QED BY <1>1, <1>2, <1>4, <2>1 DEF SesTypeInv
<1> QED BY <1>2, <1>4, <1>5, ControlFrame, SpawnFrame DEF SesInv
LEMMA SesStores ==
  ASSUME NEW a \in Agents_,
         TearStore(a) \/ \E i \in 1..2, sid \in StoreSids : WriteStore(a, i, sid)
  PROVE  SesInv => SesInv'
<1> SUFFICES ASSUME SesInv PROVE SesInv' OBVIOUS
<1> DEFINE Stores == [torn : BOOLEAN, entries : Seq(StoreEntries)]
<1>1. SesTypeInv BY DEF SesInv
<1>2. stores \in [Agents_ -> Stores] /\ sesNow \in Nat BY <1>1 DEF SesTypeInv
<1>3. UNCHANGED <<sesNow, transcripts, claudeRows, scannedAt, commands, carriedOut, controlLog,
                  spawns, spawnCalls>> /\ SpendOp
  BY DEF TearStore, WriteStore, scanVars, controlVars, spawnVars
<1>4. stores' \in [Agents_ -> Stores]
  <2>1. CASE TearStore(a)
    <3>1. [stores[a] EXCEPT !.torn = TRUE] \in Stores BY <1>2
    <3>2. stores' = [stores EXCEPT ![a] = [stores[a] EXCEPT !.torn = TRUE]]
      BY <2>1 DEF TearStore
    <3> HIDE DEF Stores
    <3> QED BY <3>1, <3>2, <1>2
  <2>2. ASSUME NEW i \in 1..2, NEW sid \in StoreSids, WriteStore(a, i, sid)
        PROVE  stores' \in [Agents_ -> Stores]
    <3> DEFINE e == [sid |-> sid, at |-> sesNow]
               old == stores[a].entries
               new == IF i \in DOMAIN old THEN ReplaceAt(old, i, e) ELSE Append(old, e)
               store == [torn |-> FALSE, entries |-> new]
    <3>1. e \in StoreEntries BY <1>2 DEF StoreEntries
    <3>2. old \in Seq(StoreEntries) BY <1>2
    <3>3. stores' = [stores EXCEPT ![a] = store] BY <2>2 DEF WriteStore
    <3> HIDE DEF e, old
    <3>4. new \in Seq(StoreEntries)
      <4>1. CASE i \in DOMAIN old
        <5>1. ReplaceAt(old, i, e) \in Seq(StoreEntries)
          BY <3>1, <3>2, <4>1 DEF ReplaceAt
        <5> QED BY <4>1, <5>1
      <4>2. CASE i \notin DOMAIN old
        <5>1. Append(old, e) \in Seq(StoreEntries) BY <3>1, <3>2
        <5> QED BY <4>2, <5>1
      <4> QED BY <4>1, <4>2
    <3> HIDE DEF new
    <3>5. store \in Stores BY <3>4
    <3> HIDE DEF store, Stores
    <3> QED BY <3>3, <3>5, <1>2
  <2> QED BY <2>1, <2>2
<1>5. sesOps' \in Nat BY <1>1, <1>3 DEF SpendOp, SesTypeInv
<1>6. SesTypeInv'
  <2>1. NoTranscript' = NoTranscript BY DEF NoTranscript
  <2> QED BY <1>1, <1>3, <1>4, <1>5, <2>1 DEF SesTypeInv
<1> QED BY <1>3, <1>6, ScanFrame, ControlFrame, SpawnFrame DEF SesInv

LEMMA SesPoll == SesInv /\ PollStatus => SesInv'
<1> SUFFICES ASSUME SesInv, PollStatus PROVE SesInv' OBVIOUS
<1>1. UNCHANGED <<sesNow, transcripts, claudeRows, scannedAt, stores, commands, carriedOut,
                  controlLog, spawns, spawnCalls, sesOps>>
  BY DEF PollStatus, scanVars, controlVars, spawnVars
<1>2. SesTypeInv'
  <2>1. NoTranscript' = NoTranscript BY DEF NoTranscript
  <2> QED BY <1>1, <2>1 DEF SesInv, SesTypeInv
<1> QED BY <1>1, <1>2, ScanFrame, ControlFrame, SpawnFrame DEF SesInv

\* A step of a command leaves the scans, the stores and the spawns alone.
LEMMA CommandFrame ==
  ASSUME SesInv, commands' \subseteq ControlCommands, sesOps' \in Nat,
         UNCHANGED <<sesNow, transcripts, claudeRows, scannedAt, stores, spawns, spawnCalls>>,
         ActedInv', LoggedMeansDone'
  PROVE  SesInv'
<1>1. SesTypeInv'
  <2>1. NoTranscript' = NoTranscript BY DEF NoTranscript
  <2> QED BY <2>1 DEF SesInv, SesTypeInv
<1> QED BY <1>1, ScanFrame, SpawnFrame DEF SesInv

LEMMA SesClick ==
  ASSUME NEW s \in SessionIds, NEW act \in ControlActions, ClickControl(s, act)
  PROVE  SesInv => SesInv'
<1> SUFFICES ASSUME SesInv PROVE SesInv' OBVIOUS
<1>1. SesTypeInv /\ ActedInv /\ LoggedMeansDone BY DEF SesInv
<1>2. sesOps \in Nat /\ commands \subseteq ControlCommands BY <1>1 DEF SesTypeInv
<1> DEFINE c == [op |-> sesOps, sid |-> s, act |-> act, acted |-> FALSE, heard |-> TRUE]
<1>3. c \in ControlCommands /\ ~c.acted BY <1>2 DEF ControlCommands
<1>4. commands' = commands \cup {c} /\ sesOps' \in Nat
  BY <1>2 DEF ClickControl, SpendOp
<1>5. UNCHANGED <<sesNow, transcripts, claudeRows, scannedAt, stores, spawns, spawnCalls,
                  carriedOut, controlLog>>
  BY DEF ClickControl, scanVars, listVars, spawnVars
<1> HIDE DEF c
<1>6. ActedInv' BY <1>1, <1>3, <1>4, <1>5 DEF ActedInv
<1>7. LoggedMeansDone' BY <1>1, <1>5 DEF LoggedMeansDone
<1> QED BY <1>2, <1>3, <1>4, <1>5, <1>6, <1>7, CommandFrame

LEMMA SesActs ==
  ASSUME NEW c \in commands, GatewayActs(c)
  PROVE  SesInv => SesInv'
<1> SUFFICES ASSUME SesInv PROVE SesInv' OBVIOUS
<1>1. SesTypeInv /\ ActedInv /\ LoggedMeansDone BY DEF SesInv
<1>2. sesOps \in Nat /\ commands \subseteq ControlCommands BY <1>1 DEF SesTypeInv
<1>3. c \in ControlCommands BY <1>2
<1> DEFINE d == [c EXCEPT !.acted = TRUE]
<1>4. d \in ControlCommands /\ d.op = c.op /\ d.sid = c.sid /\ d.act = c.act
  BY <1>3 DEF ControlCommands
<1>5. /\ commands' = (commands \ {c}) \cup {d}
      /\ carriedOut' = carriedOut \cup {<<c.op, c.sid, c.act>>}
  BY DEF GatewayActs
<1>6. UNCHANGED <<sesNow, transcripts, claudeRows, scannedAt, stores, spawns, spawnCalls,
                  controlLog, sesOps>>
  BY DEF GatewayActs, scanVars, listVars, spawnVars
<1> HIDE DEF d
<1>7. ActedInv' BY <1>1, <1>4, <1>5 DEF ActedInv
<1>8. LoggedMeansDone' BY <1>1, <1>5, <1>6 DEF LoggedMeansDone
<1>9. commands' \subseteq ControlCommands BY <1>2, <1>4, <1>5
<1> QED BY <1>2, <1>6, <1>7, <1>8, <1>9, CommandFrame

LEMMA SesForgotten ==
  ASSUME NEW c \in commands, ControlForgotten(c)
  PROVE  SesInv => SesInv'
<1> SUFFICES ASSUME SesInv PROVE SesInv' OBVIOUS
<1>1. SesTypeInv /\ ActedInv /\ LoggedMeansDone BY DEF SesInv
<1>2. sesOps \in Nat /\ commands \subseteq ControlCommands BY <1>1 DEF SesTypeInv
<1>3. c \in ControlCommands BY <1>2
<1> DEFINE d == [c EXCEPT !.heard = FALSE]
<1>4. d \in ControlCommands /\ d.op = c.op /\ d.sid = c.sid /\ d.act = c.act /\ d.acted = c.acted
  BY <1>3 DEF ControlCommands
<1>5. commands' = (commands \ {c}) \cup {d} BY DEF ControlForgotten
<1>6. UNCHANGED <<sesNow, transcripts, claudeRows, scannedAt, stores, spawns, spawnCalls,
                  carriedOut, controlLog, sesOps>>
  BY DEF ControlForgotten, scanVars, listVars, spawnVars
<1> HIDE DEF d
<1>7. ActedInv' BY <1>1, <1>4, <1>5, <1>6 DEF ActedInv
<1>8. LoggedMeansDone' BY <1>1, <1>6 DEF LoggedMeansDone
<1>9. commands' \subseteq ControlCommands BY <1>2, <1>4, <1>5
<1> QED BY <1>2, <1>6, <1>7, <1>8, <1>9, CommandFrame

\* Only a command that acted exits with code 0, and only that code is logged.
LEMMA SesCloses ==
  ASSUME NEW c \in commands, NEW code \in {"zero", "nonzero", "killed"}, CommandCloses(c, code)
  PROVE  SesInv => SesInv'
<1> SUFFICES ASSUME SesInv PROVE SesInv' OBVIOUS
<1>1. SesTypeInv /\ ActedInv /\ LoggedMeansDone BY DEF SesInv
<1>2. sesOps \in Nat /\ commands \subseteq ControlCommands BY <1>1 DEF SesTypeInv
<1>3. commands' = commands \ {c} BY DEF CommandCloses
<1>4. UNCHANGED <<sesNow, transcripts, claudeRows, scannedAt, stores, spawns, spawnCalls,
                  carriedOut, sesOps>>
  BY DEF CommandCloses, scanVars, listVars, spawnVars
<1>5. ActedInv' BY <1>1, <1>3, <1>4 DEF ActedInv
<1>6. LoggedMeansDone'
  <2>1. Resolves(c, code) => c.acted BY DEF CommandCloses, Resolves
  <2>2. Resolves(c, code) => <<c.op, c.sid, c.act>> \in carriedOut BY <2>1, <1>1 DEF ActedInv
  <2>3. controlLog' = IF Resolves(c, code) THEN controlLog \cup {<<c.op, c.sid, c.act>>}
                      ELSE controlLog
    BY DEF CommandCloses
  <2> QED BY <2>2, <2>3, <1>1, <1>4 DEF LoggedMeansDone
<1> QED BY <1>2, <1>3, <1>4, <1>5, <1>6, CommandFrame
\* A step of a spawn leaves the scans, the stores and the commands alone.
LEMMA SpawningFrame ==
  ASSUME SesInv, spawns' \in Seq({"pending", "completed", "failed"}), spawnCalls' \subseteq SpawnCalls,
         sesOps' \in Nat,
         UNCHANGED <<sesNow, transcripts, claudeRows, scannedAt, stores, commands, carriedOut,
                     controlLog>>,
         SettledInv', PendingSpawnIsUnderWay'
  PROVE  SesInv'
<1>1. SesTypeInv'
  <2>1. NoTranscript' = NoTranscript BY DEF NoTranscript
  <2> QED BY <2>1 DEF SesInv, SesTypeInv
<1> QED BY <1>1, ScanFrame, ControlFrame DEF SesInv

LEMMA SesSpawn == SesInv /\ HandleSpawn => SesInv'
<1> SUFFICES ASSUME SesInv, HandleSpawn PROVE SesInv' OBVIOUS
<1>1. SesTypeInv /\ SettledInv /\ PendingSpawnIsUnderWay BY DEF SesInv
<1>2. /\ spawns \in Seq({"pending", "completed", "failed"}) /\ spawnCalls \subseteq SpawnCalls
      /\ sesOps \in Nat
  BY <1>1 DEF SesTypeInv
<1> DEFINE m == Len(spawns)
           c == [req |-> m + 1, at |-> "server"]
<1>3. spawns' = Append(spawns, "pending") /\ spawnCalls' = spawnCalls \cup {c} BY DEF HandleSpawn
<1>4. UNCHANGED <<sesNow, transcripts, claudeRows, scannedAt, stores, commands, carriedOut,
                  controlLog>> /\ sesOps' \in Nat
  BY <1>2 DEF HandleSpawn, SpendOp, scanVars, listVars, controlVars
<1>5. c \in SpawnCalls /\ c.req = m + 1 /\ c.at # "history" BY <1>2 DEF SpawnCalls
<1>6. /\ spawns' \in Seq({"pending", "completed", "failed"}) /\ DOMAIN spawns = 1..m
      /\ DOMAIN spawns' = 1..(m + 1) /\ m \in Nat
      /\ \A r \in 1..m : spawns'[r] = spawns[r]
  BY <1>2, <1>3
<1> HIDE DEF m, c
<1>7. SettledInv' BY <1>1, <1>3, <1>5, <1>6 DEF SettledInv
<1>8. PendingSpawnIsUnderWay'
  <2>1. ASSUME NEW r \in 1..(m + 1), spawns'[r] = "pending"
        PROVE  \E d \in spawnCalls' : d.req = r
    <3>1. r \in 1..m \/ r = m + 1 BY <1>6
    <3> QED BY <3>1, <2>1, <1>1, <1>3, <1>5, <1>6 DEF PendingSpawnIsUnderWay
  <2> QED BY <2>1, <1>6 DEF PendingSpawnIsUnderWay
<1>9. spawnCalls' \subseteq SpawnCalls BY <1>2, <1>3, <1>5
<1> QED BY <1>4, <1>6, <1>7, <1>8, <1>9, SpawningFrame

\* Settling a request leaves the other requests as they were.
LEMMA UpdateFacts ==
  ASSUME SesTypeInv, NEW req \in DOMAIN spawns, NEW status \in {"completed", "failed"}
  PROVE  LET new == UpdateSpawnRequest(req, status)
         IN  /\ new \in Seq({"pending", "completed", "failed"}) /\ DOMAIN new = DOMAIN spawns
             /\ new[req] = status /\ \A r \in DOMAIN spawns : r # req => new[r] = spawns[r]
<1> DEFINE new == UpdateSpawnRequest(req, status)
<1>1. spawns \in Seq({"pending", "completed", "failed"}) BY DEF SesTypeInv
<1>2. new = [spawns EXCEPT ![req] = status] BY DEF UpdateSpawnRequest
<1> HIDE DEF new
<1> QED BY <1>1, <1>2 DEF new

LEMMA SesSpawnServed ==
  ASSUME NEW c \in spawnCalls, NEW ok \in BOOLEAN, SpawnServed(c, ok)
  PROVE  SesInv => SesInv'
<1> SUFFICES ASSUME SesInv PROVE SesInv' OBVIOUS
<1>1. SesTypeInv /\ SettledInv /\ PendingSpawnIsUnderWay BY DEF SesInv
<1>2. spawnCalls \subseteq SpawnCalls /\ c \in SpawnCalls /\ sesOps \in Nat
  BY <1>1 DEF SesTypeInv
<1> DEFINE d == [c EXCEPT !.at = IF ok THEN "ok" ELSE "failed"]
<1>3. d \in SpawnCalls /\ d.req = c.req /\ d.at # "history" BY <1>2 DEF SpawnCalls
<1>4. spawnCalls' = (spawnCalls \ {c}) \cup {d} BY DEF SpawnServed
<1>5. UNCHANGED <<sesNow, transcripts, claudeRows, scannedAt, stores, commands, carriedOut,
                  controlLog, spawns, sesOps>>
  BY DEF SpawnServed, scanVars, listVars, controlVars
<1> HIDE DEF d
<1>6. SettledInv' BY <1>1, <1>3, <1>4, <1>5 DEF SettledInv
<1>7. PendingSpawnIsUnderWay' BY <1>1, <1>3, <1>4, <1>5 DEF PendingSpawnIsUnderWay
<1>8. spawnCalls' \subseteq SpawnCalls BY <1>2, <1>3, <1>4
<1>9. spawns' \in Seq({"pending", "completed", "failed"}) BY <1>1, <1>5 DEF SesTypeInv
<1> QED BY <1>2, <1>5, <1>6, <1>7, <1>8, <1>9, SpawningFrame

\* A call that ends settles its request, if it is not settled already.
LEMMA SesSpawnEnds ==
  ASSUME NEW c \in spawnCalls, SpawnFails(c) \/ \E ok \in BOOLEAN : HistoryFetched(c, ok)
  PROVE  SesInv => SesInv'
<1> SUFFICES ASSUME SesInv PROVE SesInv' OBVIOUS
<1>1. SesTypeInv /\ SettledInv /\ PendingSpawnIsUnderWay BY DEF SesInv
<1>2. spawnCalls \subseteq SpawnCalls /\ sesOps \in Nat /\ c.req \in DOMAIN spawns
      /\ spawns \in Seq({"pending", "completed", "failed"})
  BY <1>1 DEF SesTypeInv, SettledInv
<1>3. spawnCalls' = spawnCalls \ {c} BY DEF SpawnFails, HistoryFetched
<1>4. UNCHANGED <<sesNow, transcripts, claudeRows, scannedAt, stores, commands, carriedOut,
                  controlLog, sesOps>>
  BY DEF SpawnFails, HistoryFetched, scanVars, listVars, controlVars
<1>5. /\ spawns' \in Seq({"pending", "completed", "failed"}) /\ DOMAIN spawns' = DOMAIN spawns
      /\ spawns'[c.req] # "pending"
      /\ \A r \in DOMAIN spawns : r # c.req => spawns'[r] = spawns[r]
  <2>1. CASE spawns' = UpdateSpawnRequest(c.req, "failed") BY <2>1, <1>1, <1>2, UpdateFacts
  <2>2. CASE c.at = "history" /\ spawns' = spawns BY <2>2, <1>1, <1>2 DEF SettledInv
  <2> QED BY <2>1, <2>2 DEF SpawnFails, HistoryFetched
<1>6. SettledInv'
  <2>1. ASSUME NEW d \in spawnCalls', d.at = "history" PROVE spawns'[d.req] # "pending"
    <3>1. d \in spawnCalls /\ d.req \in DOMAIN spawns /\ spawns[d.req] # "pending"
      BY <2>1, <1>1, <1>3 DEF SettledInv
    <3> QED BY <3>1, <1>5
  <2> QED BY <2>1, <1>1, <1>3, <1>5 DEF SettledInv
<1>7. PendingSpawnIsUnderWay'
  <2>1. ASSUME NEW r \in DOMAIN spawns, spawns'[r] = "pending"
        PROVE  \E d \in spawnCalls' : d.req = r
    <3>1. r # c.req /\ spawns[r] = "pending" BY <2>1, <1>5
    <3>2. PICK d \in spawnCalls : d.req = r BY <3>1, <1>1 DEF PendingSpawnIsUnderWay
    <3> QED BY <3>1, <3>2, <1>3
  <2> QED BY <2>1, <1>5 DEF PendingSpawnIsUnderWay
<1>8. spawnCalls' \subseteq SpawnCalls BY <1>2, <1>3
<1> QED BY <1>2, <1>4, <1>5, <1>6, <1>7, <1>8, SpawningFrame

LEMMA SesSpawnCompletes ==
  ASSUME NEW c \in spawnCalls, SpawnCompletes(c)
  PROVE  SesInv => SesInv'
<1> SUFFICES ASSUME SesInv PROVE SesInv' OBVIOUS
<1>1. SesTypeInv /\ SettledInv /\ PendingSpawnIsUnderWay BY DEF SesInv
<1>2. /\ spawnCalls \subseteq SpawnCalls /\ sesOps \in Nat /\ c.req \in DOMAIN spawns
      /\ c \in SpawnCalls
  BY <1>1 DEF SesTypeInv, SettledInv
<1> DEFINE d == [c EXCEPT !.at = "history"]
<1>3. d \in SpawnCalls /\ d.req = c.req BY <1>2 DEF SpawnCalls
<1>4. spawnCalls' = (spawnCalls \ {c}) \cup {d} /\ spawns' = UpdateSpawnRequest(c.req, "completed")
  BY DEF SpawnCompletes
<1>5. UNCHANGED <<sesNow, transcripts, claudeRows, scannedAt, stores, commands, carriedOut,
                  controlLog, sesOps>>
  BY DEF SpawnCompletes, scanVars, listVars, controlVars
<1> HIDE DEF d
<1>6. /\ spawns' \in Seq({"pending", "completed", "failed"}) /\ DOMAIN spawns' = DOMAIN spawns
      /\ spawns'[c.req] # "pending"
      /\ \A r \in DOMAIN spawns : r # c.req => spawns'[r] = spawns[r]
  BY <1>1, <1>2, <1>4, UpdateFacts
<1>7. SettledInv'
  <2>1. ASSUME NEW e \in spawnCalls'
        PROVE  e.req \in DOMAIN spawns' /\ (e.at = "history" => spawns'[e.req] # "pending")
    <3>1. CASE e = d BY <3>1, <1>2, <1>3, <1>6
    <3>2. CASE e \in spawnCalls BY <3>2, <1>1, <1>6 DEF SettledInv
    <3> QED BY <3>1, <3>2, <2>1, <1>4
  <2> QED BY <2>1 DEF SettledInv
<1>8. PendingSpawnIsUnderWay'
  <2>1. ASSUME NEW r \in DOMAIN spawns, spawns'[r] = "pending"
        PROVE  \E e \in spawnCalls' : e.req = r
    <3>1. r # c.req /\ spawns[r] = "pending" BY <2>1, <1>6
    <3>2. PICK e \in spawnCalls : e.req = r BY <3>1, <1>1 DEF PendingSpawnIsUnderWay
    <3> QED BY <3>1, <3>2, <1>4
  <2> QED BY <2>1, <1>6 DEF PendingSpawnIsUnderWay
<1>9. spawnCalls' \subseteq SpawnCalls BY <1>2, <1>3, <1>4
<1> QED BY <1>2, <1>5, <1>6, <1>7, <1>8, <1>9, SpawningFrame

LEMMA SesReopen == SesInv /\ ReopenSpawnPanel => SesInv'
<1> SUFFICES ASSUME SesInv, ReopenSpawnPanel PROVE SesInv' OBVIOUS
<1>1. UNCHANGED <<sesNow, transcripts, claudeRows, scannedAt, stores, commands, carriedOut,
                  controlLog, spawns, spawnCalls>> /\ sesOps' \in Nat
  BY DEF ReopenSpawnPanel, SpendOp, scanVars, listVars, controlVars, SesInv, SesTypeInv
<1>2. SettledInv' /\ PendingSpawnIsUnderWay' BY <1>1, SpawnFrame DEF SesInv
<1>3. spawns' \in Seq({"pending", "completed", "failed"}) /\ spawnCalls' \subseteq SpawnCalls
  BY <1>1 DEF SesInv, SesTypeInv
<1> QED BY <1>1, <1>2, <1>3, SpawningFrame

LEMMA SesStep == SesInv /\ [SessionsNext]_sesVars => SesInv'
<1> SUFFICES ASSUME SesInv, [SessionsNext]_sesVars PROVE SesInv' OBVIOUS
<1>1. CASE SessionsNext
  BY <1>1, SesTick, SesTranscript, SesScan, SesStores, SesPoll, SesClick, SesActs, SesForgotten,
     SesCloses, SesSpawn, SesSpawnServed, SesSpawnEnds, SesSpawnCompletes, SesReopen, Zenon
  DEF SessionsNext, StoreSids
<1>2. CASE UNCHANGED sesVars
  <2>1. UNCHANGED <<sesNow, transcripts, claudeRows, scannedAt, stores, commands, carriedOut,
                    controlLog, spawns, spawnCalls, sesOps>>
    BY <1>2 DEF sesVars, scanVars, listVars, controlVars, spawnVars
  <2>2. SettledInv' /\ PendingSpawnIsUnderWay' BY <2>1, SpawnFrame DEF SesInv
  <2>3. /\ spawns' \in Seq({"pending", "completed", "failed"}) /\ spawnCalls' \subseteq SpawnCalls
        /\ sesOps' \in Nat
    BY <2>1 DEF SesInv, SesTypeInv
  <2> QED BY <2>1, <2>2, <2>3, SpawningFrame
<1> QED BY <1>1, <1>2

\* What the pages say of sessions, commands and spawn requests is what happened
\* to them: the scan's transaction clears before it sets (claude-sessions.ts), the
\* list shows each session once and newest (api/sessions/route.ts), only a command
\* that succeeded is logged (sessions/[id]/control), and a pending request has a
\* call that will settle it (agent-spawn-panel.tsx).
THEOREM SessionsCorrect == SessionsSpec => []SessionsSafe
<1>1. SesInv => SessionsSafe BY SesListed DEF SesInv, SessionsSafe
<1> QED BY SesInitInv, SesStep, <1>1, PTL DEF SessionsSpec

---------------------------------------------------------------------------
(***************************************************************************)
(* Usage: the inductive invariant.                                         *)
(***************************************************************************)
UsageModels == {"claude-sonnet-4", "eu-claude-sonnet-4", "qwen-coder", "mystery", "unknown", "none"}
ChatTypes == {"cli", "direct", "group"}
UsageSessions == {"apex", "gem", "none"} \X ChatTypes
UsageRows == [model : UsageModels, session : UsageSessions, tokens : Nat, at : Nat]
UsageRecords ==
  [model : UsageModels, session : UsageSessions, agent : {"apex", "gem", "unknown"},
   tokens : Nat, cost : Nat, at : Nat, operation : ChatTypes \cup {"heartbeat", "chat_completion"}]

UsageTypeInv ==
  /\ dbUsage \in Seq(UsageRows) /\ gatewayUsage \in Seq(UsageRows)
  /\ fileUsage \in Seq(UsageRecords) /\ postedUsage \in Seq(UsageRecords)
  /\ usageClock \in Nat

PostedInv ==
  /\ \A i \in DOMAIN postedUsage : postedUsage[i].at <= usageClock
  /\ \A i, j \in DOMAIN postedUsage : i <= j => postedUsage[i].at >= postedUsage[j].at

KeptInv ==
  /\ Len(fileUsage) <= Len(postedUsage) /\ Len(fileUsage) <= UsageLimit
  /\ \A i \in 1..Len(fileUsage) : fileUsage[i] = postedUsage[i]
  /\ Len(fileUsage) < UsageLimit =>
       \A i \in (Len(fileUsage) + 1)..Len(postedUsage) : postedUsage[i].at + UsageRetention < usageClock

UsageInv == UsageTypeInv /\ PostedInv /\ KeptInv

---------------------------------------------------------------------------
(* Adding up a field of a list.                                            *)
Adding(rows, field, f) ==
  f = [i \in 0..Len(rows) |-> IF i = 0 THEN 0 ELSE f[i - 1] + rows[i][field]]

Adds(rows, field, n, v, f) ==
  /\ n \in Nat /\ n = Len(rows) /\ v \in [1..n -> Nat]
  /\ \A i \in 1..n : v[i] = rows[i][field]
  /\ SumsUp(f, v, n)

LEMMA TotalFacts ==
  ASSUME NEW rows, NEW field, NEW n, NEW v, NEW f, Adds(rows, field, n, v, f)
  PROVE  Total(rows, field) = f[n]
<1> USE DEF Adds
<1> DEFINE t == CHOOSE g : Adding(rows, field, g)
<1>1. Total(rows, field) = t[n] BY DEF Total, Adding
<1> HIDE DEF t
<1>2. f \in [0..n -> Nat] /\ f[0] = 0 /\ \A i \in 1..n : f[i] = f[i - 1] + v[i] BY DEF SumsUp
<1>3. Adding(rows, field, f)
  <2>1. \A i \in 0..n : f[i] = IF i = 0 THEN 0 ELSE f[i - 1] + rows[i][field] BY <1>2
  <2>2. f = [i \in 0..n |-> f[i]] BY <1>2
  <2>3. f = [i \in 0..n |-> IF i = 0 THEN 0 ELSE f[i - 1] + rows[i][field]] BY <2>1, <2>2
  <2> QED BY <2>3 DEF Adding
<1>4. Adding(rows, field, t) BY <1>3 DEF t
<1> DEFINE P == {i \in 0..n : t[i] = f[i]}
<1>5. \A i \in 0..n : t[i] = IF i = 0 THEN 0 ELSE t[i - 1] + rows[i][field]
  <2>1. t = [i \in 0..n |-> IF i = 0 THEN 0 ELSE t[i - 1] + rows[i][field]] BY <1>4 DEF Adding
  <2> QED BY <2>1
<1>6. 0 \in P BY <1>2, <1>5
<1>7. ASSUME NEW i \in 1..n, i - 1 \in P PROVE i \in P BY <1>2, <1>5, <1>7
<1> HIDE DEF P
<1>8. \A i \in 0..n : i \in P BY <1>6, <1>7, UpTo
<1>9. n \in P BY <1>8
<1> QED BY <1>1, <1>9 DEF P

\* An element behind the others adds its field.
IsBehind(rows, more, field, n, m) ==
  /\ n \in Nat /\ m = n + 1 /\ n = Len(rows) /\ m = Len(more)
  /\ \A i \in 1..n : more[i] = rows[i]
  /\ \A i \in 1..m : more[i][field] \in Nat

LEMMA TotalAppend ==
  ASSUME NEW rows, NEW more, NEW field, NEW n, NEW m, IsBehind(rows, more, field, n, m)
  PROVE  Total(more, field) = Total(rows, field) + more[m][field]
<1> USE DEF IsBehind
<1> DEFINE v == [i \in 1..m |-> more[i][field]]
           u == [i \in 1..n |-> rows[i][field]]
<1>1. v \in [1..m -> Nat] /\ m \in Nat OBVIOUS
<1>2. u \in [1..n -> Nat] OBVIOUS
<1>3. \A i \in 1..m : v[i] = more[i][field] OBVIOUS
<1>4. \A i \in 1..n : u[i] = rows[i][field] /\ u[i] = v[i] OBVIOUS
<1>5. v[m] = more[m][field] OBVIOUS
<1> HIDE DEF v, u
<1>6. PICK f : SumsUp(f, v, m) BY <1>1, SumsExist
<1>7. f \in [0..m -> Nat] /\ f[0] = 0 /\ \A i \in 1..m : f[i] = f[i - 1] + v[i]
  BY <1>6 DEF SumsUp
<1> DEFINE h == [i \in 0..n |-> f[i]]
<1>8. SumsUp(h, u, n)
  <2>1. h \in [0..n -> Nat] /\ h[0] = 0 BY <1>7
  <2>2. \A i \in 1..n : h[i] = h[i - 1] + u[i] BY <1>7, <1>4
  <2> QED BY <2>1, <2>2 DEF SumsUp
<1>9. h[n] = f[n] /\ f[m] = f[n] + v[m] BY <1>7
<1> HIDE DEF h
<1>10. Total(more, field) = f[m] BY <1>1, <1>3, <1>6, TotalFacts DEF Adds
<1>11. Total(rows, field) = h[n] BY <1>2, <1>4, <1>8, TotalFacts DEF Adds
<1> QED BY <1>5, <1>9, <1>10, <1>11

\* What an element adds to a field of the statistics, and the field.
Weight(r, field) == IF field = "requests" THEN 1 ELSE r[field]
Measure(rows, field) == IF field = "requests" THEN Len(rows) ELSE Total(rows, field)

LEMMA MeasureEmpty == \A field : Measure(<<>>, field) = 0
<1> SUFFICES ASSUME NEW field PROVE Measure(<<>>, field) = 0 OBVIOUS
<1>1. Len(<<>>) = 0 OBVIOUS
<1>2. Total(<<>>, field) = 0
  <2> DEFINE v == [i \in 1..0 |-> 0]
  <2>1. v \in [1..0 -> Nat] OBVIOUS
  <2>2. PICK f : SumsUp(f, v, 0) BY <2>1, SumsExist
  <2>3. Total(<<>>, field) = f[0]
    <3> DEFINE none == <<>>
               n == 0
    <3>1. \A i \in 1..n : v[i] = none[i][field] OBVIOUS
    <3>2. n \in Nat /\ n = Len(none) OBVIOUS
    <3>3. v \in [1..n -> Nat] /\ SumsUp(f, v, n) BY <2>1, <2>2
    <3> HIDE DEF v, none, n
    <3>4. Total(none, field) = f[n] BY <3>1, <3>2, <3>3, TotalFacts DEF Adds
    <3> QED BY <3>4 DEF none, n
  <2> QED BY <2>2, <2>3 DEF SumsUp
<1> QED BY <1>1, <1>2 DEF Measure

\* An element behind the others adds its weight.
Weighed(S, field) == \A x \in S : Weight(x, field) \in Nat

LEMMA MeasureAppend ==
  ASSUME NEW S, NEW rows \in Seq(S), NEW r \in S, NEW field, Weighed(S, field)
  PROVE  Measure(Append(rows, r), field) = Measure(rows, field) + Weight(r, field)
<1> DEFINE n == Len(rows)
           m == n + 1
           more == Append(rows, r)
<1>1. /\ n \in Nat /\ m = Len(more) /\ more[m] = r
      /\ \A i \in 1..n : more[i] = rows[i] /\ rows[i] \in S
  BY ElementOfSeq
<1>2. CASE field = "requests" BY <1>1, <1>2 DEF Measure, Weight
<1>3. CASE field # "requests"
  <2>1. \A x \in S : x[field] \in Nat BY <1>3 DEF Weighed, Weight
  <2>2. \A i \in 1..m : i \in 1..n \/ i = m BY <1>1
  <2>3. \A i \in 1..m : more[i] \in S BY <1>1, <2>2
  <2>4. \A i \in 1..m : more[i][field] \in Nat BY <2>1, <2>3
  <2>5. n = Len(rows) /\ m = n + 1 OBVIOUS
  <2> HIDE DEF more, n, m
  <2>6. IsBehind(rows, more, field, n, m) BY <1>1, <2>4, <2>5 DEF IsBehind
  <2>7. Total(more, field) = Total(rows, field) + more[m][field] BY <2>6, TotalAppend
  <2> QED BY <1>1, <1>3, <2>7 DEF Measure, Weight, more
<1> QED BY <1>2, <1>3
\* What the elements in T of a list weigh, one by one.
Mask(s, T, field) == [i \in 1..Len(s) |-> IF s[i] \in T THEN Weight(s[i], field) ELSE 0]

LEMMA MaskType ==
  ASSUME NEW S, NEW s \in Seq(S), NEW T, NEW field, Weighed(S, field)
  PROVE  Mask(s, T, field) \in [1..Len(s) -> Nat]
<1>1. \A i \in 1..Len(s) : s[i] \in S BY ElementOfSeq
<1> QED BY <1>1 DEF Mask, Weighed

\* A filtered list weighs what its elements weigh in the list.
LEMMA FilteredMeasure ==
  ASSUME NEW S, NEW s \in Seq(S), NEW T, NEW field, Weighed(S, field),
         NEW f, SumsUp(f, Mask(s, T, field), Len(s))
  PROVE  Measure(Filtered(s, T), field) = f[Len(s)]
<1> DEFINE n == Len(s)
           w == Mask(s, T, field)
<1>1. n \in Nat /\ \A i \in 1..n : s[i] \in S BY ElementOfSeq
<1>2. PICK r : Leaves(s, T, r) /\ Filtered(s, T) = r[n] BY <1>1, FilteredSteps
<1>3. r[0] = <<>> /\ \A i \in 1..n : r[i] = IF s[i] \in T THEN Append(r[i - 1], s[i]) ELSE r[i - 1]
  BY <1>2 DEF Leaves
<1>4. \A i \in 1..n : w[i] = IF s[i] \in T THEN Weight(s[i], field) ELSE 0 BY DEF Mask
<1>5. f \in [0..n -> Nat] /\ f[0] = 0 /\ \A i \in 1..n : f[i] = f[i - 1] + w[i] BY DEF SumsUp
<1> HIDE DEF n, w
<1> DEFINE P == {i \in 0..n : r[i] \in Seq(S) /\ Measure(r[i], field) = f[i]}
<1>6. 0 \in P
  <2>1. <<>> \in Seq(S) OBVIOUS
  <2>2. 0 \in 0..n BY <1>1
  <2>3. Measure(<<>>, field) = 0 BY MeasureEmpty
  <2> QED BY <2>1, <2>2, <2>3, <1>3, <1>5
<1>7. ASSUME NEW i \in 1..n, i - 1 \in P PROVE i \in P
  <2>1. r[i - 1] \in Seq(S) /\ Measure(r[i - 1], field) = f[i - 1] BY <1>7
  <2>2. i \in 0..n /\ i - 1 \in 0..n /\ s[i] \in S BY <1>1
  <2>3. f[i] = f[i - 1] + w[i] /\ f[i - 1] \in Nat BY <1>5, <2>2
  <2>4. CASE s[i] \in T
    <3>1. r[i] = Append(r[i - 1], s[i]) /\ w[i] = Weight(s[i], field) BY <2>4, <1>3, <1>4
    <3>2. Measure(r[i], field) = Measure(r[i - 1], field) + Weight(s[i], field)
      BY <3>1, <2>1, <2>2, MeasureAppend
    <3>3. r[i] \in Seq(S) BY <3>1, <2>1, <2>2, AppendProperties
    <3> QED BY <3>1, <3>2, <3>3, <2>1, <2>2, <2>3
  <2>5. CASE s[i] \notin T
    <3>1. r[i] = r[i - 1] /\ w[i] = 0 BY <2>5, <1>3, <1>4
    <3> QED BY <3>1, <2>1, <2>2, <2>3
  <2> QED BY <2>4, <2>5
<1> HIDE DEF P
<1>8. \A i \in 0..n : i \in P BY <1>1, <1>6, <1>7, UpTo
<1>9. n \in P BY <1>1, <1>8
<1>10. Measure(r[n], field) = f[n] BY <1>9 DEF P
<1> QED BY <1>2, <1>10 DEF n

\* Two separate parts of a list weigh together what each of them weighs.
LEMMA MeasureUnion ==
  ASSUME NEW S, NEW s \in Seq(S), NEW A, NEW B, A \cap B = {}, NEW field, Weighed(S, field)
  PROVE  /\ Measure(Filtered(s, A \cup B), field)
              = Measure(Filtered(s, A), field) + Measure(Filtered(s, B), field)
         /\ Measure(Filtered(s, B), field) \in Nat
<1> DEFINE n == Len(s)
           U == A \cup B
           u == Mask(s, A, field)
           v == Mask(s, B, field)
           w == Mask(s, U, field)
<1>1. n \in Nat /\ \A i \in 1..n : s[i] \in S BY ElementOfSeq
<1>2. u \in [1..n -> Nat] /\ v \in [1..n -> Nat] /\ w \in [1..n -> Nat] BY MaskType
<1>3. \A i \in 1..n : w[i] = u[i] + v[i]
  <2>1. \A i \in 1..n : Weight(s[i], field) \in Nat BY <1>1 DEF Weighed
  <2>2. \A i \in 1..n : /\ u[i] = IF s[i] \in A THEN Weight(s[i], field) ELSE 0
                        /\ v[i] = IF s[i] \in B THEN Weight(s[i], field) ELSE 0
                        /\ w[i] = IF s[i] \in U THEN Weight(s[i], field) ELSE 0
    BY DEF Mask
  <2> HIDE DEF n, u, v, w
  <2> QED BY <2>1, <2>2
<1> HIDE DEF u, v, w
<1>4. PICK f : SumsUp(f, u, n) BY <1>1, <1>2, SumsExist
<1>5. PICK g : SumsUp(g, v, n) BY <1>1, <1>2, SumsExist
<1>6. PICK h : SumsUp(h, w, n) BY <1>1, <1>2, SumsExist
<1>7. h[n] = f[n] + g[n]
  <2> HIDE DEF n
  <2>1. SumsUpWith(f, g, h, u, v, w, n) BY <1>1, <1>2, <1>3, <1>4, <1>5, <1>6 DEF SumsUpWith
  <2> QED BY <2>1, SumsAdd
<1>8. Measure(Filtered(s, A), field) = f[n] BY <1>4, FilteredMeasure DEF u
<1>9. Measure(Filtered(s, B), field) = g[n] BY <1>5, FilteredMeasure DEF v
<1>10. Measure(Filtered(s, U), field) = h[n] BY <1>6, FilteredMeasure DEF w
<1>11. g[n] \in Nat BY <1>1, <1>5 DEF SumsUp
<1> QED BY <1>7, <1>8, <1>9, <1>10, <1>11
---------------------------------------------------------------------------
(* Groups of a list, and what they add up to.                              *)

\* A finite set as a list has each element once.
LEMMA SetToSeqFacts ==
  ASSUME NEW D, IsFiniteSet(D)
  PROVE  /\ Cardinality(D) \in Nat /\ SetToSeq(D) \in [1..Cardinality(D) -> D]
         /\ \A j, k \in 1..Cardinality(D) : SetToSeq(D)[j] = SetToSeq(D)[k] => j = k
         /\ \A x \in D : \E k \in 1..Cardinality(D) : SetToSeq(D)[k] = x
<1> DEFINE n == Cardinality(D)
           W == 1..n
           e == SetToSeq(D)
<1>1. n \in Nat BY FS_CardinalityType
<1>2. IsFiniteSet(W) /\ Cardinality(W) = n BY <1>1, FS_Interval
<1>3. PICK f : f \in Bijection(W, D)
  <2> HIDE DEF W
  <2> QED BY <1>2, FS_SameCardinalityBij DEF ExistsBijection
<1>4. f \in [W -> D] /\ IsInjective(f) BY <1>3 DEF Bijection, Injection
<1>5. e = CHOOSE g \in [W -> D] : IsInjective(g) BY DEF SetToSeq
<1>6. e \in [W -> D] /\ IsInjective(e) BY <1>4, <1>5
<1> HIDE DEF e, W
<1>7. e \in Injection(W, D) BY <1>6 DEF Injection
<1>8. e \in Surjection(W, D) BY <1>2, <1>7, FS_Injection
<1> QED BY <1>1, <1>6, <1>8 DEF IsInjective, Surjection, W, e

\* The groups of a list are finitely many.
LEMMA GroupsFinite ==
  ASSUME NEW S, NEW s \in Seq(S), NEW group
  PROVE  IsFiniteSet(GroupsOf(s, group))
<1> DEFINE W == DOMAIN s
           f == [i \in W |-> s[i][group]]
           D == GroupsOf(s, group)
<1>1. IsFiniteSet(W)
  <2>1. W = 1..Len(s) /\ Len(s) \in Nat OBVIOUS
  <2> QED BY <2>1, FS_Interval
<1>2. f \in Surjection(W, D) BY DEF Surjection, GroupsOf, ToSet
<1> HIDE DEF W, f, D
<1>3. IsFiniteSet(D) BY <1>1, <1>2, FS_Surjection
<1> QED BY <1>3 DEF D

\* What the groups weigh adds up to what the list weighs.
LEMMA GroupsAddUp ==
  ASSUME NEW S, NEW s \in Seq(S), NEW group,
         NEW field \in {"tokens", "cost", "requests"}, Weighed(S, field)
  PROVE  SumOf(GroupStats(s, group))[field] = Measure(s, field)
<1> DEFINE groups == GroupStats(s, group)
           D == GroupsOf(s, group)
           e == SetToSeq(D)
           m == Cardinality(D)
           rows == [k \in DOMAIN e |-> groups[e[k]]]
           Of(k) == {r \in ToSet(s) : r[group] = e[k]}
           UpToGroup(k) == {r \in ToSet(s) : \E j \in 1..k : r[group] = e[j]}
           v == [k \in 1..m |-> rows[k][field]]
<1>1. DOMAIN groups = D BY DEF GroupStats
<1>2. IsFiniteSet(D) BY GroupsFinite
<1>3. SumOf(groups)[field] = Total(rows, field) BY <1>1 DEF SumOf
<1> HIDE DEF D
<1>4. /\ m \in Nat /\ e \in [1..m -> D]
      /\ \A j, k \in 1..m : e[j] = e[k] => j = k
      /\ \A x \in D : \E k \in 1..m : e[k] = x
  BY <1>2, SetToSeqFacts
<1> HIDE DEF e, m
<1>5. Len(rows) = m
  <2>1. DOMAIN rows = 1..m BY <1>4
  <2> HIDE DEF rows
  <2> QED BY <2>1, <1>4
<1>6. ASSUME NEW k \in 1..m
      PROVE  rows[k][field] = Measure(Filtered(s, Of(k)), field)
  <2>1. e[k] \in D BY <1>4
  <2>2. rows[k] = groups[e[k]] BY <1>4
  <2>3. groups[e[k]] = CalculateStats(Filtered(s, Of(k))) BY <2>1 DEF GroupStats, D
  <2> HIDE DEF rows, groups, Of
  <2> QED BY <2>2, <2>3 DEF CalculateStats, Measure
<1>7. ASSUME NEW k \in 1..m
      PROVE  /\ Measure(Filtered(s, UpToGroup(k)), field)
                  = Measure(Filtered(s, UpToGroup(k - 1)), field) + Measure(Filtered(s, Of(k)), field)
             /\ Measure(Filtered(s, Of(k)), field) \in Nat
  <2>1. UpToGroup(k) = UpToGroup(k - 1) \cup Of(k)
    <3>1. \A j \in 1..k : j = k \/ j \in 1..(k - 1) BY <1>4
    <3>2. k \in 1..k /\ \A j \in 1..(k - 1) : j \in 1..k BY <1>4
    <3> QED BY <3>1, <3>2
  <2>2. UpToGroup(k - 1) \cap Of(k) = {}
    <3>1. \A j \in 1..(k - 1) : j \in 1..m /\ j # k BY <1>4
    <3>2. \A j \in 1..(k - 1) : e[j] # e[k] BY <3>1, <1>4
    <3> QED BY <3>2
  <2> DEFINE A == UpToGroup(k - 1)
             B == Of(k)
  <2>3. A \cap B = {} BY <2>2
  <2> HIDE DEF A, B
  <2>4. /\ Measure(Filtered(s, A \cup B), field)
              = Measure(Filtered(s, A), field) + Measure(Filtered(s, B), field)
        /\ Measure(Filtered(s, B), field) \in Nat
    BY <2>3, MeasureUnion
  <2> HIDE DEF UpToGroup, Of
  <2> QED BY <2>1, <2>4 DEF A, B
<1>8. v \in [1..m -> Nat] /\ \A k \in 1..m : v[k] = rows[k][field]
  <2>1. \A k \in 1..m : rows[k][field] \in Nat BY <1>6, <1>7
  <2> HIDE DEF rows
  <2> QED BY <2>1
<1> HIDE DEF v, rows
<1>9. PICK f : SumsUp(f, v, m) BY <1>4, <1>8, SumsExist
<1>10. Total(rows, field) = f[m]
  <2>1. m = Len(rows) BY <1>5
  <2>2. Adds(rows, field, m, v, f) BY <2>1, <1>4, <1>8, <1>9 DEF Adds
  <2> QED BY <2>2, TotalFacts
<1>11. f[0] = 0 /\ \A k \in 1..m : f[k] = f[k - 1] + v[k] BY <1>9 DEF SumsUp
<1> DEFINE P == {k \in 0..m : Measure(Filtered(s, UpToGroup(k)), field) = f[k]}
<1>12. 0 \in P
  <2>1. UpToGroup(0) = {} OBVIOUS
  <2>2. Filtered(s, {}) = <<>>
    <3> DEFINE r == Filtered(s, {})
    <3>1. r \in Seq(S) /\ \A k \in DOMAIN r : r[k] \in {} BY FilteredList
    <3> HIDE DEF r
    <3>2. Len(r) = 0
      <4>1. Len(r) \in Nat /\ (Len(r) # 0 => 1 \in DOMAIN r) BY <3>1
      <4> QED BY <3>1, <4>1
    <3> QED BY <3>1, <3>2, EmptySeq DEF r
  <2>3. 0 \in 0..m BY <1>4
  <2>4. Measure(Filtered(s, {}), field) = 0 BY <2>2, MeasureEmpty
  <2> QED BY <2>1, <2>3, <2>4, <1>11
<1>13. ASSUME NEW k \in 1..m, k - 1 \in P PROVE k \in P
  <2>1. Measure(Filtered(s, UpToGroup(k - 1)), field) = f[k - 1] BY <1>13
  <2>2. v[k] = Measure(Filtered(s, Of(k)), field) BY <1>6, <1>8
  <2>3. f[k] = f[k - 1] + v[k] BY <1>11
  <2>4. Measure(Filtered(s, UpToGroup(k)), field) = f[k]
    <3> HIDE DEF UpToGroup, Of
    <3> QED BY <2>1, <2>2, <2>3, <1>7
  <2> QED BY <2>4, <1>4
<1> HIDE DEF P
<1>14. \A k \in 0..m : k \in P BY <1>4, <1>12, <1>13, UpTo
<1>15. Measure(Filtered(s, UpToGroup(m)), field) = f[m] BY <1>4, <1>14 DEF P
<1>16. Filtered(s, UpToGroup(m)) = s
  <2>1. ASSUME NEW i \in 1..Len(s) PROVE s[i] \in UpToGroup(m)
    <3>1. s[i] \in ToSet(s) BY DEF ToSet
    <3>2. s[i][group] \in D BY <3>1 DEF D, GroupsOf
    <3> QED BY <3>1, <3>2, <1>4
  <2> HIDE DEF UpToGroup
  <2> QED BY <2>1, FilteredAll
<1> QED BY <1>3, <1>10, <1>15, <1>16 DEF rows
LEMMA SumsMatch ==
  ASSUME NEW s \in Seq(UsageRecords), NEW group
  PROVE  SumOf(GroupStats(s, group)) = CalculateStats(s)
<1>1. \A field \in {"tokens", "cost", "requests"} : Weighed(UsageRecords, field)
  BY DEF Weighed, Weight, UsageRecords
<1>2. \A field \in {"tokens", "cost", "requests"} :
        SumOf(GroupStats(s, group))[field] = Measure(s, field)
  BY <1>1, GroupsAddUp
<1> DEFINE groups == GroupStats(s, group)
<1>3. /\ SumOf(groups).tokens = Total(s, "tokens") /\ SumOf(groups).cost = Total(s, "cost")
      /\ SumOf(groups).requests = Len(s)
  BY <1>2 DEF Measure
<1> HIDE DEF groups
<1>4. SumOf(groups) = [tokens |-> SumOf(groups).tokens, cost |-> SumOf(groups).cost,
                       requests |-> SumOf(groups).requests]
  BY DEF SumOf
<1>5. CalculateStats(s) = [tokens |-> Total(s, "tokens"), cost |-> Total(s, "cost"),
                           requests |-> Len(s)]
  BY DEF CalculateStats
<1> QED BY <1>3, <1>4, <1>5 DEF groups

---------------------------------------------------------------------------
(* What a question about usage loads.                                      *)
LEMMA RecordFacts ==
  ASSUME NEW model \in UsageModels, NEW session \in UsageSessions, NEW tokens \in Nat, NEW at \in Nat,
         NEW operation \in ChatTypes \cup {"heartbeat", "chat_completion"}
  PROVE  UsageRecord(model, session, tokens, at, operation) \in UsageRecords
<1> DEFINE Prices == [name : UsageModels, price : Nat]
           hits == Filtered(ModelPricing, {e \in ToSet(ModelPricing) : Includes(model, e.name)})
<1>1. ModelPricing \in Seq(Prices)
  <2> DEFINE a == [name |-> "claude-sonnet-4", price |-> 300]
             b == [name |-> "qwen-coder", price |-> 0]
  <2>1. a \in Prices /\ b \in Prices BY DEF UsageModels
  <2>2. ModelPricing = <<a, b>> BY DEF ModelPricing
  <2> HIDE DEF a, b, Prices
  <2> QED BY <2>1, <2>2
<1>2. hits \in Seq(Prices) BY <1>1, FilteredList
<1> HIDE DEF hits
<1>3. hits # <<>> => hits[1].price \in Nat
  <2>1. hits # <<>> => 1 \in DOMAIN hits BY <1>2
  <2>2. 1 \in DOMAIN hits => hits[1] \in Prices
    <3> HIDE DEF Prices
    <3> QED BY <1>2
  <2> QED BY <2>1, <2>2
<1>4. GetModelCost(model) \in Nat BY <1>3 DEF GetModelCost, hits
<1>5. tokens * GetModelCost(model) \in Nat
  <2>1. \A a, b \in Nat : a * b \in Nat OBVIOUS
  <2> QED BY <1>4, <2>1
<1>6. ExtractAgentName(session) \in {"apex", "gem", "unknown"}
  BY DEF ExtractAgentName, UsageSessions
<1> QED BY <1>5, <1>6 DEF UsageRecord, UsageRecords

LEMMA CutFacts ==
  ASSUME NEW S, NEW s \in Seq(S), UsageLimit \in Nat
  PROVE  /\ CutToFirst(s) \in Seq(S)
         /\ Len(CutToFirst(s)) = IF Len(s) > UsageLimit THEN UsageLimit ELSE Len(s)
         /\ \A i \in 1..Len(CutToFirst(s)) : CutToFirst(s)[i] = s[i]
<1> DEFINE m == IF Len(s) > UsageLimit THEN UsageLimit ELSE Len(s)
<1>1. m \in 0..Len(s) OBVIOUS
<1>2. CutToFirst(s) = SubSeq(s, 1, m) BY DEF CutToFirst
<1> HIDE DEF m
<1>3. SubSeq(s, 1, m) \in Seq(S) /\ Len(SubSeq(s, 1, m)) = m
      /\ \A i \in 1..m : SubSeq(s, 1, m)[i] = s[i]
  BY <1>1
<1> QED BY <1>2, <1>3 DEF m

\* The rows of the table and the sessions, as records.
LEMMA DbUsageType ==
  ASSUME UsageTypeInv
  PROVE  LoadTokenDataFromDb \in Seq(UsageRecords)
<1> DEFINE back == Reverse(dbUsage)
           newest == CutToFirst(back)
           n == Len(newest)
           all == [i \in DOMAIN newest |->
                     UsageRecord(newest[i].model, newest[i].session, newest[i].tokens, newest[i].at,
                                 "heartbeat")]
<1>1. dbUsage \in Seq(UsageRows) BY DEF UsageTypeInv
<1>2. back \in Seq(UsageRows)
  <2>1. back = [i \in 1..Len(dbUsage) |-> dbUsage[Len(dbUsage) - i + 1]] BY DEF Reverse
  <2>2. \A i \in 1..Len(dbUsage) : dbUsage[Len(dbUsage) - i + 1] \in UsageRows BY <1>1
  <2> QED BY <1>1, <2>1, <2>2
<1> HIDE DEF back
<1>3. newest \in Seq(UsageRows) BY <1>2, CutFacts, UsageAssumption
<1>4. LoadTokenDataFromDb = all BY DEF LoadTokenDataFromDb, back
<1> HIDE DEF newest
<1>5. DOMAIN newest = 1..n /\ n \in Nat /\ \A i \in 1..n : newest[i] \in UsageRows
  BY <1>3, ElementOfSeq
<1> HIDE DEF n
<1>6. \A i \in 1..n : all[i] \in UsageRecords
  <2>1. \A i \in 1..n : /\ newest[i].model \in UsageModels /\ newest[i].session \in UsageSessions
                        /\ newest[i].tokens \in Nat /\ newest[i].at \in Nat
    BY <1>5 DEF UsageRows
  <2> QED BY <2>1, <1>5, RecordFacts
<1>7. all \in [1..n -> UsageRecords]
  <2>1. all = [i \in 1..n |-> all[i]] BY <1>5
  <2> HIDE DEF all
  <2> QED BY <1>6, <2>1
<1> HIDE DEF all
<1> QED BY <1>4, <1>5, <1>7

LEMMA DerivedType ==
  ASSUME UsageTypeInv
  PROVE  DeriveFromSessions \in Seq(UsageRecords)
<1> DEFINE used == Filtered(gatewayUsage,
                            {s \in ToSet(gatewayUsage) : s.tokens # 0 \/ s.model # "none"})
           n == Len(used)
           all == [i \in DOMAIN used |->
                     UsageRecord(IF used[i].model = "none" THEN "unknown" ELSE used[i].model,
                                 used[i].session, used[i].tokens, used[i].at, used[i].session[2])]
<1>1. gatewayUsage \in Seq(UsageRows) BY DEF UsageTypeInv
<1>2. used \in Seq(UsageRows) BY <1>1, FilteredList
<1>3. DeriveFromSessions = all BY DEF DeriveFromSessions
<1> HIDE DEF used
<1>4. DOMAIN used = 1..n /\ n \in Nat /\ \A i \in 1..n : used[i] \in UsageRows
  BY <1>2, ElementOfSeq
<1> HIDE DEF n
<1>5. \A i \in 1..n : all[i] \in UsageRecords
  <2>1. \A i \in 1..n : /\ used[i].model \in UsageModels /\ used[i].session \in UsageSessions
                        /\ used[i].tokens \in Nat /\ used[i].at \in Nat
    BY <1>4 DEF UsageRows
  <2>2. \A i \in 1..n : /\ (IF used[i].model = "none" THEN "unknown" ELSE used[i].model) \in UsageModels
                        /\ used[i].session[2] \in ChatTypes
    BY <2>1 DEF UsageModels, UsageSessions
  <2> QED BY <2>1, <2>2, <1>4, RecordFacts
<1>6. all \in [1..n -> UsageRecords]
  <2>1. all = [i \in 1..n |-> all[i]] BY <1>4
  <2> HIDE DEF all
  <2> QED BY <1>5, <2>1
<1> HIDE DEF all
<1> QED BY <1>3, <1>4, <1>6
\* Of the records with one key the first is left.
LEMMA DedupeFacts ==
  ASSUME NEW S, NEW s \in Seq(S)
  PROVE  /\ DedupeTokenRecords(s) \in Seq(S)
         /\ \A i \in DOMAIN s : \E k \in DOMAIN DedupeTokenRecords(s) :
              UsageKey(DedupeTokenRecords(s)[k]) = UsageKey(s[i])
         /\ \A j, k \in DOMAIN DedupeTokenRecords(s) :
              UsageKey(DedupeTokenRecords(s)[j]) = UsageKey(DedupeTokenRecords(s)[k]) => j = k
<1> DEFINE n == Len(s)
           IsFirst(i) == \A k \in 1..(i - 1) : UsageKey(s[k]) # UsageKey(s[i])
           T == {i \in 1..n : IsFirst(i)}
           places == [i \in 1..n |-> i]
           first == Filtered(places, T)
           d == [k \in DOMAIN first |-> s[first[k]]]
<1>1. n \in Nat /\ DOMAIN s = 1..n /\ \A i \in 1..n : s[i] \in S BY ElementOfSeq
<1>2. DedupeTokenRecords(s) = d BY <1>1 DEF DedupeTokenRecords
<1>3. places \in Seq(1..n) /\ DOMAIN places = 1..n /\ \A i \in 1..n : places[i] = i
  <2> HIDE DEF n
  <2> QED BY <1>1
<1> HIDE DEF places, n
<1>4. /\ first \in Seq(1..n) /\ \A k \in DOMAIN first : first[k] \in T
      /\ \A i \in T : \E k \in DOMAIN first : first[k] = i
  <2> DEFINE X == 1..n
  <2>1. T \subseteq X /\ places \in Seq(X) BY <1>3
  <2> HIDE DEF T, X
  <2>2. /\ first \in Seq(X) /\ \A k \in DOMAIN first : first[k] \in T
        /\ \A i \in DOMAIN places : places[i] \in T => \E k \in DOMAIN first : first[k] = places[i]
    BY <2>1, FilteredFacts
  <2> HIDE DEF first
  <2> QED BY <2>1, <2>2, <1>3 DEF X
<1>5. ASSUME NEW j \in DOMAIN first, NEW k \in DOMAIN first, j < k PROVE first[j] < first[k]
  <2> DEFINE X == 1..n
  <2>1. places \in Seq(X) BY <1>3
  <2> HIDE DEF T, X
  <2>2. \E a, b \in DOMAIN places : a < b /\ places[a] = first[j] /\ places[b] = first[k]
    BY <2>1, <1>5, FilteredOrder
  <2> HIDE DEF first
  <2> QED BY <2>2, <1>3
<1> HIDE DEF first
<1>6. DOMAIN first = 1..Len(first) /\ Len(first) \in Nat /\ \A k \in DOMAIN first : first[k] \in 1..n
  BY <1>4
<1>7. d \in Seq(S) /\ DOMAIN d = DOMAIN first
  <2>1. d \in [1..Len(first) -> S] BY <1>1, <1>6
  <2> HIDE DEF d
  <2> QED BY <2>1, <1>6
<1>8. ASSUME NEW i \in 1..n
      PROVE  \E k \in DOMAIN d : UsageKey(d[k]) = UsageKey(s[i])
  <2> DEFINE Same == {k \in 1..n : UsageKey(s[k]) = UsageKey(s[i])}
  <2>1. PICK m \in Same : \A k \in Same : m <= k
    <3>1. Same \subseteq Nat /\ Same # {} OBVIOUS
    <3> QED BY <3>1, SmallestOf
  <2>2. m \in T
    <3>1. ASSUME NEW k \in 1..(m - 1) PROVE UsageKey(s[k]) # UsageKey(s[m])
      <4>1. k \in 1..n /\ ~(m <= k) BY <1>1
      <4> QED BY <4>1, <2>1
    <3> QED BY <3>1
  <2>3. PICK k \in DOMAIN first : first[k] = m BY <2>2, <1>4
  <2>4. d[k] = s[m] BY <2>3
  <2> QED BY <2>1, <2>3, <2>4, <1>7
<1>9. ASSUME NEW j \in DOMAIN d, NEW k \in DOMAIN d, UsageKey(d[j]) = UsageKey(d[k])
      PROVE  j = k
  <2>1. j \in DOMAIN first /\ k \in DOMAIN first BY <1>7
  <2>2. d[j] = s[first[j]] /\ d[k] = s[first[k]] BY <2>1
  <2>3. IsFirst(first[j]) /\ IsFirst(first[k]) BY <2>1, <1>4
  <2>4. ~(first[j] < first[k])
    <3>1. first[j] < first[k] => first[j] \in 1..(first[k] - 1) BY <2>1, <1>6
    <3> QED BY <3>1, <2>2, <2>3, <1>9
  <2>5. ~(first[k] < first[j])
    <3>1. first[k] < first[j] => first[k] \in 1..(first[j] - 1) BY <2>1, <1>6
    <3> QED BY <3>1, <2>2, <2>3, <1>9
  <2> QED BY <2>1, <2>4, <2>5, <1>5, <1>6
<1> QED BY <1>1, <1>2, <1>7, <1>8, <1>9

LEMMA LoadedType ==
  ASSUME UsageTypeInv
  PROVE  LoadTokenData \in Seq(UsageRecords)
<1> DEFINE both == LoadTokenDataFromDb \o fileUsage
           combined == DedupeTokenRecords(both)
<1>1. LoadTokenDataFromDb \in Seq(UsageRecords) /\ fileUsage \in Seq(UsageRecords)
  BY DbUsageType DEF UsageTypeInv
<1>2. both \in Seq(UsageRecords) BY <1>1
<1> HIDE DEF both
<1>3. combined \in Seq(UsageRecords) BY <1>2, DedupeFacts
<1>4. LoadTokenData = IF combined # <<>> THEN combined ELSE DeriveFromSessions
  BY DEF LoadTokenData, both
<1> QED BY <1>3, <1>4, DerivedType

LEMMA TimeframeType ==
  ASSUME NEW s \in Seq(UsageRecords), NEW timeframe \in {"hour", "day", "all"}
  PROVE  FilterByTimeframe(s, timeframe) \in Seq(UsageRecords)
BY FilteredList DEF FilterByTimeframe

\* What is of the last hour or day is of the last day.
LEMMA DayOfHour ==
  ASSUME NEW s \in Seq(UsageRecords), NEW timeframe \in {"hour", "day"}, usageClock \in Nat
  PROVE  FilterByTimeframe(FilterByTimeframe(s, timeframe), "day") = FilterByTimeframe(s, timeframe)
<1> DEFINE age == [hour |-> 1, day |-> 2]
           T == {r \in ToSet(s) : r.at + age[timeframe] >= usageClock}
           recent == Filtered(s, T)
           D == {r \in ToSet(recent) : r.at + age["day"] >= usageClock}
<1>1. FilterByTimeframe(s, timeframe) = recent /\ FilterByTimeframe(recent, "day") = Filtered(recent, D)
  BY DEF FilterByTimeframe
<1>2. recent \in Seq(UsageRecords) /\ \A k \in DOMAIN recent : recent[k] \in T BY FilteredList
<1>3. age[timeframe] \in Nat /\ age[timeframe] <= age["day"] /\ age["day"] \in Nat OBVIOUS
<1> HIDE DEF age
<1>4. \A r \in UsageRecords : r \in T => r.at + age["day"] >= usageClock
  <2>1. \A r \in UsageRecords : r.at \in Nat BY DEF UsageRecords
  <2> QED BY <2>1, <1>3
<1> HIDE DEF T, recent
<1>5. \A k \in 1..Len(recent) : recent[k] \in D
  <2>1. \A k \in 1..Len(recent) : k \in DOMAIN recent /\ recent[k] \in UsageRecords
    BY <1>2, ElementOfSeq
  <2> QED BY <2>1, <1>2, <1>4 DEF ToSet
<1> HIDE DEF D
<1>6. Filtered(recent, D) = recent BY <1>2, <1>5, FilteredAll
<1> QED BY <1>1, <1>6
---------------------------------------------------------------------------
(* What the panels show of it.                                             *)
LEMMA CountedOnce == UsageTypeInv => UsageCountedOnce
<1> SUFFICES ASSUME UsageTypeInv PROVE UsageCountedOnce OBVIOUS
<1> DEFINE rows == LoadTokenDataFromDb
           both == rows \o fileUsage
           combined == DedupeTokenRecords(both)
           stored == ToSet(rows) \cup ToSet(fileUsage)
           loaded == LoadTokenData
           Places_(r) == {i \in DOMAIN loaded : loaded[i].model = r.model /\ loaded[i].session = r.session
                            /\ loaded[i].at = r.at /\ loaded[i].tokens = r.tokens
                            /\ loaded[i].operation = r.operation}
<1>1. rows \in Seq(UsageRecords) /\ fileUsage \in Seq(UsageRecords)
  BY DbUsageType DEF UsageTypeInv
<1> HIDE DEF rows
<1>2. both \in Seq(UsageRecords) /\ DOMAIN both = 1..Len(both) BY <1>1
<1>3. ASSUME NEW r \in stored PROVE \E i \in DOMAIN both : both[i] = r
  <2>1. CASE r \in ToSet(rows)
    <3>1. PICK i \in DOMAIN rows : rows[i] = r BY <2>1 DEF ToSet
    <3>2. i \in DOMAIN both /\ both[i] = r BY <3>1, <1>1
    <3> QED BY <3>2
  <2>2. CASE r \in ToSet(fileUsage)
    <3>1. PICK i \in DOMAIN fileUsage : fileUsage[i] = r BY <2>2 DEF ToSet
    <3>2. Len(rows) + i \in DOMAIN both /\ both[Len(rows) + i] = r BY <3>1, <1>1
    <3> QED BY <3>2
  <2> QED BY <2>1, <2>2
<1> HIDE DEF both
<1>4. loaded = IF combined # <<>> THEN combined ELSE DeriveFromSessions
  BY DEF LoadTokenData, both, rows
<1>5. /\ combined \in Seq(UsageRecords)
      /\ \A i \in DOMAIN both : \E k \in DOMAIN combined : UsageKey(combined[k]) = UsageKey(both[i])
      /\ \A j, k \in DOMAIN combined : UsageKey(combined[j]) = UsageKey(combined[k]) => j = k
  BY <1>2, DedupeFacts
<1> HIDE DEF combined
<1>6. ASSUME NEW r \in stored PROVE Cardinality(Places_(r)) = 1
  <2>1. PICK i \in DOMAIN both : both[i] = r BY <1>3
  <2>2. PICK k \in DOMAIN combined : UsageKey(combined[k]) = UsageKey(r) BY <2>1, <1>5
  <2>3. combined # <<>> BY <2>2
  <2>4. loaded = combined BY <2>3, <1>4
  <2> HIDE DEF loaded
  <2>5. \A j \in DOMAIN loaded : j \in Places_(r) <=> UsageKey(loaded[j]) = UsageKey(r)
    BY DEF UsageKey
  <2>6. Places_(r) = {k} BY <2>2, <2>4, <2>5, <1>5
  <2> HIDE DEF Places_
  <2> QED BY <2>6, FS_Singleton
<1> QED BY <1>6 DEF UsageCountedOnce, rows

LEMMA AddUp == UsageTypeInv => BreakdownsAddUp
<1> SUFFICES ASSUME UsageTypeInv, NEW timeframe \in {"hour", "day", "all"}
             PROVE  LET s == StatsAnswer(timeframe)
                        export == ExportAnswer(timeframe)
                        costs == AgentCostsAnswer(timeframe)
                    IN /\ \A part \in {"models", "sessions", "agents"} : SumOf(s[part]) = s.summary
                       /\ CalculateStats(export.usage) = s.summary
                       /\ SumOf(export.sessions) = export.summary
                       /\ DOMAIN costs = DOMAIN s.agents
                       /\ \A a \in DOMAIN costs :
                            /\ costs[a].stats = s.agents[a]
                            /\ SumOf(costs[a].models) = costs[a].stats
                            /\ SumOf(costs[a].timeline) = costs[a].stats
                       /\ timeframe # "all" => SumOf(TrendsAnswer(timeframe)) = s.summary
  BY DEF BreakdownsAddUp
<1> DEFINE all == LoadTokenData
           records == FilterByTimeframe(all, timeframe)
           s == StatsAnswer(timeframe)
           export == ExportAnswer(timeframe)
           costs == AgentCostsAnswer(timeframe)
           Own(a) == Filtered(records, {r \in ToSet(records) : r.agent = a})
<1>1. all \in Seq(UsageRecords) BY LoadedType
<1>2. records \in Seq(UsageRecords) BY <1>1, TimeframeType
<1>3. s = [summary |-> CalculateStats(records), models |-> GroupStats(records, "model"),
           sessions |-> GroupStats(records, "session"), agents |-> GroupStats(records, "agent")]
  BY DEF StatsAnswer
<1>4. export = [usage |-> records, summary |-> CalculateStats(records),
                models |-> GroupStats(records, "model"), sessions |-> GroupStats(records, "session")]
  BY DEF ExportAnswer
<1>5. costs = [a \in GroupsOf(records, "agent") |->
                 [stats |-> CalculateStats(Own(a)), models |-> GroupStats(Own(a), "model"),
                  timeline |-> GroupStats(Own(a), "at")]]
  BY DEF AgentCostsAnswer
<1>6. TrendsAnswer(timeframe) = GroupStats(FilterByTimeframe(records, "day"), "at") BY DEF TrendsAnswer
<1>7. timeframe # "all" => FilterByTimeframe(records, "day") = records
  BY <1>1, DayOfHour DEF UsageTypeInv
<1> HIDE DEF all, records, s, export, costs
<1>8. \A group : SumOf(GroupStats(records, group)) = CalculateStats(records) BY <1>2, SumsMatch
<1>9. \A part \in {"models", "sessions", "agents"} : SumOf(s[part]) = s.summary BY <1>3, <1>8
<1>10. CalculateStats(export.usage) = s.summary /\ SumOf(export.sessions) = export.summary
  BY <1>3, <1>4, <1>8
<1>11. DOMAIN costs = DOMAIN s.agents BY <1>3, <1>5 DEF GroupStats
<1>12. ASSUME NEW a \in DOMAIN costs
       PROVE  /\ costs[a].stats = s.agents[a]
              /\ SumOf(costs[a].models) = costs[a].stats /\ SumOf(costs[a].timeline) = costs[a].stats
  <2>1. Own(a) \in Seq(UsageRecords) BY <1>2, FilteredList
  <2>2. costs[a] = [stats |-> CalculateStats(Own(a)), models |-> GroupStats(Own(a), "model"),
                    timeline |-> GroupStats(Own(a), "at")]
    BY <1>5
  <2>3. s.agents[a] = CalculateStats(Own(a)) BY <1>3, <1>5 DEF GroupStats
  <2> HIDE DEF Own
  <2>4. \A group : SumOf(GroupStats(Own(a), group)) = CalculateStats(Own(a)) BY <2>1, SumsMatch
  <2> QED BY <2>2, <2>3, <2>4
<1>13. timeframe # "all" => SumOf(TrendsAnswer(timeframe)) = s.summary BY <1>3, <1>6, <1>7, <1>8
<1> QED BY <1>9, <1>10, <1>11, <1>12, <1>13 DEF s, export, costs

LEMMA NewestKept == UsageTypeInv /\ KeptInv => NewestUsageKept
<1> SUFFICES ASSUME UsageTypeInv, KeptInv PROVE NewestUsageKept OBVIOUS
<1> DEFINE n == Len(fileUsage)
<1>1. fileUsage \in Seq(UsageRecords) /\ postedUsage \in Seq(UsageRecords) BY DEF UsageTypeInv
<1>2. n <= Len(postedUsage) /\ \A i \in 1..n : fileUsage[i] = postedUsage[i] BY DEF KeptInv
<1>3. n \in 0..Len(postedUsage) BY <1>1, <1>2
<1>4. SubSeq(fileUsage, 1, n) = fileUsage BY <1>1
<1>5. SubSeq(postedUsage, 1, n) \in Seq(UsageRecords) /\ Len(SubSeq(postedUsage, 1, n)) = n
      /\ \A i \in 1..n : SubSeq(postedUsage, 1, n)[i] = postedUsage[i]
  BY <1>1, <1>3
<1> DEFINE front == SubSeq(postedUsage, 1, n)
<1> HIDE DEF front
<1>6. fileUsage = front
  <2>1. front \in Seq(UsageRecords) /\ Len(fileUsage) = Len(front)
    BY <1>5 DEF front
  <2>2. \A i \in 1..Len(fileUsage) : fileUsage[i] = front[i] BY <1>2, <1>5 DEF front
  <2> QED BY <1>1, <2>1, <2>2, SeqEqual
<1>7. IsPrefix(fileUsage, postedUsage) BY <1>2, <1>4, <1>6 DEF IsPrefix, front
<1> QED BY <1>7 DEF NewestUsageKept, KeptInv
---------------------------------------------------------------------------
(* The steps.                                                              *)
LEMMA UsageInitInv == UsageInit => UsageInv
<1> SUFFICES ASSUME UsageInit PROVE UsageInv OBVIOUS
<1>1. dbUsage = <<>> /\ fileUsage = <<>> /\ postedUsage = <<>> /\ usageClock = 0 BY DEF UsageInit
<1>2. gatewayUsage \in Seq(UsageRows)
  <2> DEFINE a == [model |-> "claude-sonnet-4", session |-> <<"apex", "direct">>, tokens |-> 2, at |-> 0]
             b == [model |-> "none", session |-> <<"gem", "group">>, tokens |-> 1, at |-> 0]
             c == [model |-> "none", session |-> <<"gem", "direct">>, tokens |-> 0, at |-> 0]
  <2>1. a \in UsageRows /\ b \in UsageRows /\ c \in UsageRows
    BY DEF UsageRows, UsageModels, UsageSessions, ChatTypes
  <2>2. gatewayUsage = <<>> \/ gatewayUsage = <<a, b, c>> BY DEF UsageInit
  <2> HIDE DEF a, b, c
  <2>3. <<a>> \in Seq(UsageRows) BY <2>1
  <2>4. Append(Append(<<a>>, b), c) \in Seq(UsageRows) BY <2>1, <2>3, AppendProperties
  <2>5. <<a, b, c>> = Append(Append(<<a>>, b), c) OBVIOUS
  <2>6. <<>> \in Seq(UsageRows) OBVIOUS
  <2> QED BY <2>2, <2>4, <2>5, <2>6, Zenon
<1>3. UsageTypeInv BY <1>1, <1>2 DEF UsageTypeInv
<1>4. PostedInv BY <1>1 DEF PostedInv
<1>5. KeptInv BY <1>1, UsageAssumption DEF KeptInv
<1> QED BY <1>3, <1>4, <1>5 DEF UsageInv

LEMMA UsageReports ==
  ASSUME NEW model \in {"eu-claude-sonnet-4", "qwen-coder"}, NEW tokens \in {1, 2},
         HeartbeatReports("apex", model, tokens)
  PROVE  UsageInv => UsageInv'
<1> SUFFICES ASSUME UsageInv PROVE UsageInv' OBVIOUS
<1>1. UsageTypeInv /\ PostedInv /\ KeptInv BY DEF UsageInv
<1> DEFINE r == [model |-> model, session |-> <<"apex", "cli">>, tokens |-> tokens, at |-> usageClock]
<1>2. r \in UsageRows
  BY <1>1 DEF UsageTypeInv, UsageRows, UsageModels, UsageSessions, ChatTypes
<1>3. dbUsage' = Append(dbUsage, r) /\ UNCHANGED <<fileUsage, usageClock, gatewayUsage, postedUsage>>
  BY DEF HeartbeatReports
<1> HIDE DEF r
<1>4. dbUsage' \in Seq(UsageRows) BY <1>1, <1>2, <1>3, AppendProperties DEF UsageTypeInv
<1>5. UsageTypeInv' BY <1>1, <1>3, <1>4 DEF UsageTypeInv
<1>6. PostedInv' /\ KeptInv' BY <1>1, <1>3 DEF PostedInv, KeptInv
<1> QED BY <1>5, <1>6 DEF UsageInv

LEMMA UsagePosts ==
  ASSUME NEW model \in {"claude-sonnet-4", "mystery"},
         NEW session \in {<<"apex", "cli">>, <<"none", "cli">>}, PostUsage(model, session, 1)
  PROVE  UsageInv => UsageInv'
<1> SUFFICES ASSUME UsageInv PROVE UsageInv' OBVIOUS
<1>1. UsageTypeInv /\ PostedInv /\ KeptInv BY DEF UsageInv
<1> DEFINE record == UsageRecord(model, session, 1, usageClock, "chat_completion")
           longer == <<record>> \o fileUsage
           n == Len(fileUsage)
           m == Len(postedUsage)
<1>2. record \in UsageRecords /\ record.at = usageClock
  <2>1. model \in UsageModels /\ session \in UsageSessions
    BY DEF UsageModels, UsageSessions, ChatTypes
  <2>2. usageClock \in Nat /\ 1 \in Nat BY <1>1 DEF UsageTypeInv
  <2> QED BY <2>1, <2>2, RecordFacts DEF UsageRecord
<1>3. /\ fileUsage' = CutToFirst(longer) /\ postedUsage' = <<record>> \o postedUsage
      /\ UNCHANGED <<dbUsage, usageClock, gatewayUsage>>
  BY DEF PostUsage
<1> HIDE DEF record
<1>4. /\ fileUsage \in Seq(UsageRecords) /\ postedUsage \in Seq(UsageRecords) /\ usageClock \in Nat
      /\ UsageLimit \in Nat \ {0}
  BY <1>1, UsageAssumption DEF UsageTypeInv
<1>5. /\ longer \in Seq(UsageRecords) /\ Len(longer) = n + 1 /\ longer[1] = record
      /\ \A i \in 2..(n + 1) : longer[i] = fileUsage[i - 1]
  BY <1>2, <1>4
<1>6. /\ postedUsage' \in Seq(UsageRecords) /\ Len(postedUsage') = m + 1 /\ postedUsage'[1] = record
      /\ \A i \in 2..(m + 1) : postedUsage'[i] = postedUsage[i - 1]
  BY <1>2, <1>3, <1>4
<1> DEFINE size == IF n + 1 > UsageLimit THEN UsageLimit ELSE n + 1
<1>7. /\ fileUsage' \in Seq(UsageRecords) /\ Len(fileUsage') = size
      /\ \A i \in 1..size : fileUsage'[i] = longer[i]
  <2> HIDE DEF longer
  <2> QED BY <1>3, <1>4, <1>5, CutFacts
<1>8. n \in Nat /\ m \in Nat /\ DOMAIN postedUsage = 1..m /\ DOMAIN postedUsage' = 1..(m + 1)
  BY <1>4, <1>6
<1>9. \A i \in 1..m : postedUsage[i].at \in Nat
  <2>1. \A i \in 1..m : postedUsage[i] \in UsageRecords BY <1>4
  <2> QED BY <2>1 DEF UsageRecords
<1>10. /\ n <= m /\ n <= UsageLimit /\ \A i \in 1..n : fileUsage[i] = postedUsage[i]
       /\ n < UsageLimit =>
            \A i \in (n + 1)..m : postedUsage[i].at + UsageRetention < usageClock
  BY <1>1 DEF KeptInv
<1>11. UsageTypeInv' BY <1>1, <1>3, <1>6, <1>7 DEF UsageTypeInv
<1> HIDE DEF n, m, longer
<1>12. PostedInv'
  <2>1. \A i \in 1..m : postedUsage[i].at <= usageClock BY <1>1, <1>8 DEF PostedInv
  <2>2. \A i, j \in 1..m : i <= j => postedUsage[i].at >= postedUsage[j].at
    BY <1>1, <1>8 DEF PostedInv
  <2>3. \A i \in 1..(m + 1) : i = 1 \/ (i \in 2..(m + 1) /\ i - 1 \in 1..m) BY <1>8
  <2>4. \A i \in 1..(m + 1) : postedUsage'[i].at <= usageClock
    BY <2>1, <2>3, <1>2, <1>4, <1>6
  <2>5. ASSUME NEW i \in 1..(m + 1), NEW j \in 1..(m + 1), i <= j
        PROVE  postedUsage'[i].at >= postedUsage'[j].at
    <3>1. CASE i = 1 /\ j = 1
      <4>1. postedUsage'[1].at \in Nat BY <1>2, <1>4, <1>6
      <4> QED BY <3>1, <4>1
    <3>2. CASE i = 1 /\ j # 1 BY <3>2, <2>3, <2>1, <1>2, <1>4, <1>6, <1>9
    <3>3. CASE i # 1
      <4>1. /\ i \in 2..(m + 1) /\ i - 1 \in 1..m /\ j \in 2..(m + 1) /\ j - 1 \in 1..m
            /\ i - 1 <= j - 1
        BY <3>3, <2>3, <2>5, <1>8
      <4>2. postedUsage'[i] = postedUsage[i - 1] /\ postedUsage'[j] = postedUsage[j - 1]
        BY <4>1, <1>6
      <4> QED BY <4>1, <4>2, <2>2
    <3> QED BY <3>1, <3>2, <3>3
  <2> QED BY <2>4, <2>5, <1>3, <1>8 DEF PostedInv
<1>13. KeptInv'
  <2>1. size <= m + 1 /\ size <= UsageLimit /\ size <= n + 1 BY <1>4, <1>8, <1>10
  <2>2. \A i \in 1..size : i = 1 \/ (i \in 2..(m + 1) /\ i \in 2..(n + 1) /\ i - 1 \in 1..n)
    BY <2>1, <1>4, <1>8, <1>10
  <2>3. \A i \in 1..size : fileUsage'[i] = postedUsage'[i] BY <2>2, <1>5, <1>6, <1>7, <1>10
  <2>4. ASSUME size < UsageLimit, NEW i \in (size + 1)..(m + 1)
        PROVE  postedUsage'[i].at + UsageRetention < usageClock
    <3>1. size = n + 1 /\ n < UsageLimit BY <2>4, <1>4, <1>8
    <3>2. i \in 2..(m + 1) /\ i - 1 \in (n + 1)..m BY <3>1, <1>8
    <3> QED BY <3>1, <3>2, <1>6, <1>10
  <2> HIDE DEF size
  <2> QED BY <2>1, <2>3, <2>4, <1>3, <1>6, <1>7 DEF KeptInv
<1> QED BY <1>11, <1>12, <1>13 DEF UsageInv

\* The records too old are the last of the file, since it is sorted by time.
LEMMA UsageCleans == UsageInv /\ CleanUsage => UsageInv'
<1> SUFFICES ASSUME UsageInv, CleanUsage PROVE UsageInv' OBVIOUS
<1>1. UsageTypeInv /\ PostedInv /\ KeptInv BY DEF UsageInv
<1> DEFINE n == Len(fileUsage)
           T == {r \in ToSet(fileUsage) : r.at + UsageRetention >= usageClock}
           Old == {i \in 1..n : fileUsage[i] \notin T}
<1>2. fileUsage' = Filtered(fileUsage, T) /\ fileUsage' # fileUsage
      /\ UNCHANGED <<dbUsage, usageClock, gatewayUsage, postedUsage>>
  BY DEF CleanUsage
<1>3. /\ fileUsage \in Seq(UsageRecords) /\ postedUsage \in Seq(UsageRecords) /\ usageClock \in Nat
      /\ UsageLimit \in Nat /\ UsageRetention \in Nat
  BY <1>1, UsageAssumption DEF UsageTypeInv
<1>4. n \in Nat /\ n <= Len(postedUsage) /\ n <= UsageLimit /\ Len(postedUsage) \in Nat
      /\ \A i \in 1..n : fileUsage[i] = postedUsage[i] /\ fileUsage[i] \in ToSet(fileUsage)
  BY <1>1, <1>3 DEF KeptInv, ToSet
<1>5. \A i \in 1..Len(postedUsage) : postedUsage[i].at \in Nat
  <2>1. \A i \in 1..Len(postedUsage) : postedUsage[i] \in UsageRecords BY <1>3
  <2> QED BY <2>1 DEF UsageRecords
<1>6. \A i, j \in 1..Len(postedUsage) : i <= j => postedUsage[i].at >= postedUsage[j].at
  BY <1>1, <1>3 DEF PostedInv
<1>7. \A i \in 1..n : fileUsage[i] \in T <=> postedUsage[i].at + UsageRetention >= usageClock
  BY <1>4
<1>8. Old # {}
  <2>1. ASSUME Old = {} PROVE FALSE
    <3>1. \A i \in 1..Len(fileUsage) : fileUsage[i] \in T BY <2>1
    <3> HIDE DEF T
    <3>2. Filtered(fileUsage, T) = fileUsage BY <1>3, <3>1, FilteredAll
    <3> QED BY <1>2, <3>2
  <2> QED BY <2>1
<1>9. PICK first \in Old : \A i \in Old : first <= i
  <2>1. Old \subseteq Nat OBVIOUS
  <2> HIDE DEF Old
  <2> QED BY <1>8, <2>1, SmallestOf
<1> DEFINE m == first - 1
<1>10. m \in 0..n /\ m < n BY <1>4, <1>9
<1>11. \A i \in 1..m : fileUsage[i] \in T
  <2>1. \A i \in 1..m : i \in 1..n /\ ~(first <= i) BY <1>4, <1>9
  <2> QED BY <2>1, <1>9
<1>12. \A i \in (m + 1)..Len(postedUsage) : postedUsage[i].at + UsageRetention < usageClock
  <2>1. first \in 1..Len(postedUsage) /\ fileUsage[first] \notin T BY <1>4, <1>9
  <2>2. postedUsage[first].at + UsageRetention < usageClock BY <2>1, <1>3, <1>5, <1>7, <1>9
  <2>3. \A i \in (m + 1)..Len(postedUsage) : i \in 1..Len(postedUsage) /\ first <= i
    BY <1>4, <1>9
  <2> QED BY <2>1, <2>2, <2>3, <1>3, <1>5, <1>6
<1>13. \A i \in (m + 1)..Len(fileUsage) : fileUsage[i] \notin T
  <2>1. \A i \in (m + 1)..n : i \in 1..n /\ i \in (m + 1)..Len(postedUsage) BY <1>4, <1>10
  <2>2. \A i \in 1..n : i \in 1..Len(postedUsage) BY <1>4
  <2> QED BY <2>1, <2>2, <1>3, <1>5, <1>7, <1>12
<1>14. /\ fileUsage' \in Seq(UsageRecords) /\ Len(fileUsage') = m
       /\ \A i \in 1..m : fileUsage'[i] = fileUsage[i]
  <2>1. m \in 0..Len(fileUsage) BY <1>10
  <2> HIDE DEF T, m
  <2> QED BY <2>1, <1>2, <1>3, <1>11, <1>13, FilteredFront
<1>15. UsageTypeInv' BY <1>1, <1>2, <1>14 DEF UsageTypeInv
<1>16. PostedInv' BY <1>1, <1>2 DEF PostedInv
<1>17. KeptInv'
  <2>1. m <= Len(postedUsage) /\ m <= UsageLimit /\ m \in Nat BY <1>3, <1>4, <1>10
  <2>2. \A i \in 1..m : fileUsage'[i] = postedUsage[i] BY <1>4, <1>10, <1>14
  <2> HIDE DEF m
  <2> QED BY <2>1, <2>2, <1>2, <1>12, <1>14 DEF KeptInv
<1> QED BY <1>15, <1>16, <1>17 DEF UsageInv

LEMMA UsageHour == UsageInv /\ HourPasses => UsageInv'
<1> SUFFICES ASSUME UsageInv, HourPasses PROVE UsageInv' OBVIOUS
<1>1. UsageTypeInv /\ PostedInv /\ KeptInv BY DEF UsageInv
<1>2. usageClock' = usageClock + 1 /\ UNCHANGED <<dbUsage, fileUsage, gatewayUsage, postedUsage>>
  BY DEF HourPasses
<1>3. usageClock \in Nat /\ UsageRetention \in Nat /\ postedUsage \in Seq(UsageRecords)
  BY <1>1, UsageAssumption DEF UsageTypeInv
<1>4. \A i \in DOMAIN postedUsage : postedUsage[i].at \in Nat
  <2>1. \A i \in DOMAIN postedUsage : postedUsage[i] \in UsageRecords BY <1>3
  <2> QED BY <2>1 DEF UsageRecords
<1>5. UsageTypeInv' BY <1>1, <1>2 DEF UsageTypeInv
<1>6. PostedInv' BY <1>1, <1>2, <1>3, <1>4 DEF PostedInv
<1>7. KeptInv'
  <2>1. \A i \in (Len(fileUsage) + 1)..Len(postedUsage) : i \in DOMAIN postedUsage
    BY <1>1, <1>3 DEF UsageTypeInv
  <2> QED BY <2>1, <1>1, <1>2, <1>3, <1>4 DEF KeptInv
<1> QED BY <1>5, <1>6, <1>7 DEF UsageInv

LEMMA UsageStep == UsageInv /\ [UsageNext]_usageVars => UsageInv'
<1> SUFFICES ASSUME UsageInv, [UsageNext]_usageVars PROVE UsageInv' OBVIOUS
<1>1. CASE UsageNext BY <1>1, UsageReports, UsagePosts, UsageCleans, UsageHour DEF UsageNext
<1>2. CASE UNCHANGED usageVars
  BY <1>2 DEF usageVars, UsageInv, UsageTypeInv, PostedInv, KeptInv
<1> QED BY <1>1, <1>2

\* Usage is neither lost nor counted twice: identical records of the table and the
\* file are folded and nothing else is, every breakdown adds up to the summary beside
\* it, and the file keeps the newest records posted (api/tokens/route.ts).
THEOREM UsageCorrect == UsageSpec => []UsageSafe
<1>1. UsageInv => UsageSafe BY CountedOnce, AddUp, NewestKept DEF UsageInv, UsageSafe
<1> QED BY UsageInitInv, UsageStep, <1>1, PTL DEF UsageSpec
=============================================================================
