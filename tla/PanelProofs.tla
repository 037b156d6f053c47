----------------------------- MODULE PanelProofs -----------------------------
(***************************************************************************)
(* Proofs about the browser: ViewersSafe of the panels that only look, for *)
(* any choices, pages, loads under way and failures; FormsSafe of those    *)
(* that save, for any number of values, requests and failures;             *)
(* ConnectionSafe of the connection to the gateway, for any number of hook *)
(* instances, sockets, clicks and attempts; and GatewaysSafe of the table  *)
(* of gateways, for any number of gateways and probes.                     *)
(***************************************************************************)
EXTENDS Viewers, AdminPanels, GatewayClient, Gateways, FiniteSetTheorems, TLAPS

(***************************************************************************)
(* Viewers: the inductive invariant.                                       *)
(***************************************************************************)

Sels == [what : ViewChoices \cup {"none"}, page : Nat]
AskedSels == [what : ViewChoices, page : Nat]
Loads == [part : Viewed.parts, sel : AskedSels,
          stage : {"sent", "ok", "refused", "lost", "marking"}, rows : Nat]

\* Only the inbox marks rows, and only the search has a timer.
ViewTypeInv ==
    /\ viewer \in AllViewers
    /\ picked \in Sels /\ (Viewed.asks # "click" => picked \in AskedSels)
    /\ asked \in Seq(Loads)
    /\ onScreen \in [Viewed.parts -> Sels]
    /\ debounce \in ViewChoices \cup {"none"}
    /\ viewFaults \in Nat
    /\ viewRows \in [ViewChoices -> Nat]
    /\ \A i \in DOMAIN asked : asked[i].stage = "marking" => viewer = "inbox"
    /\ debounce # "none" => Viewed.asks = "typing"

\* From some load of a part on all are for what is picked; where none is under
\* way, the part shows that already.
NotAsked(part) == \A k \in DOMAIN asked : asked[k].part # part
Follows(part) ==
    \/ \E k \in DOMAIN asked :
         /\ asked[k].part = part
         /\ \A j \in DOMAIN asked : j >= k /\ asked[j].part = part => asked[j].sel = picked
    \/ NotAsked(part) /\ onScreen[part] = picked

\* This holds while nothing failed and no answer was overtaken, but for a query
\* whose timer still runs.
FollowInv ==
    Viewed.asks \in {"pick", "typing"} /\ ~overtaken /\ viewFaults = 0 =>
        /\ debounce # "none" => picked = [what |-> debounce, page |-> 0]
        /\ debounce = "none" => \A part \in Viewed.parts : Follows(part)
        /\ \A i \in DOMAIN asked : asked[i].stage \in {"sent", "ok"}

ViewInv == ViewTypeInv /\ FollowInv /\ TitleIsTrue

---------------------------------------------------------------------------
(* What the viewers are, and the sequence of loads.                        *)

\* The records of the viewers, as far as the proofs need them.
LEMMA ViewerFacts ==
    ASSUME viewer \in AllViewers
    PROVE  /\ \/ Viewed.parts = {"stats"}
              \/ Viewed.parts = {"stats", "trend"} /\ Viewed.asks = "pick"
           /\ Viewed.asks \in {"pick", "poll", "typing", "click"}
           /\ Viewed.asks = "click" => Viewed.failure = "kept" /\ ~Viewed.polls
           /\ Viewed.asks = "typing" => ~Viewed.polls
           /\ Viewed.pages => Viewed.asks = "pick"
           /\ viewer = "inbox" => Viewed.asks = "poll"
           /\ viewer = "audit" => Viewed.asks = "pick" /\ Viewed.parts = {"stats"}
<1>1. /\ viewer \in {"tokens", "costs", "audit", "history", "comms", "inbox", "search", "job"}
      /\ Viewed = CASE viewer = "tokens" -> TokenDashboard
                    [] viewer = "costs" -> AgentCosts
                    [] viewer = "audit" -> AuditTrail
                    [] viewer = "history" -> AgentHistory
                    [] viewer = "comms" -> AgentComms
                    [] viewer = "inbox" -> Inbox
                    [] viewer = "search" -> HeaderSearch
                    [] viewer = "job" -> JobDetail
  BY DEF Viewed, ViewerOf, AllViewers
<1>2. CASE viewer = "tokens"
  <2>1. Viewed = TokenDashboard BY <1>1, <1>2
  <2> HIDE DEF Viewed
  <2> QED BY <1>2, <2>1 DEF TokenDashboard
<1>3. CASE viewer = "costs"
  <2>1. Viewed = AgentCosts BY <1>1, <1>3
  <2> HIDE DEF Viewed
  <2> QED BY <1>3, <2>1 DEF AgentCosts
<1>4. CASE viewer = "audit"
  <2>1. Viewed = AuditTrail BY <1>1, <1>4
  <2> HIDE DEF Viewed
  <2> QED BY <1>4, <2>1 DEF AuditTrail
<1>5. CASE viewer = "history"
  <2>1. Viewed = AgentHistory BY <1>1, <1>5
  <2> HIDE DEF Viewed
  <2> QED BY <1>5, <2>1 DEF AgentHistory
<1>6. CASE viewer = "comms"
  <2>1. Viewed = AgentComms BY <1>1, <1>6
  <2>2. ~Viewed.pages
    BY <2>1, Zenon DEF AgentComms
  <2>3. Viewed.parts = {"stats"} /\ Viewed.asks = "poll" /\ Viewed.failure = "kept"
    BY <2>1 DEF AgentComms
  <2> HIDE DEF Viewed
  <2> QED BY <1>6, <2>2, <2>3
<1>7. CASE viewer = "inbox"
  <2>1. Viewed = Inbox BY <1>1, <1>7
  <2>2. ~Viewed.pages
    BY <2>1, Zenon DEF Inbox
  <2>3. Viewed.parts = {"stats"} /\ Viewed.asks = "poll" /\ Viewed.failure = "kept"
    BY <2>1 DEF Inbox
  <2> HIDE DEF Viewed
  <2> QED BY <1>7, <2>2, <2>3
<1>8. CASE viewer = "search"
  <2>1. Viewed = HeaderSearch BY <1>1, <1>8
  <2>2. ~Viewed.pages /\ ~Viewed.polls
    BY <2>1, Zenon DEF HeaderSearch
  <2>3. Viewed.parts = {"stats"} /\ Viewed.asks = "typing" /\ Viewed.failure = "cleared"
    BY <2>1 DEF HeaderSearch
  <2> HIDE DEF Viewed
  <2> QED BY <1>8, <2>2, <2>3
<1>9. CASE viewer = "job"
  <2>1. Viewed = JobDetail BY <1>1, <1>9
  <2>2. ~Viewed.pages /\ ~Viewed.polls
    BY <2>1, Zenon DEF JobDetail
  <2>3. Viewed.parts = {"stats"} /\ Viewed.asks = "click" /\ Viewed.failure = "kept"
    BY <2>1 DEF JobDetail
  <2> HIDE DEF Viewed
  <2> QED BY <1>9, <2>2, <2>3
<1> QED BY <1>1, <1>2, <1>3, <1>4, <1>5, <1>6, <1>7, <1>8, <1>9

\* A function on 1..n is a sequence of length n.
LEMMA ListIsSeq ==
    ASSUME NEW S, NEW n \in Nat, NEW f \in [1..n -> S]
    PROVE  f \in Seq(S) /\ Len(f) = n /\ DOMAIN f = 1..n
  OBVIOUS

\* Two sequences one behind the other.
LEMMA ConcatFacts ==
    ASSUME NEW S, NEW a \in Seq(S), NEW b \in Seq(S)
    PROVE  /\ a \o b \in Seq(S) /\ Len(a \o b) = Len(a) + Len(b)
           /\ Len(a) \in Nat /\ Len(b) \in Nat
           /\ DOMAIN a = 1..Len(a) /\ DOMAIN (a \o b) = 1..Len(a \o b)
           /\ \A k \in 1..Len(a) : (a \o b)[k] = a[k]
           /\ \A k \in 1..Len(b) : (a \o b)[Len(a) + k] = b[k]
<1>1. /\ a \o b \in Seq(S) /\ Len(a \o b) = Len(a) + Len(b)
      /\ Len(a) \in Nat /\ Len(b) \in Nat
  OBVIOUS
<1>2. DOMAIN a = 1..Len(a)
  OBVIOUS
<1>3. DOMAIN (a \o b) = 1..Len(a \o b)
  BY <1>1
<1>4. \A k \in 1..Len(a) : (a \o b)[k] = a[k]
  OBVIOUS
<1>5. \A k \in 1..Len(b) : (a \o b)[Len(a) + k] = b[k]
  OBVIOUS
<1> QED BY <1>1, <1>2, <1>3, <1>4, <1>5

\* SetToSeq lists the parts, each somewhere.
LEMMA PartsFacts ==
    ASSUME viewer \in AllViewers
    PROVE  /\ PartsInOrder \in Seq(Viewed.parts)
           /\ \A part \in Viewed.parts : \E i \in DOMAIN PartsInOrder : PartsInOrder[i] = part
<1> DEFINE S == Viewed.parts
<1>1. CASE S = {"stats"}
  <2>1. Cardinality(S) = 1 BY <1>1, FS_Singleton
  <2>2. [i \in 1..1 |-> "stats"] \in [1..Cardinality(S) -> S] /\ IsInjective([i \in 1..1 |-> "stats"])
    BY <1>1, <2>1 DEF IsInjective
  <2>3. PartsInOrder \in [1..1 -> S] BY <2>1, <2>2 DEF PartsInOrder, SetToSeq
  <2>4. PartsInOrder \in Seq(S) /\ DOMAIN PartsInOrder = 1..1
    BY <2>3, ListIsSeq
  <2>5. PartsInOrder[1] \in S
    BY <2>3
  <2> HIDE DEF S
  <2> QED BY <1>1, <2>4, <2>5 DEF S
<1>2. CASE S = {"stats", "trend"}
  <2> DEFINE g == [i \in 1..2 |-> IF i = 1 THEN "stats" ELSE "trend"]
  <2>1. Cardinality(S) = 2
    <3>1. S = {"stats"} \cup {"trend"} /\ "trend" \notin {"stats"} BY <1>2
    <3>2. IsFiniteSet({"stats"}) /\ Cardinality({"stats"}) = 1 BY FS_Singleton
    <3>3. Cardinality({"stats"} \cup {"trend"}) = 1 + 1
      BY <3>1, <3>2, FS_AddElement
    <3> QED BY <3>1, <3>3
  <2>2. g \in [1..Cardinality(S) -> S] /\ IsInjective(g)
    BY <1>2, <2>1 DEF IsInjective
  <2>3. PartsInOrder \in [1..2 -> S] /\ IsInjective(PartsInOrder)
    BY <2>1, <2>2 DEF PartsInOrder, SetToSeq
  <2>4. PartsInOrder[1] # PartsInOrder[2] /\ DOMAIN PartsInOrder = 1..2
    BY <2>3 DEF IsInjective
  <2>5. PartsInOrder \in Seq(S) /\ PartsInOrder[1] \in S /\ PartsInOrder[2] \in S
    <3>1. PartsInOrder \in Seq(S)
      BY <2>3, ListIsSeq
    <3> QED BY <2>3, <3>1
  <2>6. \A part \in S : part = PartsInOrder[1] \/ part = PartsInOrder[2]
    BY <1>2, <2>4, <2>5
  <2> QED BY <2>4, <2>5, <2>6
<1> QED BY <1>1, <1>2, ViewerFacts

\* AskFor appends a load of the selection for each part.
LEMMA AskForFacts ==
    ASSUME viewer \in AllViewers, asked \in Seq(Loads), NEW sel \in AskedSels
    PROVE  /\ AskFor(sel) \in Seq(Loads) /\ Len(AskFor(sel)) \in Nat /\ Len(asked) \in Nat
           /\ DOMAIN AskFor(sel) = 1..Len(AskFor(sel)) /\ DOMAIN asked = 1..Len(asked)
           /\ Len(asked) <= Len(AskFor(sel))
           /\ \A i \in 1..Len(asked) : AskFor(sel)[i] = asked[i]
           /\ \A i \in (Len(asked) + 1)..Len(AskFor(sel)) :
                AskFor(sel)[i].sel = sel /\ AskFor(sel)[i].stage = "sent"
           /\ \A part \in Viewed.parts : \E i \in (Len(asked) + 1)..Len(AskFor(sel)) :
                AskFor(sel)[i].part = part
<1> DEFINE n == Len(PartsInOrder)
           new == [i \in DOMAIN PartsInOrder |-> LoadOf(PartsInOrder[i], sel)]
<1>1. PartsInOrder \in Seq(Viewed.parts) /\ n \in Nat /\ DOMAIN PartsInOrder = 1..n
  BY PartsFacts
<1>2. \A i \in 1..n : PartsInOrder[i] \in Viewed.parts
  BY <1>1
<1>3. \A part \in Viewed.parts : LoadOf(part, sel) \in Loads /\ LoadOf(part, sel).sel = sel
                                  /\ LoadOf(part, sel).stage = "sent"
                                  /\ LoadOf(part, sel).part = part
  BY DEF LoadOf, Loads
<1>4. new \in [1..n -> Loads] /\ \A i \in 1..n : new[i] = LoadOf(PartsInOrder[i], sel)
  <2>1. new = [i \in 1..n |-> LoadOf(PartsInOrder[i], sel)]
    BY <1>1
  <2> HIDE DEF new, n
  <2> QED BY <1>2, <1>3, <2>1
<1>5. AskFor(sel) = asked \o new
  BY DEF AskFor
<1>6. \A part \in Viewed.parts : \E i \in 1..n : PartsInOrder[i] = part
  BY <1>1, PartsFacts
<1> HIDE DEF new, n
<1>7. new \in Seq(Loads) /\ Len(new) = n
  BY <1>1, <1>4, ListIsSeq
<1> DEFINE q == AskFor(sel)
<1>8. /\ q \in Seq(Loads) /\ Len(q) = Len(asked) + n /\ Len(asked) \in Nat
      /\ DOMAIN asked = 1..Len(asked) /\ DOMAIN q = 1..Len(q)
      /\ \A i \in 1..Len(asked) : q[i] = asked[i]
      /\ \A i \in 1..n : q[Len(asked) + i] = new[i]
  <2>1. asked \in Seq(Loads) /\ new \in Seq(Loads)
    BY <1>7
  <2> HIDE DEF Loads
  <2> DEFINE c == asked \o new
  <2>2. /\ c \in Seq(Loads) /\ Len(c) = Len(asked) + Len(new) /\ Len(asked) \in Nat
        /\ DOMAIN asked = 1..Len(asked) /\ DOMAIN c = 1..Len(c)
        /\ \A i \in 1..Len(asked) : c[i] = asked[i]
        /\ \A i \in 1..Len(new) : c[Len(asked) + i] = new[i]
    BY <2>1, ConcatFacts
  <2> HIDE DEF c
  <2>3. q = c
    BY <1>5 DEF c
  <2> QED BY <1>7, <2>2, <2>3
<1> HIDE DEF q
<1>9. \A i \in (Len(asked) + 1)..Len(q) : q[i].sel = sel /\ q[i].stage = "sent"
  <2> SUFFICES ASSUME NEW i \in (Len(asked) + 1)..Len(q)
               PROVE  q[i].sel = sel /\ q[i].stage = "sent"
    OBVIOUS
  <2>1. i - Len(asked) \in 1..n /\ i = Len(asked) + (i - Len(asked))
    BY <1>1, <1>8
  <2>2. q[i] = LoadOf(PartsInOrder[i - Len(asked)], sel)
    BY <1>4, <1>8, <2>1
  <2> QED BY <1>2, <1>3, <2>1, <2>2
<1>10. \A part \in Viewed.parts : \E i \in (Len(asked) + 1)..Len(q) : q[i].part = part
  <2> SUFFICES ASSUME NEW part \in Viewed.parts
               PROVE  \E i \in (Len(asked) + 1)..Len(q) : q[i].part = part
    OBVIOUS
  <2>1. PICK i \in 1..n : PartsInOrder[i] = part
    BY <1>6
  <2>2. q[Len(asked) + i] = LoadOf(part, sel)
    BY <1>4, <1>8, <2>1
  <2>3. Len(asked) + i \in (Len(asked) + 1)..Len(q)
    BY <1>1, <1>8
  <2> QED BY <1>3, <2>2, <2>3
<1> QED BY <1>1, <1>8, <1>9, <1>10 DEF q

\* A load that is answered, or given up, leaves the others in their order.
LEMMA RemovedFacts ==
    ASSUME asked \in Seq(Loads), NEW i \in DOMAIN asked
    PROVE  /\ Len(asked) \in Nat /\ DOMAIN asked = 1..Len(asked) /\ i \in Nat
           /\ RemoveAt(asked, i) \in Seq(Loads)
           /\ DOMAIN RemoveAt(asked, i) = 1..(Len(asked) - 1)
           /\ Len(RemoveAt(asked, i)) = Len(asked) - 1
           /\ \A k \in 1..(Len(asked) - 1) :
                RemoveAt(asked, i)[k] = IF k < i THEN asked[k] ELSE asked[k + 1]
<1> HIDE DEF Loads
<1>1. Len(asked) \in Nat /\ DOMAIN asked = 1..Len(asked) /\ i \in 1..Len(asked)
  OBVIOUS
<1> DEFINE a == SubSeq(asked, 1, i - 1)
           b == SubSeq(asked, i + 1, Len(asked))
<1>2. a \in Seq(Loads) /\ Len(a) = i - 1 /\ \A k \in 1..(i - 1) : a[k] = asked[k]
  BY <1>1
<1>3. b \in Seq(Loads) /\ Len(b) = Len(asked) - i
      /\ \A k \in 1..(Len(asked) - i) : b[k] = asked[i + k]
  BY <1>1
<1> DEFINE c == a \o b
<1>4. RemoveAt(asked, i) = c
  BY DEF RemoveAt
<1> HIDE DEF a, b
<1>5. Len(a) + Len(b) = Len(asked) - 1
  BY <1>1, <1>2, <1>3
<1>6. c \in Seq(Loads) /\ Len(c) = Len(a) + Len(b) /\ DOMAIN c = 1..Len(c)
  BY <1>2, <1>3, ConcatFacts
<1>7. /\ \A k \in 1..Len(a) : c[k] = a[k]
      /\ \A k \in 1..Len(b) : c[Len(a) + k] = b[k]
  <2>1. a \in Seq(Loads) /\ b \in Seq(Loads)
    BY <1>2, <1>3
  <2> QED BY <2>1, ConcatFacts
<1> HIDE DEF c
<1>8. ASSUME NEW k \in 1..(Len(asked) - 1)
      PROVE  c[k] = IF k < i THEN asked[k] ELSE asked[k + 1]
  <2>1. CASE k < i
    BY <1>1, <1>2, <1>7, <2>1
  <2>2. CASE ~(k < i)
    <3>1. k - (i - 1) \in 1..Len(b) /\ k = Len(a) + (k - (i - 1)) /\ i + (k - (i - 1)) = k + 1
      BY <1>1, <1>2, <1>3, <2>2
    <3>2. c[k] = b[k - (i - 1)] /\ b[k - (i - 1)] = asked[k + 1]
      BY <1>3, <1>7, <3>1
    <3> QED BY <2>2, <3>2
  <2> QED BY <2>1, <2>2
<1>9. c \in Seq(Loads) /\ Len(c) = Len(asked) - 1 /\ DOMAIN c = 1..(Len(asked) - 1)
  BY <1>5, <1>6
<1> QED BY <1>1, <1>4, <1>8, <1>9

---------------------------------------------------------------------------
(* Every action preserves the invariant.                                   *)

\* A load of what is picked for each part makes all parts follow.
LEMMA AskKeeps ==
    ASSUME ViewTypeInv, viewer' = viewer, NEW sel \in AskedSels, asked' = AskFor(sel)
    PROVE  /\ asked' \in Seq(Loads)
           /\ \A i \in DOMAIN asked' : asked'[i].stage = "marking" => viewer = "inbox"
           /\ (\A i \in DOMAIN asked : asked[i].stage \in {"sent", "ok"})
                => \A i \in DOMAIN asked' : asked'[i].stage \in {"sent", "ok"}
           /\ picked' = sel => \A part \in Viewed.parts : Follows(part)'
<1> DEFINE n == Len(asked)
           m == Len(asked')
<1>1. /\ asked' \in Seq(Loads) /\ n \in Nat /\ m \in Nat
      /\ DOMAIN asked = 1..n /\ DOMAIN asked' = 1..m /\ n <= m
      /\ \A i \in 1..n : asked'[i] = asked[i]
      /\ \A i \in (n + 1)..m : asked'[i].sel = sel /\ asked'[i].stage = "sent"
      /\ \A part \in Viewed.parts : \E i \in (n + 1)..m : asked'[i].part = part
  <2>1. viewer \in AllViewers /\ asked \in Seq(Loads)
    BY DEF ViewTypeInv
  <2> HIDE DEF Loads, AskedSels
  <2> QED BY <2>1, AskForFacts
<1> HIDE DEF n, m
<1>2. \A i \in 1..m : i \in 1..n \/ i \in (n + 1)..m
  BY <1>1
<1>3. \A i \in DOMAIN asked' : asked'[i].stage = "marking" => viewer = "inbox"
  BY <1>1, <1>2 DEF ViewTypeInv
<1>4. (\A i \in DOMAIN asked : asked[i].stage \in {"sent", "ok"})
        => \A i \in DOMAIN asked' : asked'[i].stage \in {"sent", "ok"}
  BY <1>1, <1>2
<1>5. ASSUME picked' = sel, NEW part \in Viewed.parts
      PROVE  Follows(part)'
  <2>1. PICK k \in (n + 1)..m : asked'[k].part = part
    BY <1>1
  <2>2. k \in DOMAIN asked' /\ \A j \in DOMAIN asked' : j >= k => asked'[j].sel = picked'
    BY <1>1, <1>5, <2>1
  <2> QED BY <2>1, <2>2 DEF Follows
<1> QED BY <1>1, <1>3, <1>4, <1>5

\* A step that only picks, and asks for it.
LEMMA PickAndAsk ==
    ASSUME ViewInv, viewer' = viewer, debounce' = debounce, onScreen' = onScreen,
           viewRows' = viewRows, viewFaults' = viewFaults, overtaken' = overtaken,
           picked' \in AskedSels, Viewed.asks \in {"pick", "poll"},
           \/ asked' = AskFor(picked')
           \/ asked' = asked /\ (Viewed.asks = "poll" \/ picked' = picked)
    PROVE  ViewInv'
<1>1. Viewed' = Viewed /\ Loads' = Loads
  BY DEF Viewed, Loads
<1>2. debounce = "none" /\ Viewed.asks \notin {"click", "typing"}
  BY DEF ViewInv, ViewTypeInv
<1>3. picked' \in Sels
  BY DEF Sels, AskedSels
<1>4. TitleIsTrue'
  BY <1>1, <1>2 DEF TitleIsTrue
<1>5. CASE asked' = AskFor(picked')
  <2>1. ViewTypeInv'
    BY <1>1, <1>2, <1>3, <1>5, AskKeeps DEF ViewInv, ViewTypeInv
  <2>2. FollowInv'
    BY <1>1, <1>2, <1>5, AskKeeps DEF ViewInv, FollowInv
  <2> QED BY <1>4, <2>1, <2>2 DEF ViewInv
<1>6. CASE asked' = asked
  <2>1. ViewTypeInv'
    BY <1>1, <1>2, <1>3, <1>6 DEF ViewInv, ViewTypeInv
  <2>2. FollowInv'
    <3>1. CASE Viewed.asks = "poll"
      BY <1>1, <3>1 DEF FollowInv
    <3>2. CASE picked' = picked
      <4>1. ASSUME NEW part \in Viewed.parts, Follows(part)
            PROVE  Follows(part)'
        BY <1>6, <3>2, <4>1 DEF Follows, NotAsked
      <4> QED BY <1>1, <1>2, <1>6, <3>2, <4>1 DEF ViewInv, FollowInv
    <3> QED BY <1>5, <3>1, <3>2 DEF ViewInv
  <2> QED BY <1>4, <2>1, <2>2 DEF ViewInv
<1> QED BY <1>5, <1>6

\* What leaves the loads, the choice and the screen alone.
LEMMA ViewFrame ==
    ASSUME ViewInv, viewer' = viewer, picked' = picked, onScreen' = onScreen, title' = title,
           asked' = asked, debounce' = debounce, viewRows' \in [ViewChoices -> Nat],
           overtaken' = overtaken, viewFaults' = viewFaults
    PROVE  ViewInv'
<1>1. Viewed' = Viewed /\ Loads' = Loads
  BY DEF Viewed, Loads
<1>2. ViewTypeInv' /\ TitleIsTrue'
  BY <1>1 DEF ViewInv, ViewTypeInv, TitleIsTrue
<1>3. FollowInv'
  BY <1>1 DEF ViewInv, FollowInv, Follows, NotAsked
<1> QED BY <1>2, <1>3 DEF ViewInv

\* Choosing, turning the page, the refresh of the audit trail and the poll.
LEMMA PickInv ==
    ASSUME ViewInv, NEW c \in ViewChoices, Pick(c)
    PROVE  ViewInv'
<1> DEFINE sel == [what |-> c, page |-> 0]
<1>1. /\ UNCHANGED <<viewer, onScreen, debounce, viewRows, viewFaults, overtaken>>
      /\ picked' = sel /\ c # picked.what /\ Viewed.asks \in {"pick", "poll"}
      /\ asked' = IF Viewed.asks = "pick" /\ sel # picked THEN AskFor(sel) ELSE asked
  BY DEF Pick, Effect, controls
<1>2. sel \in AskedSels /\ sel # picked
  BY <1>1 DEF AskedSels
<1> HIDE DEF sel
<1> QED BY <1>1, <1>2, PickAndAsk

LEMMA TurnInv ==
    ASSUME ViewInv, NextPage \/ PreviousPage
    PROVE  ViewInv'
<1>1. PICK p \in Nat : TurnTo(p)
  <2>1. picked.page \in Nat
    BY DEF ViewInv, ViewTypeInv, Sels
  <2>2. CASE NextPage
    BY <2>1, <2>2 DEF NextPage
  <2>3. CASE PreviousPage
    <3>1. picked.page - 1 \in Nat
      BY <2>1, <2>3 DEF PreviousPage
    <3> QED BY <2>3, <3>1 DEF PreviousPage
  <2> QED BY <2>2, <2>3
<1> DEFINE sel == [picked EXCEPT !.page = p]
<1>2. /\ UNCHANGED <<viewer, onScreen, debounce, viewRows, viewFaults, overtaken>>
      /\ picked' = sel /\ Viewed.pages
      /\ asked' = IF Viewed.asks = "pick" /\ sel # picked THEN AskFor(sel) ELSE asked
  BY <1>1 DEF TurnTo, Effect, controls
<1>3. viewer \in AllViewers /\ Viewed.asks = "pick"
  BY <1>2, ViewerFacts DEF ViewInv, ViewTypeInv
<1>4. picked \in AskedSels
  BY <1>3 DEF ViewInv, ViewTypeInv
<1>5. sel \in AskedSels
  BY <1>4 DEF AskedSels
<1> HIDE DEF sel
<1> QED BY <1>2, <1>3, <1>5, PickAndAsk

LEMMA PollViewInv ==
    ASSUME ViewInv, PollView
    PROVE  ViewInv'
<1>1. /\ UNCHANGED <<viewer, onScreen, debounce, viewRows, viewFaults, overtaken>>
      /\ picked' = picked /\ Viewed.polls /\ asked' = AskFor(picked)
  BY DEF PollView, controls
<1>2. viewer \in AllViewers /\ Viewed.asks \in {"pick", "poll"}
  <2>1. viewer \in AllViewers
    BY DEF ViewInv, ViewTypeInv
  <2> QED BY <1>1, <2>1, ViewerFacts
<1>3. picked \in AskedSels
  BY <1>2 DEF ViewInv, ViewTypeInv
<1> QED BY <1>1, <1>2, <1>3, PickAndAsk

LEMMA RefreshInv ==
    ASSUME ViewInv, RefreshAudit
    PROVE  ViewInv'
<1> DEFINE top == [picked EXCEPT !.page = 0]
           last == LoadOf("stats", top)
           q == AskFor(picked)
<1>1. /\ UNCHANGED <<viewer, onScreen, debounce, viewRows, viewFaults, overtaken, title>>
      /\ viewer = "audit" /\ picked' = top
      /\ asked' = IF picked.page = 0 THEN q ELSE q \o <<last>>
  BY DEF RefreshAudit, controls
<1>2. viewer \in AllViewers /\ asked \in Seq(Loads)
  BY DEF ViewInv, ViewTypeInv
<1>3. Viewed.asks = "pick" /\ Viewed.parts = {"stats"}
  BY <1>1, <1>2, ViewerFacts
<1>4. picked \in AskedSels
  BY <1>3 DEF ViewInv, ViewTypeInv
<1>5. top \in AskedSels /\ (picked.page = 0 => top = picked)
  BY <1>4 DEF AskedSels
<1>6. last \in Loads /\ last.part = "stats" /\ last.sel = top /\ last.stage = "sent"
  BY <1>3, <1>5 DEF LoadOf, Loads
<1> HIDE DEF top, last
<1>7. CASE picked.page = 0
  <2>1. asked' = AskFor(picked') /\ picked' \in AskedSels
    BY <1>1, <1>5, <1>7
  <2> QED BY <1>1, <1>3, <2>1, PickAndAsk
<1>8. CASE picked.page # 0
  <2>1. /\ q \in Seq(Loads) /\ Len(q) \in Nat /\ DOMAIN q = 1..Len(q)
        /\ Len(asked) \in Nat /\ DOMAIN asked = 1..Len(asked)
        /\ \A i \in 1..Len(asked) : q[i] = asked[i]
        /\ \A i \in (Len(asked) + 1)..Len(q) : q[i].stage = "sent"
    BY <1>2, <1>4, AskForFacts
  <2> HIDE DEF q
  <2>2. <<last>> \in Seq(Loads) /\ Len(<<last>>) = 1 /\ <<last>>[1] = last
    BY <1>6
  <2>3. /\ asked' \in Seq(Loads) /\ DOMAIN asked' = 1..(Len(q) + 1)
        /\ asked'[Len(q) + 1] = last /\ \A i \in 1..Len(q) : asked'[i] = q[i]
    <3>1. asked' = q \o <<last>>
      BY <1>1, <1>8
    <3> QED BY <2>1, <2>2, <3>1, ConcatFacts
  <2>4. \A i \in DOMAIN asked' :
           asked'[i].stage = "sent" \/ (i \in DOMAIN asked /\ asked'[i] = asked[i])
    <3>1. ASSUME NEW i \in 1..(Len(q) + 1)
          PROVE  asked'[i].stage = "sent" \/ (i \in DOMAIN asked /\ asked'[i] = asked[i])
      <4>1. CASE i = Len(q) + 1
        BY <1>6, <2>3, <4>1
      <4>2. CASE i \in (Len(asked) + 1)..Len(q)
        BY <2>1, <2>3, <4>2
      <4>3. CASE i \in 1..Len(asked) /\ i \in 1..Len(q)
        BY <2>1, <2>3, <4>3
      <4>4. i = Len(q) + 1 \/ i \in (Len(asked) + 1)..Len(q) \/ (i \in 1..Len(asked) /\ i \in 1..Len(q))
        BY <2>1
      <4> QED BY <4>1, <4>2, <4>3, <4>4
    <3> QED BY <2>3, <3>1
  <2>5. Viewed' = Viewed /\ Loads' = Loads
    BY <1>1 DEF Viewed, Loads
  <2>6. picked' \in AskedSels /\ picked' \in Sels
    BY <1>1, <1>5 DEF Sels, AskedSels
  <2>7. ViewTypeInv'
    BY <1>1, <2>3, <2>4, <2>5, <2>6 DEF ViewInv, ViewTypeInv
  <2>8. Follows("stats")'
    <3>1. Len(q) + 1 \in DOMAIN asked' /\ asked'[Len(q) + 1].part = "stats"
      BY <1>6, <2>1, <2>3
    <3>2. \A j \in DOMAIN asked' : j >= Len(q) + 1 => asked'[j].sel = picked'
      BY <1>1, <1>6, <2>1, <2>3
    <3> QED BY <3>1, <3>2 DEF Follows
  <2>9. FollowInv'
    <3>1. debounce' = "none"
      BY <1>1, <1>3 DEF ViewInv, ViewTypeInv
    <3> QED BY <1>1, <1>3, <2>4, <2>5, <2>8, <3>1 DEF ViewInv, FollowInv
  <2> QED BY <1>3, <2>5, <2>7, <2>9 DEF ViewInv, TitleIsTrue
<1> QED BY <1>7, <1>8

\* The inbox loads when the poll fires; its marks and loads change no other
\* viewer.
LEMMA InboxKeeps ==
    ASSUME ViewInv, viewer = "inbox", viewer' = viewer, picked' = picked, onScreen' = onScreen,
           asked' \in Seq(Loads), debounce' = debounce, viewRows' \in [ViewChoices -> Nat],
           viewFaults' \in Nat
    PROVE  ViewInv'
<1>1. Viewed' = Viewed /\ Loads' = Loads
  BY DEF Viewed, Loads
<1>2. viewer \in AllViewers /\ Viewed.asks = "poll"
  <2>1. viewer \in AllViewers
    BY DEF ViewInv, ViewTypeInv
  <2> QED BY <2>1, ViewerFacts
<1>3. ViewTypeInv'
  BY <1>1 DEF ViewInv, ViewTypeInv
<1> QED BY <1>1, <1>2, <1>3 DEF ViewInv, FollowInv, TitleIsTrue

LEMMA MarkReadInv ==
    ASSUME ViewInv, NEW n \in Nat, MarkRead(n)
    PROVE  ViewInv'
<1> DEFINE row == [LoadOf("stats", picked) EXCEPT !.stage = "marking", !.rows = n]
<1>1. /\ UNCHANGED <<viewer, picked, onScreen, debounce, viewRows, viewFaults>>
      /\ viewer = "inbox" /\ asked' = Append(asked, row)
  BY DEF MarkRead, controls
<1>2. viewer \in AllViewers /\ asked \in Seq(Loads) /\ viewRows \in [ViewChoices -> Nat]
      /\ viewFaults \in Nat
  BY DEF ViewInv, ViewTypeInv
<1>3. Viewed.parts = {"stats"} /\ Viewed.asks = "poll"
  BY <1>1, <1>2, ViewerFacts
<1>4. picked \in AskedSels
  BY <1>3 DEF ViewInv, ViewTypeInv
<1>5. row \in Loads
  BY <1>3, <1>4 DEF LoadOf, Loads
<1> HIDE DEF row, Loads
<1>6. Append(asked, row) \in Seq(Loads)
  BY <1>2, <1>5
<1> QED BY <1>1, <1>2, <1>6, InboxKeeps

LEMMA RowsMarkedInv ==
    ASSUME ViewInv, NEW i \in DOMAIN asked,
           RowsMarked(i) \/ \E how \in Failures : MarkFails(i, how)
    PROVE  ViewInv'
<1> DEFINE rest == RemoveAt(asked, i)
           again == LoadOf("stats", asked[i].sel)
<1>1. /\ UNCHANGED <<viewer, picked, onScreen, debounce>>
      /\ asked[i].stage = "marking"
      /\ asked' = Append(rest, again) \/ asked' = rest
  BY DEF RowsMarked, MarkFails, LoadAfterMark
<1>2. /\ viewer \in AllViewers /\ asked \in Seq(Loads) /\ viewRows \in [ViewChoices -> Nat]
      /\ viewFaults \in Nat /\ viewer = "inbox"
  BY <1>1 DEF ViewInv, ViewTypeInv
<1>3. Viewed.parts = {"stats"}
  BY <1>2, ViewerFacts
<1>4. asked[i] \in Loads
  <2> HIDE DEF Loads
  <2> QED BY <1>2
<1>5. again \in Loads
  BY <1>3, <1>4 DEF LoadOf, Loads
<1>6. rest \in Seq(Loads)
  BY <1>2, RemovedFacts
<1>7. viewRows' \in [ViewChoices -> Nat] /\ viewFaults' \in Nat
  <2>1. CASE RowsMarked(i)
    <3>1. asked[i].rows \in Nat /\ asked[i].sel.what \in ViewChoices
      BY <1>4 DEF Loads, AskedSels
    <3>2. /\ viewFaults' = viewFaults
          /\ viewRows' = [viewRows EXCEPT ![asked[i].sel.what] =
                            IF @ > asked[i].rows THEN @ - asked[i].rows ELSE 0]
      BY <2>1 DEF RowsMarked
    <3> QED BY <1>2, <3>1, <3>2
  <2>2. CASE \E how \in Failures : MarkFails(i, how)
    BY <1>2, <2>2 DEF MarkFails
  <2> QED BY <2>1, <2>2
<1> HIDE DEF rest, again, Loads
<1>8. asked' \in Seq(Loads)
  BY <1>1, <1>5, <1>6
<1> QED BY <1>1, <1>2, <1>7, <1>8, InboxKeeps

\* The search: typing, the end of the pause, and a click on a result.
LEMMA TypeInv ==
    ASSUME ViewInv, NEW q \in ViewChoices, Type(q)
    PROVE  ViewInv'
<1>1. /\ UNCHANGED <<viewer, onScreen, asked, viewRows, viewFaults, overtaken>>
      /\ picked' = [what |-> q, page |-> 0] /\ debounce' = q
      /\ Viewed.asks = "typing"
  BY DEF Type
<1>2. Viewed' = Viewed /\ Loads' = Loads
  BY <1>1 DEF Viewed, Loads
<1>3. picked' \in Sels /\ picked' \in AskedSels
  BY <1>1 DEF Sels, AskedSels
<1>4. debounce' # "none"
  BY <1>1, ViewersAssumption
<1>5. ViewTypeInv'
  BY <1>1, <1>2, <1>3 DEF ViewInv, ViewTypeInv
<1>6. FollowInv'
  BY <1>1, <1>2, <1>4 DEF ViewInv, FollowInv
<1> QED BY <1>1, <1>2, <1>5, <1>6 DEF ViewInv, TitleIsTrue

\* A search that is cleared shows what the empty query picked.
LEMMA ClearedKeeps ==
    ASSUME ViewInv, Viewed.asks = "typing", viewer' = viewer, asked' = asked,
           picked' \in AskedSels, debounce' \in {debounce, "none"}, viewRows' = viewRows,
           viewFaults' = viewFaults,
           onScreen' = [p \in Viewed.parts |-> [what |-> "short", page |-> 0]],
           ~overtaken' => /\ asked = <<>> /\ debounce' = "none" /\ ~overtaken
                          /\ viewFaults = 0 => picked' = [what |-> "short", page |-> 0]
    PROVE  ViewInv'
<1>1. Viewed' = Viewed /\ Loads' = Loads
  BY DEF Viewed, Loads
<1>2. picked' \in Sels /\ [what |-> "short", page |-> 0] \in Sels
  BY ViewersAssumption DEF Sels, AskedSels
<1>3. ViewTypeInv'
  BY <1>1, <1>2 DEF ViewInv, ViewTypeInv
<1>4. ASSUME ~overtaken', viewFaults' = 0, NEW part \in Viewed.parts
      PROVE  Follows(part)'
  <2>1. DOMAIN asked' = {} /\ onScreen'[part] = picked'
    BY <1>4
  <2> QED BY <2>1 DEF Follows, NotAsked
<1>5. FollowInv'
  <2>1. ~overtaken' => debounce' = "none" /\ DOMAIN asked' = {}
    OBVIOUS
  <2> QED BY <1>1, <1>4, <2>1 DEF FollowInv
<1> QED BY <1>1, <1>3, <1>5 DEF ViewInv, TitleIsTrue

LEMMA DoSearchInv ==
    ASSUME ViewInv, DoSearch
    PROVE  ViewInv'
<1>1. /\ UNCHANGED <<viewer, picked, viewRows, viewFaults, title>>
      /\ debounce # "none" /\ debounce' = "none"
  BY DEF DoSearch
<1>2. Viewed.asks = "typing" /\ picked \in AskedSels /\ debounce \in ViewChoices
  BY <1>1 DEF ViewInv, ViewTypeInv
<1>3. CASE debounce = "short"
  <2>1. /\ onScreen' = [p \in Viewed.parts |-> [what |-> "short", page |-> 0]]
        /\ asked' = asked /\ overtaken' = (overtaken \/ asked # <<>>)
    BY <1>3 DEF DoSearch, TooShort
  <2>2. ~overtaken /\ viewFaults = 0 => picked = [what |-> "short", page |-> 0]
    BY <1>1, <1>2, <1>3 DEF ViewInv, FollowInv
  <2>3. ~overtaken' => /\ asked = <<>> /\ debounce' = "none" /\ ~overtaken
                       /\ viewFaults = 0 => picked' = [what |-> "short", page |-> 0]
    BY <1>1, <2>1, <2>2
  <2> QED BY <1>1, <1>2, <2>1, <2>3, ClearedKeeps
<1>4. CASE debounce # "short"
  <2> DEFINE sel == [what |-> debounce, page |-> 0]
  <2>1. asked' = AskFor(sel) /\ UNCHANGED <<onScreen, overtaken>>
    BY <1>4 DEF DoSearch, TooShort
  <2>2. sel \in AskedSels
    BY <1>2 DEF AskedSels
  <2>3. ~overtaken /\ viewFaults = 0 => picked' = sel
    BY <1>1, <1>2 DEF ViewInv, FollowInv
  <2> HIDE DEF sel
  <2>4. Viewed' = Viewed /\ Loads' = Loads
    BY <1>1 DEF Viewed, Loads
  <2>5. /\ asked' \in Seq(Loads)
        /\ \A i \in DOMAIN asked' : asked'[i].stage = "marking" => viewer = "inbox"
        /\ (\A i \in DOMAIN asked : asked[i].stage \in {"sent", "ok"})
             => \A i \in DOMAIN asked' : asked'[i].stage \in {"sent", "ok"}
        /\ picked' = sel => \A part \in Viewed.parts : Follows(part)'
    BY <1>1, <2>1, <2>2, AskKeeps DEF ViewInv
  <2>6. ViewTypeInv'
    BY <1>1, <2>1, <2>4, <2>5 DEF ViewInv, ViewTypeInv
  <2>7. FollowInv'
    BY <1>1, <1>2, <2>1, <2>3, <2>4, <2>5 DEF ViewInv, FollowInv
  <2> QED BY <1>2, <2>4, <2>6, <2>7 DEF ViewInv, TitleIsTrue
<1> QED BY <1>3, <1>4

LEMMA ResultClickInv ==
    ASSUME ViewInv, ResultClick
    PROVE  ViewInv'
<1>1. /\ UNCHANGED <<viewer, asked, viewRows, viewFaults, debounce>>
      /\ Viewed.asks = "typing" /\ picked' = [what |-> "short", page |-> 0]
      /\ onScreen' = [p \in Viewed.parts |-> [what |-> "short", page |-> 0]]
      /\ overtaken' = (overtaken \/ asked # <<>> \/ debounce # "none")
  BY DEF ResultClick, controls
<1>2. picked' \in AskedSels
  BY <1>1, ViewersAssumption DEF AskedSels
<1> QED BY <1>1, <1>2, ClearedKeeps

\* The server: an answer or a failure leaves the load where it is.
LEMMA ServedKeeps ==
    ASSUME ViewInv, UNCHANGED <<viewer, picked, onScreen, title, debounce, viewRows, overtaken>>,
           NEW i \in DOMAIN asked, NEW x \in Loads, asked' = [asked EXCEPT ![i] = x],
           asked[i].stage = "sent", x.part = asked[i].part, x.sel = asked[i].sel,
           \/ x.stage = "ok" /\ viewFaults' = viewFaults
           \/ x.stage \in {"refused", "lost"} /\ viewFaults' = viewFaults + 1
    PROVE  ViewInv'
<1>1. Viewed' = Viewed /\ Loads' = Loads
  BY DEF Viewed, Loads
<1>2. asked \in Seq(Loads) /\ viewFaults \in Nat
  BY DEF ViewInv, ViewTypeInv
<1>3. /\ asked' \in Seq(Loads) /\ DOMAIN asked' = DOMAIN asked
      /\ \A k \in DOMAIN asked : asked'[k] = IF k = i THEN x ELSE asked[k]
  <2> HIDE DEF Loads
  <2> QED BY <1>2
<1>4. \A k \in DOMAIN asked : asked'[k].part = asked[k].part /\ asked'[k].sel = asked[k].sel
  BY <1>3
<1>5. \A k \in DOMAIN asked' : asked'[k].stage = "marking" => asked[k].stage = "marking"
  BY <1>3
<1>6. ViewTypeInv'
  BY <1>1, <1>2, <1>3, <1>5 DEF ViewInv, ViewTypeInv
<1>7. ASSUME NEW part, Follows(part)
      PROVE  Follows(part)'
  <2>1. CASE NotAsked(part) /\ onScreen[part] = picked
    BY <1>3, <1>4, <2>1 DEF Follows, NotAsked
  <2>2. CASE \E k \in DOMAIN asked :
               /\ asked[k].part = part
               /\ \A j \in DOMAIN asked : j >= k /\ asked[j].part = part
                                           => asked[j].sel = picked
    <3>1. PICK k \in DOMAIN asked :
               /\ asked[k].part = part
               /\ \A j \in DOMAIN asked : j >= k /\ asked[j].part = part
                                           => asked[j].sel = picked
      BY <2>2
    <3>2. /\ asked'[k].part = part /\ k \in DOMAIN asked'
          /\ \A j \in DOMAIN asked' : j >= k /\ asked'[j].part = part
                                       => asked'[j].sel = picked'
      BY <1>3, <1>4, <3>1
    <3> QED BY <3>2 DEF Follows
  <2> QED BY <1>7, <2>1, <2>2 DEF Follows
<1>8. viewFaults' = 0 => viewFaults = 0 /\ x.stage = "ok"
  BY <1>2
<1>9. FollowInv'
  <2> SUFFICES ASSUME Viewed.asks \in {"pick", "typing"}, ~overtaken, viewFaults' = 0
               PROVE  FollowInv'
    BY <1>1 DEF FollowInv
  <2>1. /\ debounce # "none" => picked = [what |-> debounce, page |-> 0]
        /\ debounce = "none" => \A part \in Viewed.parts : Follows(part)
        /\ \A k \in DOMAIN asked : asked[k].stage \in {"sent", "ok"}
    BY <1>8 DEF ViewInv, FollowInv
  <2>2. \A k \in DOMAIN asked' : asked'[k].stage \in {"sent", "ok"}
    BY <1>3, <1>8, <2>1
  <2> QED BY <1>1, <1>7, <2>1, <2>2 DEF FollowInv
<1> QED BY <1>1, <1>6, <1>9 DEF ViewInv, TitleIsTrue

LEMMA ServerAnswersInv ==
    ASSUME ViewInv, NEW i \in DOMAIN asked,
           ServerAnswers(i) \/ \E how \in Failures : LoadFails(i, how)
    PROVE  ViewInv'
<1>1. asked \in Seq(Loads) /\ viewRows \in [ViewChoices -> Nat]
  BY DEF ViewInv, ViewTypeInv
<1>2. asked[i] \in Loads
  <2> HIDE DEF Loads
  <2> QED BY <1>1
<1>3. CASE ServerAnswers(i)
  <2> DEFINE x == [asked[i] EXCEPT !.stage = "ok", !.rows = viewRows[asked[i].sel.what]]
  <2>1. /\ UNCHANGED <<viewer, picked, onScreen, title, debounce, viewRows, overtaken, viewFaults>>
        /\ asked[i].stage = "sent"
        /\ asked' = [asked EXCEPT ![i].stage = "ok", ![i].rows = viewRows[asked[i].sel.what]]
    BY <1>3 DEF ServerAnswers, RowsOf
  <2>2. asked' = [asked EXCEPT ![i] = x]
    BY <1>1, <2>1
  <2>3. /\ x \in Loads /\ x.part = asked[i].part /\ x.sel = asked[i].sel /\ x.stage = "ok"
    BY <1>1, <1>2 DEF Loads, AskedSels
  <2> HIDE DEF x, Loads
  <2> QED BY <2>1, <2>2, <2>3, ServedKeeps
<1>4. CASE \E how \in Failures : LoadFails(i, how)
  <2>1. PICK how \in {"refused", "lost"} : LoadFails(i, how)
    BY <1>4 DEF Failures
  <2> DEFINE x == [asked[i] EXCEPT !.stage = how]
  <2>2. /\ UNCHANGED <<viewer, picked, onScreen, title, debounce, viewRows, overtaken>>
        /\ asked[i].stage = "sent" /\ viewFaults' = viewFaults + 1
        /\ asked' = [asked EXCEPT ![i] = x]
    BY <2>1 DEF LoadFails
  <2>3. /\ x \in Loads /\ x.part = asked[i].part /\ x.sel = asked[i].sel
        /\ x.stage \in {"refused", "lost"}
    BY <1>2 DEF Loads
  <2> HIDE DEF x, Loads
  <2> QED BY <2>2, <2>3, ServedKeeps
<1> QED BY <1>3, <1>4 DEF Failures

\* loadJobDetail asks, and selects nothing yet.
LEMMA ClickRowInv ==
    ASSUME ViewInv, NEW c \in ViewChoices, ClickRow(c)
    PROVE  ViewInv'
<1> DEFINE sel == [what |-> c, page |-> 0]
<1>1. /\ UNCHANGED <<viewer, picked, onScreen, title, debounce, viewRows, viewFaults>>
      /\ Viewed.asks = "click" /\ asked' = AskFor(sel)
  BY DEF ClickRow, TitleMeanwhile, controls
<1>2. sel \in AskedSels
  BY DEF AskedSels
<1> HIDE DEF sel
<1>3. Viewed' = Viewed /\ Loads' = Loads
  BY <1>1 DEF Viewed, Loads
<1>4. /\ asked' \in Seq(Loads)
      /\ \A i \in DOMAIN asked' : asked'[i].stage = "marking" => viewer = "inbox"
  BY <1>1, <1>2, AskKeeps DEF ViewInv
<1>5. ViewTypeInv'
  BY <1>1, <1>3, <1>4 DEF ViewInv, ViewTypeInv
<1> QED BY <1>1, <1>3, <1>5 DEF ViewInv, FollowInv, TitleIsTrue

\* An answer replaces what its part shows, and is gone.
LEMMA AnswerComesInv ==
    ASSUME ViewInv, NEW i \in DOMAIN asked, AnswerComes(i)
    PROVE  ViewInv'
<1> DEFINE r == asked[i]
           rest == RemoveAt(asked, i)
<1>1. /\ UNCHANGED <<viewer, viewRows, debounce, viewFaults>>
      /\ r.stage \notin {"sent", "marking"}
      /\ onScreen' = [onScreen EXCEPT ![r.part] = AnswerShown(r)]
      /\ \/ /\ Viewed.asks = "click" /\ r.stage = "ok"
            /\ picked' = r.sel /\ title' = r.sel.what
         \/ /\ Viewed.asks # "click" \/ r.stage # "ok"
            /\ picked' = picked /\ title' = title
      /\ asked' = rest
      /\ overtaken' = (overtaken \/ \E k \in 1..(i - 1) : asked[k].part = r.part)
  BY DEF AnswerComes, controls
<1>2. /\ viewer \in AllViewers /\ asked \in Seq(Loads)
      /\ onScreen \in [Viewed.parts -> Sels]
  BY DEF ViewInv, ViewTypeInv
<1>3. /\ r \in Loads /\ Len(asked) \in Nat /\ DOMAIN asked = 1..Len(asked) /\ i \in 1..Len(asked)
  <2> HIDE DEF Loads
  <2> QED BY <1>2
<1>4. /\ rest \in Seq(Loads) /\ DOMAIN rest = 1..(Len(asked) - 1)
      /\ \A k \in 1..(Len(asked) - 1) : rest[k] = IF k < i THEN asked[k] ELSE asked[k + 1]
  BY <1>2, RemovedFacts
<1>5. r.part \in Viewed.parts /\ r.sel \in AskedSels /\ r.sel \in Sels
      /\ r.stage \in {"ok", "refused", "lost"}
  BY <1>1, <1>3 DEF Loads, AskedSels, Sels
<1> HIDE DEF r, rest
<1>6. Viewed' = Viewed /\ Loads' = Loads
  BY <1>1 DEF Viewed, Loads
<1>7. AnswerShown(r) \in Sels
  BY <1>2, <1>5 DEF AnswerShown, Nothing, Sels
<1>8. onScreen' \in [Viewed.parts -> Sels]
  BY <1>1, <1>2, <1>5, <1>7
<1>9. \A k \in DOMAIN asked' : \E j \in DOMAIN asked : asked'[k] = asked[j]
  <2> SUFFICES ASSUME NEW k \in 1..(Len(asked) - 1)
               PROVE  \E j \in DOMAIN asked : rest[k] = asked[j]
    BY <1>1, <1>4
  <2>1. k \in DOMAIN asked /\ k + 1 \in DOMAIN asked
    BY <1>3
  <2> QED BY <1>4, <2>1
<1>10. ViewTypeInv'
  <2>1. picked' \in Sels /\ (Viewed.asks # "click" => picked' \in AskedSels)
    BY <1>1, <1>5 DEF ViewInv, ViewTypeInv
  <2>2. \A k \in DOMAIN asked' : asked'[k].stage = "marking" => viewer = "inbox"
    BY <1>9 DEF ViewInv, ViewTypeInv
  <2> QED BY <1>1, <1>4, <1>6, <1>8, <2>1, <2>2 DEF ViewInv, ViewTypeInv
<1>11. TitleIsTrue'
  <2> SUFFICES ASSUME Viewed.asks = "click"
               PROVE  title' = onScreen'["stats"].what
    BY <1>6 DEF TitleIsTrue
  <2>1. Viewed.parts = {"stats"} /\ Viewed.failure = "kept" /\ title = onScreen["stats"].what
    BY <1>2, ViewerFacts DEF ViewInv, TitleIsTrue
  <2>2. r.part = "stats" /\ onScreen'["stats"] = AnswerShown(r)
    BY <1>1, <1>2, <1>5, <2>1
  <2>3. CASE r.stage = "ok"
    BY <1>1, <2>2, <2>3 DEF AnswerShown
  <2>4. CASE r.stage # "ok"
    <3>1. AnswerShown(r) = onScreen["stats"]
      BY <1>5, <2>1, <2>2, <2>4 DEF AnswerShown
    <3> QED BY <1>1, <2>1, <2>2, <2>4, <3>1
  <2> QED BY <2>3, <2>4
<1>12. FollowInv'
  <2> SUFFICES ASSUME Viewed.asks \in {"pick", "typing"}, ~overtaken', viewFaults' = 0
               PROVE  FollowInv'
    BY <1>6 DEF FollowInv
  <2>1. /\ ~overtaken /\ viewFaults = 0 /\ picked' = picked
        /\ \A k \in 1..(i - 1) : asked[k].part # r.part
    BY <1>1
  <2>2. /\ debounce # "none" => picked = [what |-> debounce, page |-> 0]
        /\ debounce = "none" => \A part \in Viewed.parts : Follows(part)
        /\ \A k \in DOMAIN asked : asked[k].stage \in {"sent", "ok"}
    BY <2>1 DEF ViewInv, FollowInv
  <2>3. \A k \in DOMAIN asked' : asked'[k].stage \in {"sent", "ok"}
    BY <1>9, <2>2
  <2>4. r.stage = "ok" /\ AnswerShown(r) = r.sel
    <3>1. r.stage = "ok"
      BY <1>3, <1>5, <2>2 DEF r
    <3> QED BY <3>1 DEF AnswerShown
  <2>5. ASSUME debounce = "none", NEW part \in Viewed.parts
        PROVE  Follows(part)'
    <3>1. CASE NotAsked(part) /\ onScreen[part] = picked
      <4>1. part # r.part
        BY <1>3, <3>1 DEF NotAsked, r
      <4>2. onScreen'[part] = picked'
        BY <1>1, <1>2, <2>1, <3>1, <4>1
      <4>3. NotAsked(part)'
        BY <1>9, <3>1 DEF NotAsked
      <4> QED BY <4>2, <4>3 DEF Follows
    <3>2. CASE \E k \in DOMAIN asked :
                 /\ asked[k].part = part
                 /\ \A j \in DOMAIN asked : j >= k /\ asked[j].part = part
                                             => asked[j].sel = picked
      <4>1. PICK k \in DOMAIN asked :
                 /\ asked[k].part = part
                 /\ \A j \in DOMAIN asked : j >= k /\ asked[j].part = part
                                             => asked[j].sel = picked
        BY <3>2
      <4>2. k \in Nat /\ k \in 1..Len(asked)
        BY <1>3
      <4>3. CASE part # r.part
        <5>1. k # i
          BY <4>1, <4>3 DEF r
        <5>2. PICK n \in 1..(Len(asked) - 1) : n = IF k < i THEN k ELSE k - 1
          BY <1>3, <4>2, <5>1
        <5>3. n \in DOMAIN asked' /\ asked'[n] = asked[k]
          BY <1>1, <1>3, <1>4, <4>2, <5>1, <5>2
        <5>4. ASSUME NEW j \in DOMAIN asked', j >= n, asked'[j].part = part
              PROVE  asked'[j].sel = picked'
          <6>1. PICK m \in DOMAIN asked : m >= j /\ (m = j + 1 \/ j < i) /\ asked'[j] = asked[m]
            <7>1. j \in 1..(Len(asked) - 1) /\ i \in Nat /\ j \in Nat
              BY <1>1, <1>3, <1>4
            <7>2. asked'[j] = IF j < i THEN asked[j] ELSE asked[j + 1]
              BY <1>1, <1>4, <7>1
            <7>3. j \in DOMAIN asked /\ j + 1 \in DOMAIN asked
              BY <1>3, <7>1
            <7>4. CASE j < i
              BY <7>1, <7>2, <7>3, <7>4
            <7>5. CASE ~(j < i)
              BY <7>1, <7>2, <7>3, <7>5
            <7> QED BY <7>4, <7>5
          <6>2. m >= k
            <7>1. i \in Nat /\ j \in Nat /\ m \in Nat /\ n \in Nat
              BY <1>1, <1>3, <1>4, <5>2, <6>1
            <7>2. CASE k < i
              BY <4>2, <5>2, <5>4, <6>1, <7>1, <7>2
            <7>3. CASE k > i
              BY <4>2, <5>2, <5>4, <6>1, <7>1, <7>3
            <7> QED BY <4>2, <5>1, <7>1, <7>2, <7>3
          <6> QED BY <2>1, <4>1, <5>4, <6>1, <6>2
        <5> QED BY <4>1, <5>3, <5>4 DEF Follows
      <4>4. CASE part = r.part
        <5>1. i <= k
          BY <1>3, <2>1, <4>1, <4>2, <4>4
        <5>2. ASSUME NEW j \in DOMAIN asked', asked'[j].part = part
              PROVE  asked'[j].sel = picked' \/ j < k
          <6>1. j >= i /\ j + 1 \in DOMAIN asked /\ asked'[j] = asked[j + 1]
            <7>1. i \in Nat /\ j \in 1..(Len(asked) - 1) /\ j \in Nat
              BY <1>1, <1>3, <1>4
            <7>2. asked'[j] = IF j < i THEN asked[j] ELSE asked[j + 1]
              BY <1>1, <1>4, <7>1
            <7>3. ~(j < i)
              <8> SUFFICES ASSUME j < i PROVE FALSE
                OBVIOUS
              <8>1. asked[j].part = r.part /\ j \in 1..(i - 1)
                BY <4>4, <5>2, <7>1, <7>2
              <8> QED BY <2>1, <8>1
            <7>4. j >= i
              BY <7>1, <7>3
            <7>5. j + 1 \in DOMAIN asked
              BY <1>3, <7>1
            <7> QED BY <7>2, <7>3, <7>4, <7>5
          <6>2. j \in Nat /\ picked' = picked /\ asked[j + 1].part = part
            BY <1>1, <1>4, <2>1, <5>2, <6>1
          <6>3. CASE j >= k
            <7>1. j + 1 >= k
              BY <4>2, <6>2, <6>3
            <7>2. asked[j + 1].sel = picked
              BY <4>1, <6>1, <6>2, <7>1
            <7> QED BY <6>1, <6>2, <7>2
          <6> QED BY <4>2, <6>2, <6>3
        <5>3. CASE i = k
          <6>1. asked[i].sel = picked /\ onScreen'[part] = picked'
            BY <1>1, <1>2, <2>1, <2>4, <4>1, <4>4, <5>3 DEF r
          <6>2. \A j \in DOMAIN asked' : asked'[j].part = part => j >= i
            BY <1>1, <1>3, <1>4, <2>1, <4>4
          <6>3. \A j \in DOMAIN asked' : asked'[j].part = part => asked'[j].sel = picked'
            <7> SUFFICES ASSUME NEW j \in DOMAIN asked', asked'[j].part = part
                         PROVE  asked'[j].sel = picked'
              OBVIOUS
            <7>1. j \in Nat /\ j >= k
              BY <1>1, <1>4, <5>3, <6>2
            <7> QED BY <4>2, <5>2, <7>1
          <6> QED BY <6>1, <6>3 DEF Follows, NotAsked
        <5>4. CASE i < k
          <6>1. k - 1 \in DOMAIN asked' /\ asked'[k - 1] = asked[k]
            BY <1>1, <1>3, <1>4, <4>2, <5>4
          <6>2. ASSUME NEW j \in DOMAIN asked', j >= k - 1, asked'[j].part = part
                PROVE  asked'[j].sel = picked'
            <7>1. j + 1 \in DOMAIN asked /\ asked'[j] = asked[j + 1] /\ j + 1 >= k
              BY <1>1, <1>3, <1>4, <4>2, <5>4, <6>2
            <7> QED BY <2>1, <4>1, <6>2, <7>1
          <6> QED BY <4>1, <6>1, <6>2 DEF Follows
        <5> QED BY <1>3, <4>2, <5>1, <5>3, <5>4
      <4> QED BY <4>3, <4>4
    <3> QED BY <2>2, <2>5, <3>1, <3>2 DEF Follows
  <2> QED BY <1>1, <1>6, <2>1, <2>2, <2>3, <2>5 DEF FollowInv
<1> QED BY <1>10, <1>11, <1>12 DEF ViewInv

\* Rows come and go, and polling is allowed or not.
LEMMA SurroundingsInv ==
    ASSUME ViewInv, (\E c \in ViewChoices : RowsChange(c)) \/ TogglePollable
    PROVE  ViewInv'
<1>1. /\ UNCHANGED <<viewer, picked, onScreen, title, asked, debounce, overtaken, viewFaults>>
      /\ viewRows' \in [ViewChoices -> Nat]
  <2>1. CASE TogglePollable
    BY <2>1 DEF ViewInv, ViewTypeInv, TogglePollable
  <2>2. CASE \E c \in ViewChoices : RowsChange(c)
    <3>1. PICK c \in ViewChoices : RowsChange(c)
      BY <2>2
    <3>2. UNCHANGED <<viewer, picked, onScreen, title, asked, debounce, overtaken, viewFaults>>
      BY <3>1 DEF RowsChange, controls
    <3>3. PICK n \in 0..MaxViewRows : viewRows' = [viewRows EXCEPT ![c] = n]
      BY <3>1 DEF RowsChange
    <3>4. n \in Nat /\ viewRows \in [ViewChoices -> Nat]
      BY ViewersAssumption DEF ViewInv, ViewTypeInv
    <3> QED BY <3>2, <3>3, <3>4
  <2> QED BY <2>1, <2>2
<1>2. Viewed' = Viewed /\ Loads' = Loads
  BY <1>1 DEF Viewed, Loads
<1>3. ViewTypeInv'
  BY <1>1, <1>2 DEF ViewInv, ViewTypeInv
<1>4. TitleIsTrue'
  BY <1>1, <1>2 DEF ViewInv, TitleIsTrue
<1>5. FollowInv'
  BY <1>1, <1>2 DEF ViewInv, FollowInv, Follows, NotAsked
<1> QED BY <1>3, <1>4, <1>5 DEF ViewInv

\* A panel that loads on its controls asks for the first choice when mounted.
LEMMA ViewInitInv ==
    ASSUME ViewInit
    PROVE  ViewInv
<1> DEFINE c0 == CHOOSE c \in ViewChoices : c # "short"
           first == [what |-> c0, page |-> 0]
           short == [what |-> "short", page |-> 0]
           start == IF Viewed.asks = "typing" THEN short
                    ELSE IF Viewed.asks = "click" THEN Nothing ELSE first
           new == [i \in DOMAIN PartsInOrder |-> LoadOf(PartsInOrder[i], start)]
<1>1. /\ viewer \in AllViewers /\ picked = start /\ title = start.what
      /\ asked = IF Viewed.asks \in {"pick", "poll"} THEN new ELSE <<>>
      /\ onScreen = [p \in Viewed.parts |-> IF Viewed.asks = "typing" THEN start ELSE Nothing]
      /\ debounce = "none" /\ viewFaults = 0 /\ overtaken = FALSE
      /\ viewRows \in [ViewChoices -> Nat]
  BY ViewersAssumption DEF ViewInit
<1>2. first \in AskedSels /\ short \in AskedSels
  <2>1. c0 \in ViewChoices /\ "short" \in ViewChoices
    BY ViewersAssumption
  <2> HIDE DEF c0
  <2> QED BY <2>1 DEF AskedSels
<1> HIDE DEF c0, first, short
<1>3. AskedSels \subseteq Sels /\ Nothing \in Sels
  BY DEF AskedSels, Sels, Nothing
<1>4. start \in Sels /\ (Viewed.asks # "click" => start \in AskedSels)
  BY <1>2, <1>3
<1> HIDE DEF start
<1>5. Viewed.asks \in {"pick", "poll"} => start \in AskedSels
  BY <1>4
<1>6. /\ Viewed.asks \in {"pick", "poll"}
           => /\ asked \in Seq(Loads) /\ \A i \in DOMAIN asked : asked[i].sel = start /\ asked[i].stage = "sent"
              /\ \A part \in Viewed.parts : \E i \in DOMAIN asked : asked[i].part = part
      /\ Viewed.asks \notin {"pick", "poll"} => asked = <<>>
  <2> SUFFICES ASSUME Viewed.asks \in {"pick", "poll"}
               PROVE  /\ asked \in Seq(Loads)
                      /\ \A i \in DOMAIN asked : asked[i].sel = start /\ asked[i].stage = "sent"
                      /\ \A part \in Viewed.parts : \E i \in DOMAIN asked : asked[i].part = part
    BY <1>1
  <2> DEFINE n == Len(PartsInOrder)
  <2>1. PartsInOrder \in Seq(Viewed.parts) /\ n \in Nat /\ DOMAIN PartsInOrder = 1..n
    BY <1>1, PartsFacts
  <2>2. \A i \in 1..n : PartsInOrder[i] \in Viewed.parts
    BY <2>1
  <2>3. \A part \in Viewed.parts : /\ LoadOf(part, start) \in Loads
                                   /\ LoadOf(part, start).sel = start
                                   /\ LoadOf(part, start).stage = "sent"
                                   /\ LoadOf(part, start).part = part
    BY <1>5 DEF LoadOf, Loads
  <2>4. asked = [i \in 1..n |-> LoadOf(PartsInOrder[i], start)]
    BY <1>1, <2>1
  <2>5. \A part \in Viewed.parts : \E i \in 1..n : PartsInOrder[i] = part
    BY <1>1, <2>1, PartsFacts
  <2> HIDE DEF n
  <2>6. asked \in [1..n -> Loads]
    BY <2>2, <2>3, <2>4
  <2>7. asked \in Seq(Loads) /\ DOMAIN asked = 1..n
    BY <2>1, <2>6, ListIsSeq
  <2>8. \A i \in 1..n : asked[i] = LoadOf(PartsInOrder[i], start)
    BY <2>4
  <2> QED BY <2>2, <2>3, <2>5, <2>7, <2>8
<1>7. asked \in Seq(Loads)
  BY <1>1, <1>6, ViewerFacts
<1>8. \A i \in DOMAIN asked : asked[i].stage = "sent"
  <2>1. CASE Viewed.asks \in {"pick", "poll"}
    BY <1>6, <2>1
  <2>2. CASE Viewed.asks \notin {"pick", "poll"}
    <3>1. asked = <<>>
      BY <1>6, <2>2
    <3> QED BY <3>1
  <2> QED BY <2>1, <2>2
<1>9. onScreen \in [Viewed.parts -> Sels]
  BY <1>1, <1>3, <1>4
<1>10. ViewTypeInv
  BY <1>1, <1>4, <1>7, <1>8, <1>9 DEF ViewTypeInv
<1>11. TitleIsTrue
  <2> SUFFICES ASSUME Viewed.asks = "click"
               PROVE  title = onScreen["stats"].what
    BY DEF TitleIsTrue
  <2>1. Viewed.parts = {"stats"}
    BY <1>1, ViewerFacts
  <2>2. onScreen["stats"] = Nothing /\ start = Nothing
    BY <1>1, <2>1 DEF start
  <2> QED BY <1>1, <2>2
<1>12. FollowInv
  <2> SUFFICES ASSUME Viewed.asks \in {"pick", "typing"}, NEW part \in Viewed.parts
               PROVE  Follows(part)
    BY <1>1, <1>8 DEF FollowInv
  <2>1. CASE Viewed.asks = "pick"
    <3>1. PICK k \in DOMAIN asked : asked[k].part = part
      BY <1>6, <2>1
    <3> QED BY <1>1, <1>6, <2>1, <3>1 DEF Follows
  <2>2. CASE Viewed.asks = "typing"
    <3>1. asked = <<>> /\ onScreen[part] = picked
      BY <1>1, <2>2
    <3> QED BY <3>1 DEF Follows, NotAsked
  <2> QED BY <2>1, <2>2
<1> QED BY <1>10, <1>11, <1>12 DEF ViewInv

LEMMA ViewNextInv ==
    ASSUME ViewInv, ViewNext
    PROVE  ViewInv'
<1>1. CASE \E q \in ViewChoices : Type(q)
  BY <1>1, TypeInv
<1>2. CASE \E c \in ViewChoices \ {"short"} : Pick(c) \/ ClickRow(c) \/ RowsChange(c)
  BY <1>2, PickInv, ClickRowInv, SurroundingsInv
<1>3. CASE NextPage \/ PreviousPage
  BY <1>3, TurnInv
<1>4. CASE RefreshAudit \/ PollView
  BY <1>4, RefreshInv, PollViewInv
<1>5. CASE \E n \in {1, MaxViewRows} : MarkRead(n)
  <2>1. 1 \in Nat /\ MaxViewRows \in Nat
    BY ViewersAssumption
  <2> QED BY <1>5, <2>1, MarkReadInv
<1>6. CASE DoSearch \/ ResultClick \/ TogglePollable
  BY <1>6, DoSearchInv, ResultClickInv, SurroundingsInv
<1>7. CASE \E i \in DOMAIN asked :
             ServerAnswers(i) \/ RowsMarked(i) \/ AnswerComes(i)
               \/ \E how \in Failures : LoadFails(i, how) \/ MarkFails(i, how)
  BY <1>7, ServerAnswersInv, RowsMarkedInv, AnswerComesInv
<1> QED BY <1>1, <1>2, <1>3, <1>4, <1>5, <1>6, <1>7 DEF ViewNext

\* A viewer at rest shows what its controls and titles say, whatever is picked,
\* typed, clicked and polled while answers are on their way and come in any order.
THEOREM ViewersCorrect == ViewSpec => []ViewersSafe
<1>1. ViewInit => ViewInv
  BY ViewInitInv
<1>2. ViewInv /\ [ViewNext]_viewVars => ViewInv'
  <2> SUFFICES ASSUME ViewInv, [ViewNext]_viewVars
               PROVE  ViewInv'
    OBVIOUS
  <2>1. CASE ViewNext
    BY <2>1, ViewNextInv
  <2>2. CASE UNCHANGED viewVars
    <3>1. UNCHANGED <<viewer, picked, onScreen, title, asked, debounce, viewRows, overtaken, viewFaults>>
      BY <2>2 DEF viewVars
    <3>2. Viewed' = Viewed /\ Loads' = Loads
      BY <3>1 DEF Viewed, Loads
    <3> QED BY <3>1, <3>2 DEF ViewInv, ViewTypeInv, FollowInv, Follows, NotAsked, TitleIsTrue
  <2> QED BY <2>1, <2>2
<1>3. ViewInv => ViewersSafe
  <2> SUFFICES ASSUME ViewInv
               PROVE  ViewersSafe
    OBVIOUS
  <2>1. SettledShowsPicked
    <3> SUFFICES ASSUME Viewed.asks \in {"pick", "typing"}, asked = <<>>, debounce = "none",
                        ~overtaken, viewFaults = 0, NEW p \in Viewed.parts
                 PROVE  onScreen[p] = picked
      BY DEF SettledShowsPicked
    <3>1. Follows(p)
      BY DEF ViewInv, FollowInv
    <3> QED BY <3>1 DEF Follows
  <2> QED BY <2>1 DEF ViewersSafe, ViewInv
<1> QED BY <1>1, <1>2, <1>3, PTL DEF ViewSpec

---------------------------------------------------------------------------
(***************************************************************************)
(* The forms.                                                              *)
(*                                                                         *)
(* A value this user typed may come back into the form from the rows, and  *)
(* is then overwritten without a trace.  It is safe because whatever rows  *)
(* hold was accepted before: rows at the server, rows shown, and rows      *)
(* under way.                                                              *)
(***************************************************************************)
\* The values the user has typed and not thrown away, or has submitted.
Mine == submitted \cup (IF FormOpen THEN {form.vals[x] : x \in form.typed} ELSE {})

RowOK(f, n, M, A) ==
    /\ DOMAIN f = FieldNames
    /\ \A x \in FieldNames : f[x] \in 0..n /\ (f[x] \in M => f[x] \in A)
TableOK(t, n, M, A) == DOMAIN t \subseteq RowIds /\ \A r \in DOMAIN t : RowOK(t[r], n, M, A)
\* What the table may be, and any copy of it that was ever made.
IsRows(t) == /\ TableOK(t, typedUpTo, Mine, accepted)
             /\ panel.edits = "changed" => DOMAIN t = {1}

\* What a handler holds of a file.
Reading(c) == c.stage = "read" => panel.stores = "file" /\ IsRows(c.copy)

IsSave(c) ==
    /\ {"kind", "row", "new", "body", "typed", "stage", "copy", "n"} \subseteq DOMAIN c
    /\ c.n \in Nat /\ c.n < submits /\ Reading(c)
    /\ c.row \in RowIds /\ c.new \in BOOLEAN /\ c.typed \subseteq FieldNames
    /\ c.stage \in {"sent", "read", "ok", "refused", "lost"}
    /\ DOMAIN c.body \subseteq FieldNames
    /\ \A x \in DOMAIN c.body : c.body[x] \in 0..typedUpTo
    /\ c.new => c.kind = "save" /\ panel.creates /\ DOMAIN c.body = FieldNames
    /\ ~c.new /\ panel.edits # "whole" => DOMAIN c.body \subseteq c.typed
    /\ c.stage = "ok" => \A x \in DOMAIN c.body : c.body[x] \in accepted
IsDelete(c) == {"kind", "row", "stage", "copy"} \subseteq DOMAIN c /\ Reading(c)
IsFetch(c) ==
    /\ c.stage \in {"sent", "ok"}
    /\ c.stage = "ok" => IsRows(c.rows)
IsMessage(c) ==
    /\ c.kind \in {"save", "click", "delete", "fetch"}
    /\ c.kind \in {"save", "click"} => IsSave(c)
    /\ c.kind = "delete" => IsDelete(c)
    /\ c.kind = "fetch" => IsFetch(c)

FormOK ==
    FormOpen =>
      /\ {"row", "new", "vals", "typed"} \subseteq DOMAIN form
      /\ form.row \in RowIds /\ form.new \in BOOLEAN /\ form.typed \subseteq FieldNames
      /\ DOMAIN form.vals = FieldNames
      /\ \A x \in FieldNames : form.vals[x] \in 0..typedUpTo
      /\ \A x \in FieldNames \ form.typed : form.vals[x] \in Mine => form.vals[x] \in accepted
      /\ form.new => panel.creates
      /\ ~form.new => panel.edits \in {"changed", "typed", "whole"}
      /\ panel.edits = "changed" => form.row = 1

PanelTypeInv ==
    /\ panel \in PanelKinds
    /\ {typedUpTo, copies, unheard, submits} \subseteq Nat
    /\ panel.stores = "file" => IsRows(otherCopy)
    /\ \A n \in orphans : n \in Nat /\ n < submits
    /\ Mine \subseteq 1..typedUpTo
    /\ IsRows(saved) /\ IsRows(shown) /\ FormOK
    /\ \A c \in wire : IsMessage(c)

FormValues == IF FormOpen THEN {form.vals[x] : x \in FieldNames} ELSE {}
OneSave == \A c, d \in wire : c.kind = "save" /\ d.kind = "save" => c = d
\* The saves of the form as it was last opened.
Own(c) == c.kind = "save" /\ c.n \notin orphans
OneOwn == \A c, d \in wire : Own(c) /\ Own(d) => c = d
\* What a save did not take along of the form was accepted already.
TypedGoesOut ==
    \A c \in wire : c.kind = "save" /\ FormOpen =>
       \A x \in form.typed : form.vals[x] \in submitted =>
          form.vals[x] \in accepted \cup dropped \cup {c.body[y] : y \in DOMAIN c.body}
KeptInv ==
    panel.busy = "panel" =>
       /\ OneSave
       /\ panel.closes = "ok" => TypedGoesOut /\ submitted \subseteq accepted \cup dropped \cup FormValues
RowsInv ==
    panel.busy # "no" =>
       /\ OneOwn
       /\ copies <= unheard + 1
       /\ form.new => \/ copies <= unheard
                      \/ \E c \in wire : Own(c) /\ c.new /\ c.stage = "ok"
PanelInv == PanelTypeInv /\ KeptInv /\ RowsInv

\* What the panels have in common.
LEMMA PanelFacts ==
  ASSUME NEW p \in PanelKinds
  PROVE  /\ p.busy \in {"panel", "form", "no"} /\ p.closes \in {"ok", "always"} /\ p.creates \in BOOLEAN
         /\ p.edits \in {"changed", "typed", "click", "whole", "none"}
         /\ p.creates => p.edits \notin {"changed", "typed"}
         /\ p.edits = "changed" => p.deletes = "query" /\ p.stores = "table"
<1> DEFINE Sound(q) ==
         /\ q.busy \in {"panel", "form", "no"} /\ q.closes \in {"ok", "always"} /\ q.creates \in BOOLEAN
         /\ q.edits \in {"changed", "typed", "click", "whole", "none"}
         /\ q.creates => q.edits \notin {"changed", "typed"}
         /\ q.edits = "changed" => q.deletes = "query" /\ q.stores = "table"
<1>1. Sound(SettingsPanel) /\ Sound(IntegrationsPanel)
  BY DEF Controls, Stored, SettingsPanel, IntegrationsPanel
<1>2. /\ Sound(WebhookPanel) /\ Sound(AlertRulesPanel) /\ Sound(MultiGatewayPanel) /\ Sound(CronPanel)
      /\ Sound(NotificationsPanel) /\ Sound(SquadStatus) /\ Sound(JobButtons)
  BY DEF Controls, Stored, WebhookPanel, AlertRulesPanel, MultiGatewayPanel, CronPanel,
     NotificationsPanel, SquadStatus, JobButtons
<1>3. /\ Sound(UserPanel) /\ Sound(WorkflowForm) /\ Sound(PipelineForm) /\ Sound(TaskEditForm)
      /\ Sound(AgentModal) /\ Sound(AgentEdit) /\ Sound(ConfigTab)
  BY DEF Controls, Stored, UserPanel, WorkflowForm, PipelineForm, TaskEditForm, AgentModal, AgentEdit,
     ConfigTab
<1>4. /\ Sound(TaskCreateForm) /\ Sound(TaskComments) /\ Sound(AgentCreate) /\ Sound(AgentWizard)
      /\ Sound(TenantForm) /\ Sound(DecommissionDialog) /\ Sound(GitHubImport)
  BY DEF Controls, Stored, TaskCreateForm, TaskComments, AgentCreate, AgentWizard, TenantForm,
     DecommissionDialog, GitHubImport
<1>5. Sound(SoulTab) /\ Sound(MemoryTab)
  BY DEF Controls, Stored, SoulTab, MemoryTab
<1>6. p \in AllPanels
  BY AdminPanelsAssumption
<1> HIDE DEF Sound
<1>7. Sound(p)
  BY <1>1, <1>2, <1>3, <1>4, <1>5, <1>6 DEF AllPanels
<1> QED BY <1>7 DEF Sound

LEMMA RowsStay ==
  ASSUME NEW f, NEW n \in Nat, NEW m \in Nat, n <= m, NEW M, NEW N, NEW A, NEW B,
         RowOK(f, n, M, A), A \subseteq B, \A v \in 0..n : v \in N => v \in M
  PROVE  RowOK(f, m, N, B)
BY DEF RowOK

\* Steps that only type something new and only accept more.
Onward ==
    /\ panel' = panel /\ typedUpTo' \in Nat /\ typedUpTo <= typedUpTo'
    /\ submits' \in Nat /\ submits <= submits'
    /\ accepted \subseteq accepted'
    /\ \A v \in 0..typedUpTo : v \in Mine' => v \in Mine

LEMMA CopiesStay ==
  ASSUME PanelTypeInv, Onward
  PROVE  /\ \A t : IsRows(t) => IsRows(t)'
         /\ \A c : IsMessage(c) => IsMessage(c)'
         /\ form' = form => FormOK'
<1>1. ASSUME NEW t, IsRows(t)
      PROVE  IsRows(t)'
  <2>1. ASSUME NEW r \in DOMAIN t
        PROVE  RowOK(t[r], typedUpTo', Mine', accepted')
    <3>1. RowOK(t[r], typedUpTo, Mine, accepted)
      BY <1>1 DEF IsRows, TableOK
    <3> QED BY <3>1 DEF Onward, PanelTypeInv, RowOK
  <2> QED BY <1>1, <2>1 DEF IsRows, TableOK, Onward
<1>2. ASSUME NEW c, IsMessage(c)
      PROVE  IsMessage(c)'
  <2>1. c.kind \in {"save", "click"} => IsSave(c)'
    <3> SUFFICES ASSUME c.kind \in {"save", "click"}
                 PROVE  IsSave(c)'
      OBVIOUS
    <3>1. IsSave(c)
      BY <1>2 DEF IsMessage
    <3>2. \A x \in DOMAIN c.body : c.body[x] \in 0..(typedUpTo')
      BY <3>1 DEF IsSave, Onward, PanelTypeInv
    <3>3. Reading(c)'
      BY <1>1, <3>1 DEF IsSave, Reading, Onward
    <3>4. c.n \in Nat /\ c.n < submits'
      BY <3>1 DEF IsSave, Onward, PanelTypeInv
    <3> QED BY <3>1, <3>2, <3>3, <3>4 DEF IsSave, Onward
  <2>2. c.kind = "fetch" => IsFetch(c)'
    BY <1>1, <1>2 DEF IsMessage, IsFetch
  <2>3. c.kind = "delete" => IsDelete(c)'
    BY <1>1, <1>2 DEF IsMessage, IsDelete, Reading, Onward
  <2> QED BY <1>2, <2>1, <2>2, <2>3 DEF IsMessage
<1>3. ASSUME form' = form
      PROVE  FormOK'
  BY <1>3 DEF FormOK, FormOpen, PanelTypeInv, Onward
<1> QED BY <1>1, <1>2, <1>3

\* What is left to show of a step.
LEMMA TypeStays ==
  ASSUME PanelTypeInv, Onward, Mine' \subseteq 1..(typedUpTo'),
         saved' = saved \/ IsRows(saved)', shown' = shown \/ IsRows(shown)',
         form' = form \/ FormOK',
         panel.stores # "file" \/ otherCopy' = otherCopy \/ IsRows(otherCopy)',
         \A n \in orphans' : n \in orphans \/ (n \in Nat /\ n < submits'),
         {copies', unheard'} \subseteq Nat,
         \A c \in wire' : c \in wire \/ IsMessage(c)'
  PROVE  PanelTypeInv'
<1>1. panel' \in PanelKinds /\ typedUpTo' \in Nat
  BY DEF PanelTypeInv, Onward
<1>2. IsRows(saved)'
  <2>1. CASE saved' = saved
    <3>1. PICK t : t = saved
      OBVIOUS
    <3>2. IsRows(t)
      BY <3>1 DEF PanelTypeInv
    <3>3. IsRows(t)'
      BY <3>2, CopiesStay
    <3> QED BY <2>1, <3>1, <3>3 DEF IsRows
  <2> QED BY <2>1
<1>3. IsRows(shown)'
  <2>1. CASE shown' = shown
    <3>1. PICK t : t = shown
      OBVIOUS
    <3>2. IsRows(t)
      BY <3>1 DEF PanelTypeInv
    <3>3. IsRows(t)'
      BY <3>2, CopiesStay
    <3> QED BY <2>1, <3>1, <3>3 DEF IsRows
  <2> QED BY <2>1
<1>4. FormOK'
  BY CopiesStay
<1>5. (\A c \in wire : IsMessage(c))'
  BY CopiesStay DEF PanelTypeInv
<1>6. panel'.stores = "file" => IsRows(otherCopy)'
  <2>1. CASE otherCopy' = otherCopy
    <3>1. PICK t : t = otherCopy
      OBVIOUS
    <3>2. panel.stores = "file" => IsRows(t)
      BY <3>1 DEF PanelTypeInv
    <3>3. panel.stores = "file" => IsRows(t)'
      BY <3>2, CopiesStay
    <3> QED BY <2>1, <3>1, <3>3 DEF IsRows, Onward
  <2> QED BY <2>1 DEF Onward
<1>7. (\A n \in orphans : n \in Nat /\ n < submits)' /\ submits' \in Nat
  BY DEF PanelTypeInv, Onward
<1> QED BY <1>1, <1>2, <1>3, <1>4, <1>5, <1>6, <1>7 DEF PanelTypeInv

\* At most one message replaces those that leave; a save only itself.
LEMMA KeptStays ==
  ASSUME KeptInv, UNCHANGED <<panel, form, submitted>>,
         accepted \subseteq accepted', dropped \subseteq dropped',
         NEW S \in SUBSET wire, NEW d, wire' \subseteq S \cup {d},
         d.kind = "save" => \E c \in wire \ S : c.kind = "save" /\ c.body = d.body
  PROVE  KeptInv'
<1> SUFFICES ASSUME panel.busy = "panel"
             PROVE  /\ OneSave'
                    /\ panel.closes = "ok" =>
                         TypedGoesOut' /\ (submitted \subseteq accepted \cup dropped \cup FormValues)'
  BY DEF KeptInv
<1>1. OneSave
  BY DEF KeptInv
<1>2. OneSave'
  BY <1>1 DEF OneSave
<1>3. ASSUME panel.closes = "ok"
      PROVE  TypedGoesOut'
  <2>1. TypedGoesOut
    BY <1>3 DEF KeptInv
  <2> SUFFICES ASSUME NEW c \in wire', c.kind = "save", FormOpen, NEW x \in form.typed,
                      form.vals[x] \in submitted
               PROVE  form.vals[x] \in accepted' \cup dropped' \cup {c.body[y] : y \in DOMAIN c.body}
    BY DEF TypedGoesOut, FormOpen
  <2>2. PICK e \in wire : e.kind = "save" /\ e.body = c.body
    OBVIOUS
  <2> QED BY <2>1, <2>2 DEF TypedGoesOut
<1>4. ASSUME panel.closes = "ok"
      PROVE  (submitted \subseteq accepted \cup dropped \cup FormValues)'
  BY <1>4 DEF KeptInv, FormValues, FormOpen
<1> QED BY <1>2, <1>3, <1>4

LEMMA CopiesCountStays ==
  ASSUME RowsInv, UNCHANGED <<panel, copies, unheard, orphans>>, form'.new = form.new,
         NEW S \in SUBSET wire, NEW d, wire' \subseteq S \cup {d}, Own(d) => \E c \in wire \ S : Own(c),
         \A c \in wire : Own(c) /\ c.stage = "ok" => c \in wire'
  PROVE  RowsInv'
<1> SUFFICES ASSUME panel.busy # "no"
             PROVE  /\ OneOwn' /\ copies <= unheard + 1
                    /\ form.new => \/ copies <= unheard
                                   \/ \E c \in wire' : Own(c) /\ c.new /\ c.stage = "ok"
  BY DEF RowsInv, Own
<1>1. OneOwn /\ copies <= unheard + 1
  BY DEF RowsInv
<1>2. ASSUME NEW e \in wire', NEW f \in wire', Own(e)', Own(f)'
      PROVE  e = f
  <2>1. Own(e) /\ Own(f)
    BY <1>2 DEF Own
  <2> QED BY <1>1, <2>1 DEF OneOwn
<1>3. OneOwn'
  BY <1>2 DEF OneOwn
<1> QED BY <1>1, <1>3 DEF RowsInv

\* An invariant's typing, spelled out for the form.
LEMMA OpenForm ==
  ASSUME PanelTypeInv, FormOpen
  PROVE  /\ {"row", "new", "vals", "typed"} \subseteq DOMAIN form
         /\ form.row \in RowIds /\ form.new \in BOOLEAN /\ form.typed \subseteq FieldNames
         /\ DOMAIN form.vals = FieldNames
         /\ \A x \in FieldNames : form.vals[x] \in 0..typedUpTo
         /\ \A x \in FieldNames \ form.typed : form.vals[x] \in Mine => form.vals[x] \in accepted
BY DEF PanelTypeInv, FormOK

\* A form that is filled anew, or closed: what was typed counts as dropped.
LEMMA FormGone ==
  ASSUME PanelInv, UNCHANGED <<panel, submits, wire, accepted, submitted, typedUpTo>>,
         dropped' = dropped \cup (IF FormOpen THEN {form.vals[x] : x \in form.typed} ELSE {}),
         FormOpen' => form'.typed = {}
  PROVE  Onward /\ Mine' \subseteq Mine /\ KeptInv'
<1>1. Mine' = submitted
  BY DEF Mine
<1>2. Onward /\ Mine' \subseteq Mine
  BY <1>1 DEF Onward, PanelInv, PanelTypeInv, Mine
<1>3. ASSUME panel.busy = "panel"
      PROVE  OneSave'
  BY <1>3 DEF PanelInv, KeptInv, OneSave
<1>4. TypedGoesOut'
  BY DEF TypedGoesOut
<1>5. ASSUME panel.busy = "panel", panel.closes = "ok", NEW v \in submitted
      PROVE  v \in accepted \cup dropped'
  <2>1. v \in accepted \cup dropped \cup FormValues
    BY <1>5 DEF PanelInv, KeptInv
  <2>2. ASSUME FormOpen, NEW x \in FieldNames, v = form.vals[x]
        PROVE  v \in accepted \cup dropped'
    <3>1. CASE x \in form.typed
      BY <2>2, <3>1
    <3>2. CASE x \notin form.typed
      BY <1>5, <2>2, <3>2, OpenForm DEF PanelInv, Mine
    <3> QED BY <3>1, <3>2
  <2> QED BY <2>1, <2>2 DEF FormValues
<1>6. KeptInv'
  <2>1. panel'.busy = "panel" => OneSave'
    BY <1>3
  <2>2. panel'.busy = "panel" /\ panel'.closes = "ok" => TypedGoesOut' /\ submitted' \subseteq accepted' \cup dropped' \cup FormValues'
    BY <1>4, <1>5
  <2> QED BY <2>1, <2>2 DEF KeptInv
<1> QED BY <1>2, <1>6

\* The saves under way are not of a form that was just opened.
LEMMA NoneOwn ==
  ASSUME PanelInv, FreshForm, UNCHANGED <<panel, wire, submits>>, copies' = 0, unheard' = 0
  PROVE  RowsInv' /\ \A n \in orphans' : n \in orphans \/ (n \in Nat /\ n < submits')
<1>1. ASSUME NEW c \in wire, c.kind = "save"
      PROVE  c.n \in Nat /\ c.n < submits
  BY <1>1 DEF PanelInv, PanelTypeInv, IsMessage, IsSave
<1>2. \A n \in orphans' : n \in orphans \/ (n \in Nat /\ n < submits')
  BY <1>1 DEF FreshForm, Saves
<1>3. ASSUME panel.busy # "no", NEW c \in wire
      PROVE  ~Own(c)'
  BY <1>3 DEF Own, FreshForm, Saves
<1> QED BY <1>2, <1>3 DEF RowsInv, OneOwn

LEMMA StartEditInv ==
  ASSUME PanelInv, NEW r \in RowIds, StartEdit(r)
  PROVE  PanelInv'
<1>1. /\ panel.edits \in {"changed", "typed", "whole"} /\ r \in DOMAIN shown
      /\ form' = [row |-> r, new |-> FALSE, vals |-> shown[r], typed |-> {}]
      /\ dropped' = dropped \cup (IF FormOpen THEN {form.vals[x] : x \in form.typed} ELSE {})
      /\ copies' = 0 /\ unheard' = 0
      /\ UNCHANGED <<panel, submits, saved, shown, wire, typedUpTo, otherCopy, accepted, submitted>>
      /\ FreshForm
  BY DEF StartEdit
<1>2. /\ DOMAIN form' = {"row", "new", "vals", "typed"}
      /\ form'.row = r /\ form'.new = FALSE /\ form'.vals = shown[r] /\ form'.typed = {}
  BY <1>1
<1>3. Onward /\ Mine' \subseteq Mine /\ KeptInv'
  BY <1>1, <1>2, FormGone
<1>4. RowOK(shown[r], typedUpTo, Mine, accepted) /\ (panel.edits = "changed" => r = 1)
  BY <1>1 DEF PanelInv, PanelTypeInv, IsRows, TableOK
<1>5. FormOK'
  BY <1>1, <1>2, <1>3, <1>4 DEF FormOK, RowOK
<1>8. RowsInv' /\ \A n \in orphans' : n \in orphans \/ (n \in Nat /\ n < submits')
  BY <1>1, NoneOwn
<1>6. PanelTypeInv'
  <2>1. Mine' \subseteq 1..(typedUpTo')
    BY <1>1, <1>3 DEF PanelInv, PanelTypeInv
  <2>2. {copies', unheard'} \subseteq Nat /\ \A c \in wire' : c \in wire
    BY <1>1
  <2> QED BY <1>1, <1>3, <1>5, <1>8, <2>1, <2>2, TypeStays DEF PanelInv
<1> QED BY <1>3, <1>6, <1>8 DEF PanelInv

LEMMA StartCreateInv ==
  ASSUME PanelInv, StartCreate
  PROVE  PanelInv'
<1>1. /\ panel.creates
      /\ form' = [row |-> 2, new |-> TRUE, vals |-> [x \in FieldNames |-> 0], typed |-> {}]
      /\ dropped' = dropped \cup (IF FormOpen THEN {form.vals[x] : x \in form.typed} ELSE {})
      /\ copies' = 0 /\ unheard' = 0
      /\ UNCHANGED <<panel, submits, saved, shown, wire, typedUpTo, otherCopy, accepted, submitted>>
      /\ FreshForm
  BY DEF StartCreate, FreshRow
<1>2. /\ DOMAIN form' = {"row", "new", "vals", "typed"}
      /\ form'.row = 2 /\ form'.new = TRUE /\ form'.vals = [x \in FieldNames |-> 0] /\ form'.typed = {}
  BY <1>1
<1>3. Onward /\ Mine' \subseteq Mine /\ KeptInv'
  BY <1>1, <1>2, FormGone
<1>4. panel.edits # "changed"
  BY <1>1, PanelFacts DEF PanelInv, PanelTypeInv
<1>5. FormOK'
  <2>1. \A x \in FieldNames : form'.vals[x] = 0
    BY <1>2
  <2>2. 0 \notin Mine' /\ typedUpTo' \in Nat
    BY <1>1, <1>3 DEF PanelInv, PanelTypeInv
  <2> QED BY <1>1, <1>2, <1>4, <2>1, <2>2 DEF FormOK, RowIds
<1>8. RowsInv' /\ \A n \in orphans' : n \in orphans \/ (n \in Nat /\ n < submits')
  BY <1>1, NoneOwn
<1>6. PanelTypeInv'
  <2>1. Mine' \subseteq 1..(typedUpTo')
    BY <1>1, <1>3 DEF PanelInv, PanelTypeInv
  <2>2. {copies', unheard'} \subseteq Nat /\ \A c \in wire' : c \in wire
    BY <1>1
  <2> QED BY <1>1, <1>3, <1>5, <1>8, <2>1, <2>2, TypeStays DEF PanelInv
<1> QED BY <1>3, <1>6, <1>8 DEF PanelInv

LEMMA DiscardFormInv ==
  ASSUME PanelInv, DiscardForm
  PROVE  PanelInv'
<1>1. /\ dropped' = dropped \cup (IF FormOpen THEN {form.vals[x] : x \in form.typed} ELSE {})
      /\ form' = ClosedForm
      /\ UNCHANGED <<panel, submits, saved, shown, wire, typedUpTo, copies, unheard, orphans,
                     otherCopy, accepted, submitted>>
  BY DEF DiscardForm
<1>2. ~FormOpen' /\ form'.new = FALSE
  BY <1>1 DEF FormOpen, ClosedForm
<1>3. Onward /\ Mine' \subseteq Mine /\ KeptInv'
  BY <1>1, <1>2, FormGone
<1>5. FormOK'
  BY <1>2 DEF FormOK
<1>6. PanelTypeInv'
  <2>1. Mine' \subseteq 1..(typedUpTo')
    BY <1>1, <1>3 DEF PanelInv, PanelTypeInv
  <2>2. {copies', unheard'} \subseteq Nat /\ \A c \in wire' : c \in wire
    BY <1>1 DEF PanelInv, PanelTypeInv
  <2> QED BY <1>1, <1>3, <1>5, <2>1, <2>2, TypeStays DEF PanelInv
<1>7. RowsInv'
  BY <1>1, <1>2 DEF PanelInv, RowsInv, OneOwn, Own
<1> QED BY <1>3, <1>6, <1>7 DEF PanelInv

LEMMA TypeFieldInv ==
  ASSUME PanelInv, NEW x \in FieldNames, TypeField(x)
  PROVE  PanelInv'
<1>1. /\ FormOpen /\ typedUpTo' = typedUpTo + 1
      /\ form' = [form EXCEPT !.vals[x] = typedUpTo + 1, !.typed = @ \cup {x}]
      /\ dropped' = dropped \cup (IF x \in form.typed THEN {form.vals[x]} ELSE {})
      /\ UNCHANGED <<panel, submits, saved, shown, wire, copies, unheard, orphans, otherCopy,
                     accepted, submitted>>
  BY DEF TypeField
<1>2. /\ {"row", "new", "vals", "typed"} \subseteq DOMAIN form
      /\ form.row \in RowIds /\ form.new \in BOOLEAN /\ form.typed \subseteq FieldNames
      /\ DOMAIN form.vals = FieldNames
      /\ \A y \in FieldNames : form.vals[y] \in 0..typedUpTo
      /\ \A y \in FieldNames \ form.typed : form.vals[y] \in Mine => form.vals[y] \in accepted
      /\ typedUpTo \in Nat /\ submits \in Nat
  BY <1>1, OpenForm DEF PanelInv, PanelTypeInv
<1>3. /\ DOMAIN form' = DOMAIN form /\ form'.row = form.row /\ form'.new = form.new
      /\ form'.typed = form.typed \cup {x}
      /\ DOMAIN form'.vals = FieldNames /\ form'.vals[x] = typedUpTo + 1
      /\ \A y \in FieldNames \ {x} : form'.vals[y] = form.vals[y]
  BY <1>1, <1>2
<1>4. FormOpen'
  BY <1>2, <1>3 DEF FormOpen, ClosedForm, RowIds
<1>5. ASSUME NEW v \in Mine'
      PROVE  v \in Mine \/ v = typedUpTo + 1
  BY <1>1, <1>2, <1>3, <1>4, <1>5 DEF Mine
<1>6. Onward
  BY <1>1, <1>2, <1>5 DEF Onward
<1>7. Mine' \subseteq 1..(typedUpTo')
  BY <1>1, <1>2, <1>5 DEF PanelInv, PanelTypeInv
<1>8. FormOK'
  <2>1. \A y \in FieldNames : form'.vals[y] \in 0..(typedUpTo')
    BY <1>1, <1>2, <1>3
  <2>2. ASSUME NEW y \in FieldNames \ form'.typed, form'.vals[y] \in Mine'
        PROVE  form'.vals[y] \in accepted'
    <3>1. form'.vals[y] = form.vals[y] /\ y \notin form.typed
      BY <1>3
    <3>2. form.vals[y] \in Mine
      BY <1>2, <1>5, <2>2, <3>1
    <3> QED BY <1>1, <1>2, <3>1, <3>2
  <2>3. /\ form'.new => panel'.creates
        /\ ~form'.new => panel'.edits \in {"changed", "typed", "whole"}
        /\ panel'.edits = "changed" => form'.row = 1
    BY <1>1, <1>3 DEF PanelInv, PanelTypeInv, FormOK
  <2> QED BY <1>2, <1>3, <2>1, <2>2, <2>3 DEF FormOK
<1>9. PanelTypeInv'
  <2>1. {copies', unheard'} \subseteq Nat /\ \A c \in wire' : c \in wire
    BY <1>1 DEF PanelInv, PanelTypeInv
  <2> QED BY <1>1, <1>6, <1>7, <1>8, <2>1, TypeStays DEF PanelInv
<1>10. KeptInv'
  <2> SUFFICES ASSUME panel.busy = "panel"
               PROVE  /\ OneSave'
                      /\ panel.closes = "ok" =>
                           TypedGoesOut' /\ (submitted \subseteq accepted \cup dropped \cup FormValues)'
    BY <1>1 DEF KeptInv
  <2>1. OneSave'
    BY <1>1 DEF PanelInv, KeptInv, OneSave
  <2>2. submitted \subseteq 1..typedUpTo
    BY DEF PanelInv, PanelTypeInv, Mine
  <2>3. ASSUME panel.closes = "ok"
        PROVE  TypedGoesOut'
    <3> SUFFICES ASSUME NEW c \in wire, c.kind = "save", NEW y \in form'.typed, form'.vals[y] \in submitted
                 PROVE  form'.vals[y] \in accepted \cup dropped' \cup {c.body[z] : z \in DOMAIN c.body}
      BY <1>1 DEF TypedGoesOut
    <3>1. y # x
      BY <1>2, <1>3, <2>2
    <3>2. y \in form.typed /\ form'.vals[y] = form.vals[y]
      BY <1>2, <1>3, <3>1
    <3>3. TypedGoesOut
      BY <2>3 DEF PanelInv, KeptInv
    <3> QED BY <1>1, <3>2, <3>3 DEF TypedGoesOut
  <2>4. ASSUME panel.closes = "ok", NEW v \in submitted
        PROVE  v \in accepted \cup dropped' \cup FormValues'
    <3>1. v \in accepted \cup dropped \cup {form.vals[y] : y \in FieldNames}
      BY <1>1, <2>4 DEF PanelInv, KeptInv, FormValues
    <3>2. ASSUME NEW y \in FieldNames, v = form.vals[y]
          PROVE  v \in accepted \cup dropped' \cup FormValues'
      <4>1. CASE y # x
        BY <1>3, <1>4, <3>2, <4>1 DEF FormValues
      <4>2. CASE y = x /\ x \in form.typed
        BY <1>1, <3>2, <4>2
      <4>3. CASE y = x /\ x \notin form.typed
        BY <1>2, <2>4, <3>2, <4>3 DEF Mine
      <4> QED BY <4>1, <4>2, <4>3
    <3> QED BY <1>1, <3>1, <3>2
  <2> QED BY <1>1, <2>1, <2>3, <2>4
<1>11. RowsInv'
  BY <1>1, <1>3 DEF PanelInv, RowsInv, OneOwn, Own
<1> QED BY <1>9, <1>10, <1>11 DEF PanelInv

\* What a save puts on the wire.
LEMMA PayloadFacts ==
  ASSUME PanelInv, FormOpen
  PROVE  /\ DOMAIN Payload(form) \subseteq FieldNames
         /\ \A x \in DOMAIN Payload(form) : Payload(form)[x] = form.vals[x]
         /\ form.new => DOMAIN Payload(form) = FieldNames
         /\ ~form.new /\ panel.edits # "whole" => DOMAIN Payload(form) \subseteq form.typed
         /\ \A x \in form.typed \ DOMAIN Payload(form) :
              form.vals[x] \in Mine => form.vals[x] \in accepted
<1>1. /\ form.typed \subseteq FieldNames /\ DOMAIN form.vals = FieldNames
      /\ form.new \in BOOLEAN
      /\ form.new => panel.creates
      /\ ~form.new => panel.edits \in {"changed", "typed", "whole"}
      /\ panel.edits = "changed" => form.row = 1
      /\ panel.creates => panel.edits \notin {"changed", "typed"}
  BY PanelFacts DEF PanelInv, PanelTypeInv, FormOK
<1>2. CASE panel.edits = "typed"
  <2>1. Payload(form) = [x \in form.typed |-> form.vals[x]]
    BY <1>2 DEF Payload
  <2> QED BY <1>1, <1>2, <2>1
<1>3. CASE panel.edits = "changed"
  <2>1. Payload(form) = [x \in {y \in form.typed : form.vals[y] # shown[form.row][y]} |-> form.vals[x]]
    BY <1>3 DEF Payload
  <2>2. IsRows(shown) /\ form.row \in DOMAIN shown
    BY <1>1, <1>3 DEF PanelInv, PanelTypeInv, IsRows
  <2>3. RowOK(shown[form.row], typedUpTo, Mine, accepted)
    BY <2>2 DEF IsRows, TableOK
  <2>4. ASSUME NEW x \in form.typed \ DOMAIN Payload(form), form.vals[x] \in Mine
        PROVE  form.vals[x] \in accepted
    <3>1. form.vals[x] = shown[form.row][x]
      BY <2>1
    <3> QED BY <1>1, <2>3, <2>4, <3>1 DEF RowOK
  <2> QED BY <1>1, <1>3, <2>1, <2>4
<1>4. CASE panel.edits \notin {"typed", "changed"}
  <2>1. Payload(form) = form.vals
    BY <1>4 DEF Payload
  <2> QED BY <1>1, <1>4, <2>1
<1> QED BY <1>2, <1>3, <1>4

LEMMA SubmitFormInv ==
  ASSUME PanelInv, SubmitForm
  PROVE  PanelInv'
<1>1. /\ FormOpen /\ (panel.busy = "panel" => \A c \in wire : c.kind # "save")
      /\ panel.busy = "form" => \A c \in wire : c.kind = "save" => c.n \in orphans
      /\ submits' = submits + 1
      /\ UNCHANGED <<panel, saved, shown, form, typedUpTo, copies, unheard, orphans, otherCopy,
                     dropped, accepted>>
      /\ submitted' = submitted \cup {form.vals[x] : x \in form.typed \cap DOMAIN Payload(form)}
  BY DEF SubmitForm, MaySubmit, Saves
<1>2. PICK c : /\ wire' = wire \cup {c}
               /\ c = [kind |-> "save", row |-> form.row, new |-> form.new, body |-> Payload(form),
                       typed |-> form.typed, stage |-> "sent", copy |-> Unread, n |-> submits]
  BY DEF SubmitForm
<1>3. /\ DOMAIN c = {"kind", "row", "new", "body", "typed", "stage", "copy", "n"}
      /\ c.kind = "save" /\ c.row = form.row /\ c.new = form.new /\ c.body = Payload(form)
      /\ c.typed = form.typed /\ c.stage = "sent" /\ c.n = submits
  BY <1>2
<1>4. /\ DOMAIN c.body \subseteq FieldNames
      /\ \A x \in DOMAIN c.body : c.body[x] = form.vals[x]
      /\ form.new => DOMAIN c.body = FieldNames
      /\ ~form.new /\ panel.edits # "whole" => DOMAIN c.body \subseteq form.typed
      /\ \A x \in form.typed \ DOMAIN c.body : form.vals[x] \in Mine => form.vals[x] \in accepted
  BY <1>1, <1>3, PayloadFacts
<1>5. Mine' = Mine
  BY <1>1 DEF Mine, FormOpen
<1>6. Onward /\ Mine' \subseteq 1..(typedUpTo')
  BY <1>1, <1>5 DEF Onward, PanelInv, PanelTypeInv
<1>7. IsMessage(c)'
  <2>1. /\ form.row \in RowIds /\ form.new \in BOOLEAN /\ form.typed \subseteq FieldNames
        /\ \A x \in FieldNames : form.vals[x] \in 0..typedUpTo
        /\ form.new => panel.creates
    BY <1>1, OpenForm DEF PanelInv, PanelTypeInv, FormOK
  <2>2. \A x \in DOMAIN c.body : c.body[x] \in 0..(typedUpTo')
    BY <1>1, <1>4, <2>1
  <2>4. submits \in Nat
    BY DEF PanelInv, PanelTypeInv
  <2>3. IsSave(c)'
    BY <1>1, <1>3, <1>4, <2>1, <2>2, <2>4 DEF IsSave, Reading
  <2> QED BY <1>3, <2>3 DEF IsMessage
<1>8. PanelTypeInv'
  <2>1. {copies', unheard'} \subseteq Nat
    BY <1>1 DEF PanelInv, PanelTypeInv
  <2> QED BY <1>1, <1>2, <1>6, <1>7, <2>1, TypeStays DEF PanelInv
<1>9. KeptInv'
  <2> SUFFICES ASSUME panel.busy = "panel"
               PROVE  /\ OneSave'
                      /\ panel.closes = "ok" =>
                           TypedGoesOut' /\ (submitted \subseteq accepted \cup dropped \cup FormValues)'
    BY <1>1 DEF KeptInv
  <2>1. OneSave'
    BY <1>1, <1>2 DEF OneSave
  <2>2. TypedGoesOut'
    <3> SUFFICES ASSUME NEW d \in wire', d.kind = "save", NEW x \in form.typed
                 PROVE  form.vals[x] \in submitted' =>
                          form.vals[x] \in accepted \cup dropped \cup {d.body[y] : y \in DOMAIN d.body}
      BY <1>1 DEF TypedGoesOut
    <3>1. d = c
      BY <1>1, <1>2
    <3>2. CASE x \in DOMAIN c.body
      BY <1>4, <3>1, <3>2
    <3>3. CASE x \notin DOMAIN c.body
      BY <1>1, <1>4, <3>3 DEF Mine
    <3> QED BY <3>2, <3>3
  <2>3. ASSUME panel.closes = "ok"
        PROVE  (submitted \subseteq accepted \cup dropped \cup FormValues)'
    <3>1. submitted \subseteq accepted \cup dropped \cup {form.vals[x] : x \in FieldNames}
      BY <1>1, <2>3 DEF PanelInv, KeptInv, FormValues
    <3>2. form.typed \subseteq FieldNames
      BY <1>1, OpenForm DEF PanelInv
    <3>3. FormValues' = {form.vals[x] : x \in FieldNames}
      BY <1>1 DEF FormValues, FormOpen
    <3> QED BY <1>1, <3>1, <3>2, <3>3
  <2> QED BY <2>1, <2>2, <2>3
<1>10. RowsInv'
  <2> SUFFICES ASSUME panel.busy # "no"
               PROVE  /\ OneOwn' /\ copies <= unheard + 1
                      /\ form.new => \/ copies <= unheard
                                     \/ \E e \in wire' : Own(e)' /\ e.new /\ e.stage = "ok"
    BY <1>1 DEF RowsInv
  <2>1. \A e \in wire : ~Own(e)
    BY <1>1, PanelFacts DEF Own, PanelInv, PanelTypeInv
  <2>2. OneOwn'
    BY <1>1, <1>2, <2>1 DEF OneOwn, Own
  <2> QED BY <1>1, <2>1, <2>2 DEF PanelInv, RowsInv
<1> QED BY <1>8, <1>9, <1>10 DEF PanelInv

\* A click, a delete or a reading of the rows: the form and what became of
\* its values stay.
LEMMA WireOnly ==
  ASSUME PanelInv, Onward, Mine' = Mine,
         UNCHANGED <<panel, form, submitted, copies, unheard, orphans, otherCopy, dropped, accepted>>,
         saved' = saved \/ IsRows(saved)', shown' = shown \/ IsRows(shown)',
         NEW S \in SUBSET wire, NEW d, wire' = S \cup {d} \/ wire' = S, IsMessage(d)',
         d.kind # "save", \A c \in wire \ S : c.kind = "save" => c.stage # "ok"
  PROVE  PanelInv'
<1>1. PanelTypeInv'
  <2>1. {copies', unheard'} \subseteq Nat /\ Mine' \subseteq 1..(typedUpTo')
    BY DEF PanelInv, PanelTypeInv, Onward
  <2>2. \A c \in wire' : c \in wire \/ IsMessage(c)'
    OBVIOUS
  <2> QED BY <2>1, <2>2, TypeStays DEF PanelInv
<1>2. KeptInv'
  <2>1. wire' \subseteq S \cup {d}
    OBVIOUS
  <2>2. UNCHANGED <<panel, form, submitted>> /\ accepted \subseteq accepted' /\ dropped \subseteq dropped'
    OBVIOUS
  <2> QED BY <2>1, <2>2, KeptStays DEF PanelInv
<1>3. RowsInv'
  <2>1. \A c \in wire : Own(c) /\ c.stage = "ok" => c \in wire'
    BY DEF Own
  <2>2. wire' \subseteq S \cup {d} /\ ~Own(d)
    BY DEF Own
  <2> QED BY <2>1, <2>2, CopiesCountStays DEF PanelInv
<1> QED BY <1>1, <1>2, <1>3 DEF PanelInv

LEMMA SameMine == UNCHANGED <<form, submitted>> => Mine' = Mine
BY DEF Mine, FormOpen

LEMMA ClickFieldInv ==
  ASSUME PanelInv, NEW r \in RowIds, NEW x \in FieldNames, ClickField(r, x)
  PROVE  PanelInv'
<1>1. /\ panel.edits = "click" /\ typedUpTo' = typedUpTo + 1
      /\ UNCHANGED <<panel, saved, shown, form, copies, unheard, orphans, otherCopy, dropped, accepted,
                     submitted>>
      /\ submits' = submits + 1
  BY DEF ClickField
<1>2. PICK c : /\ wire' = wire \cup {c}
               /\ c = [kind |-> "click", row |-> r, new |-> FALSE, body |-> [y \in {x} |-> typedUpTo + 1],
                       typed |-> {x}, stage |-> "sent", copy |-> Unread, n |-> submits]
  BY DEF ClickField
<1>3. /\ DOMAIN c = {"kind", "row", "new", "body", "typed", "stage", "copy", "n"}
      /\ c.kind = "click" /\ c.row = r /\ c.new = FALSE /\ c.body = [y \in {x} |-> typedUpTo + 1]
      /\ c.typed = {x} /\ c.stage = "sent" /\ c.n = submits
  BY <1>2
<1>4. DOMAIN c.body = {x} /\ c.body[x] = typedUpTo + 1
  BY <1>3
<1>5. typedUpTo \in Nat /\ submits \in Nat /\ Mine' = Mine /\ Onward
  BY <1>1, SameMine DEF Onward, PanelInv, PanelTypeInv
<1>6. IsMessage(c)'
  <2>1. \A y \in DOMAIN c.body : c.body[y] \in 0..(typedUpTo')
    BY <1>1, <1>4, <1>5
  <2>2. DOMAIN c.body \subseteq FieldNames /\ DOMAIN c.body = c.typed
    BY <1>3, <1>4
  <2>3. {"kind", "row", "new", "body", "typed", "stage", "copy", "n"} \subseteq DOMAIN c
    BY <1>3
  <2>4. c.row \in RowIds /\ c.new \in BOOLEAN /\ c.stage = "sent" /\ ~c.new
    BY <1>3
  <2>6. c.n \in Nat /\ c.n < submits'
    <3>1. c.n = submits BY <1>3
    <3> QED BY <1>1, <1>5, <3>1
  <2>5. IsSave(c)'
    BY <2>1, <2>2, <2>3, <2>4, <2>6 DEF IsSave, Reading
  <2> QED BY <1>3, <2>5 DEF IsMessage
<1> QED BY <1>1, <1>2, <1>3, <1>5, <1>6, WireOnly

LEMMA ClickDeleteInv ==
  ASSUME PanelInv, NEW r \in RowIds, ClickDelete(r)
  PROVE  PanelInv'
<1>1. /\ UNCHANGED <<panel, saved, shown, form, typedUpTo, copies, unheard, orphans, otherCopy, dropped,
                     accepted, submitted>>
      /\ submits' = submits + 1
  BY DEF ClickDelete
<1>2. PICK c : wire' = wire \cup {c} /\ c = [kind |-> "delete", row |-> r, stage |-> "sent", copy |-> Unread]
  BY DEF ClickDelete
<1>3. DOMAIN c = {"kind", "row", "stage", "copy"} /\ c.kind = "delete" /\ c.stage = "sent"
  BY <1>2
<1>4. Mine' = Mine /\ Onward
  BY <1>1, SameMine DEF Onward, PanelInv, PanelTypeInv
<1>5. IsMessage(c)'
  BY <1>3 DEF IsMessage, IsDelete, Reading
<1> QED BY <1>1, <1>2, <1>3, <1>4, <1>5, WireOnly

\* Another stage of the same message.
At(c, stage, held) == [c EXCEPT !.stage = stage, !.copy = held]

LEMMA StageFacts ==
  ASSUME PanelInv, NEW c \in wire, c.kind \in {"save", "click", "delete"},
         NEW stage, NEW held, NEW d, d = At(c, stage, held)
  PROVE  /\ DOMAIN d = DOMAIN c /\ d.kind = c.kind /\ d.row = c.row /\ d.stage = stage /\ d.copy = held
         /\ c.kind \in {"save", "click"} =>
              d.new = c.new /\ d.body = c.body /\ d.typed = c.typed /\ d.n = c.n
<1>1. {"kind", "row", "stage", "copy"} \subseteq DOMAIN c
  BY DEF PanelInv, PanelTypeInv, IsMessage, IsSave, IsDelete
<1> QED BY <1>1 DEF At

\* What a handler changes is the table, or the file as it was.
LEMMA HeldRows ==
  ASSUME PanelInv, NEW c \in wire, c.kind \in {"save", "click", "delete"}, Ready(c)
  PROVE  IsRows(Held(c))
<1>1. CASE panel.stores = "file"
  <2>1. Reading(c) /\ c.stage = "read"
    BY <1>1 DEF PanelInv, PanelTypeInv, IsMessage, IsSave, IsDelete, Ready
  <2>2. Held(c) = c.copy
    BY <1>1 DEF Held
  <2> QED BY <2>1, <2>2 DEF Reading
<1>2. CASE panel.stores # "file"
  <2>1. Held(c) = saved
    BY <1>2 DEF Held
  <2> QED BY <2>1 DEF PanelInv, PanelTypeInv
<1> QED BY <1>1, <1>2

LEMMA ServerDeletesInv ==
  ASSUME PanelInv, NEW c \in wire, ServerDeletes(c)
  PROVE  PanelInv'
<1>1. /\ c.kind = "delete"
      /\ UNCHANGED <<panel, submits, shown, form, typedUpTo, copies, unheard, orphans, otherCopy,
                     dropped, accepted, submitted>>
      /\ \/ saved' = saved
         \/ /\ panel.deletes = "body" /\ Ready(c)
            /\ saved' = [r \in DOMAIN Held(c) \ {c.row} |-> Held(c)[r]]
      /\ \E stage \in {"ok", "refused"} : Answer(c, stage)
  BY DEF ServerDeletes, Accepts
<1>2. PICK stage, d : stage \in {"ok", "refused"} /\ d = At(c, stage, Unread) /\ wire' = (wire \ {c}) \cup {d}
  BY <1>1 DEF Answer, At
<1>3. Mine' = Mine /\ Onward
  BY <1>1, SameMine DEF Onward, PanelInv, PanelTypeInv
<1>4. DOMAIN d = DOMAIN c /\ d.kind = "delete" /\ d.stage = stage
  BY <1>1, <1>2, StageFacts
<1>5. IsMessage(d)'
  <2>1. IsDelete(c)
    BY <1>1 DEF IsMessage, PanelInv, PanelTypeInv
  <2>2. IsDelete(d)'
    BY <1>2, <1>4, <2>1 DEF IsDelete, Reading
  <2> QED BY <1>4, <2>2 DEF IsMessage
<1>6. saved' = saved \/ IsRows(saved)'
  <2> SUFFICES ASSUME panel.deletes = "body", Ready(c),
                      saved' = [r \in DOMAIN Held(c) \ {c.row} |-> Held(c)[r]]
               PROVE  IsRows(saved)'
    BY <1>1
  <2>3. PICK t : t = Held(c)
    OBVIOUS
  <2>4. IsRows(t)
    BY <1>1, <2>3, HeldRows
  <2>5. IsRows(t)'
    BY <1>3, <2>4, CopiesStay DEF PanelInv
  <2>1. DOMAIN saved' \subseteq DOMAIN t /\ \A r \in DOMAIN saved' : saved'[r] = t[r]
    BY <2>3
  <2>2. panel.edits # "changed"
    BY PanelFacts DEF PanelInv, PanelTypeInv
  <2> QED BY <1>1, <2>1, <2>2, <2>5 DEF IsRows, TableOK
<1>7. wire \ {c} \in SUBSET wire /\ \A e \in wire \ (wire \ {c}) : e.kind # "save"
  BY <1>1
<1> QED BY <1>1, <1>2, <1>3, <1>4, <1>5, <1>6, <1>7, WireOnly

LEMMA ButtonAnsweredInv ==
  ASSUME PanelInv, NEW c \in wire, ButtonAnswered(c)
  PROVE  PanelInv'
<1>1. /\ c.kind \in {"click", "delete"}
      /\ UNCHANGED <<panel, submits, saved, shown, form, typedUpTo, copies, unheard, orphans, otherCopy,
                     dropped, accepted, submitted>>
  BY DEF ButtonAnswered
<1>2. PICK d : /\ d = [kind |-> "fetch", stage |-> "sent"]
               /\ wire' = (wire \ {c}) \cup {d} \/ wire' = wire \ {c}
  BY DEF ButtonAnswered
<1>3. Mine' = Mine /\ Onward
  BY <1>1, SameMine DEF Onward, PanelInv, PanelTypeInv
<1>4. d.kind = "fetch" /\ IsMessage(d)'
  BY <1>2 DEF IsMessage, IsFetch
<1>5. wire \ {c} \in SUBSET wire /\ \A e \in wire \ (wire \ {c}) : e.kind # "save"
  BY <1>1
<1> QED BY <1>1, <1>2, <1>3, <1>4, <1>5, WireOnly

LEMMA ServerListsInv ==
  ASSUME PanelInv, NEW c \in wire, ServerLists(c)
  PROVE  PanelInv'
<1>1. /\ c.kind = "fetch"
      /\ UNCHANGED <<panel, submits, saved, shown, form, typedUpTo, copies, unheard, orphans, otherCopy,
                     dropped, accepted, submitted>>
  BY DEF ServerLists
<1>2. PICK d : /\ d = [kind |-> "fetch", stage |-> "ok", rows |-> saved]
               /\ wire' = (wire \ {c}) \cup {d}
  BY DEF ServerLists
<1>3. Mine' = Mine /\ Onward
  BY <1>1, SameMine DEF Onward, PanelInv, PanelTypeInv
<1>4. d.kind = "fetch" /\ d.stage = "ok" /\ d.rows = saved
  BY <1>2
<1>5. IsMessage(d)'
  <2>1. PICK t : t = saved
    OBVIOUS
  <2>2. IsRows(t)
    BY <2>1 DEF PanelInv, PanelTypeInv
  <2>3. IsRows(t)'
    BY <1>3, <2>2, CopiesStay DEF PanelInv
  <2>4. d.rows = t
    BY <1>4, <2>1
  <2>5. IsFetch(d)'
    BY <1>4, <2>3, <2>4 DEF IsFetch
  <2> QED BY <1>4, <2>5 DEF IsMessage
<1>6. wire \ {c} \in SUBSET wire /\ \A e \in wire \ (wire \ {c}) : e.kind # "save"
  BY <1>1
<1> QED BY <1>1, <1>2, <1>3, <1>4, <1>5, <1>6, WireOnly

LEMMA RowsShownInv ==
  ASSUME PanelInv, NEW c \in wire, RowsShown(c)
  PROVE  PanelInv'
<1>1. /\ c.kind = "fetch" /\ c.stage = "ok" /\ shown' = c.rows /\ wire' = wire \ {c}
      /\ UNCHANGED <<panel, submits, saved, form, typedUpTo, copies, unheard, orphans, otherCopy,
                     dropped, accepted, submitted>>
  BY DEF RowsShown
<1>2. Mine' = Mine /\ Onward
  BY <1>1, SameMine DEF Onward, PanelInv, PanelTypeInv
<1>3. IsMessage(c)'
  BY <1>2, CopiesStay DEF PanelInv, PanelTypeInv
<1>4. IsRows(shown)'
  <2>1. PICK t : t = c.rows
    OBVIOUS
  <2>2. IsRows(t)
    BY <1>1, <2>1 DEF PanelInv, PanelTypeInv, IsMessage, IsFetch
  <2>3. IsRows(t)'
    BY <1>2, <2>2, CopiesStay DEF PanelInv
  <2> QED BY <1>1, <2>1, <2>3 DEF IsRows
<1>5. wire \ {c} \in SUBSET wire /\ c.kind # "save" /\ \A e \in wire \ (wire \ {c}) : e.kind # "save"
  BY <1>1
<1> QED BY <1>1, <1>2, <1>3, <1>4, <1>5, WireOnly

\* A file that was read and put away again.
LEMMA NothingIsRows ==
  ASSUME panel \in PanelKinds, panel' = panel, otherCopy' = Unread, panel.stores = "file"
  PROVE  IsRows(otherCopy)'
<1>1. DOMAIN Unread = {} /\ panel.edits # "changed"
  BY PanelFacts DEF Unread
<1> QED BY <1>1 DEF IsRows, TableOK

LEMMA OtherAdminReadsInv ==
  ASSUME PanelInv, OtherAdminReads
  PROVE  PanelInv'
<1>1. /\ otherCopy' = saved
      /\ UNCHANGED <<panel, submits, saved, shown, form, wire, typedUpTo, copies, unheard, orphans,
                     dropped, accepted, submitted>>
  BY DEF OtherAdminReads
<1>2. Mine' = Mine /\ Onward
  BY <1>1, SameMine DEF Onward, PanelInv, PanelTypeInv
<1>3. IsRows(otherCopy)'
  <2>1. PICK t : t = saved
    OBVIOUS
  <2>2. IsRows(t)
    BY <2>1 DEF PanelInv, PanelTypeInv
  <2>3. IsRows(t)'
    BY <1>2, <2>2, CopiesStay DEF PanelInv
  <2> QED BY <1>1, <2>1, <2>3 DEF IsRows
<1>4. PanelTypeInv'
  <2>1. /\ {copies', unheard'} \subseteq Nat /\ Mine' \subseteq 1..(typedUpTo')
        /\ \A c \in wire' : c \in wire
    BY <1>1, <1>2 DEF PanelInv, PanelTypeInv
  <2> QED BY <1>1, <1>2, <1>3, <2>1, TypeStays DEF PanelInv
<1>5. KeptInv'
  BY <1>1 DEF PanelInv, KeptInv, OneSave, TypedGoesOut, FormOpen, FormValues
<1>6. RowsInv'
  BY <1>1 DEF PanelInv, RowsInv, OneOwn, Own
<1> QED BY <1>4, <1>5, <1>6 DEF PanelInv

LEMMA OtherAdminWritesInv ==
  ASSUME PanelInv, NEW r \in RowIds, NEW x \in FieldNames, OtherAdminWrites(r, x)
  PROVE  PanelInv'
<1>0. PICK t : t = IF panel.stores = "file" THEN otherCopy ELSE saved
  OBVIOUS
<1>1. /\ r \in DOMAIN t /\ typedUpTo' = typedUpTo + 1
      /\ saved' = [t EXCEPT ![r][x] = typedUpTo + 1] /\ otherCopy' = Unread
      /\ UNCHANGED <<panel, submits, shown, form, wire, copies, unheard, orphans, dropped, accepted,
                     submitted>>
  BY <1>0 DEF OtherAdminWrites
<1>2. typedUpTo \in Nat /\ Mine' = Mine /\ Onward /\ Mine \subseteq 1..typedUpTo
  BY <1>1, SameMine DEF Onward, PanelInv, PanelTypeInv
<1>3. IsRows(saved)'
  <2>2. IsRows(t)
    BY <1>0 DEF PanelInv, PanelTypeInv
  <2>3. IsRows(t)'
    BY <1>2, <2>2, CopiesStay DEF PanelInv
  <2>4. /\ DOMAIN saved' = DOMAIN t /\ \A s \in DOMAIN t \ {r} : saved'[s] = t[s]
        /\ saved'[r] = [t[r] EXCEPT ![x] = typedUpTo + 1]
    BY <1>1
  <2>5. DOMAIN t[r] = FieldNames
    BY <1>1, <2>2 DEF IsRows, TableOK, RowOK
  <2>6. /\ DOMAIN saved'[r] = FieldNames /\ saved'[r][x] = typedUpTo + 1
        /\ \A y \in FieldNames \ {x} : saved'[r][y] = t[r][y]
    BY <2>4, <2>5
  <2>7. RowOK(t[r], typedUpTo', Mine', accepted')
    BY <1>1, <2>3 DEF IsRows, TableOK
  <2>8. RowOK(saved'[r], typedUpTo', Mine', accepted')
    BY <1>1, <1>2, <2>6, <2>7 DEF RowOK
  <2>9. TableOK(saved', typedUpTo', Mine', accepted')
    BY <2>3, <2>4, <2>8 DEF IsRows, TableOK
  <2> QED BY <2>3, <2>4, <2>9 DEF IsRows
<1>4. PanelTypeInv'
  <2>1. {copies', unheard'} \subseteq Nat /\ Mine' \subseteq 1..(typedUpTo') /\ \A c \in wire' : c \in wire
    BY <1>1, <1>2 DEF PanelInv, PanelTypeInv
  <2>3. panel.stores # "file" \/ IsRows(otherCopy)'
    BY <1>1, NothingIsRows DEF PanelInv, PanelTypeInv
  <2> QED BY <1>1, <1>2, <1>3, <2>1, <2>3, TypeStays DEF PanelInv
<1>5. KeptInv'
  BY <1>1 DEF PanelInv, KeptInv, OneSave, TypedGoesOut, FormOpen, FormValues
<1>6. RowsInv'
  BY <1>1 DEF PanelInv, RowsInv, OneOwn, Own
<1> QED BY <1>4, <1>5, <1>6 DEF PanelInv

\* A message that goes on to another stage is well formed there.
LEMMA StageOK ==
  ASSUME PanelInv, Onward, NEW c \in wire, c.kind \in {"save", "click"},
         NEW stage \in {"sent", "read", "ok", "refused", "lost"}, NEW held,
         NEW d, d = At(c, stage, held),
         stage = "read" => panel.stores = "file" /\ IsRows(held),
         stage = "ok" => \A x \in DOMAIN c.body : c.body[x] \in accepted'
  PROVE  IsMessage(d)'
<1>1. /\ DOMAIN d = DOMAIN c /\ d.kind = c.kind /\ d.row = c.row /\ d.stage = stage
      /\ d.new = c.new /\ d.body = c.body /\ d.typed = c.typed /\ d.n = c.n /\ d.copy = held
  BY StageFacts
<1>2. IsMessage(c)'
  BY CopiesStay DEF PanelInv, PanelTypeInv
<1>3. IsSave(c)'
  BY <1>2 DEF IsMessage
<1>4. IsSave(d)'
  <2>1. Reading(d)'
    BY <1>1, CopiesStay DEF Reading, Onward, PanelInv
  <2> QED BY <1>1, <1>3, <2>1 DEF IsSave
<1> QED BY <1>1, <1>4 DEF IsMessage

\* The step of a save to another stage leaves what is counted alone.
LEMMA StageCounts ==
  ASSUME PanelInv, NEW c \in wire, NEW d, d.kind = c.kind, c.kind = "save" => d.n = c.n,
         UNCHANGED <<panel, form, copies, unheard, orphans>>, wire' = (wire \ {c}) \cup {d},
         Own(c) => c.stage # "ok"
  PROVE  RowsInv'
<1>1. wire \ {c} \in SUBSET wire /\ wire' \subseteq (wire \ {c}) \cup {d}
  OBVIOUS
<1>2. Own(d) => \E e \in wire \ (wire \ {c}) : Own(e)
  BY DEF Own
<1>3. \A e \in wire : Own(e) /\ e.stage = "ok" => e \in wire'
  OBVIOUS
<1> QED BY <1>1, <1>2, <1>3, CopiesCountStays DEF PanelInv

\* The handler has read the file.
LEMMA FileReadInv ==
  ASSUME PanelInv, NEW c \in wire, FileRead(c)
  PROVE  PanelInv'
<1>1. /\ panel.stores = "file" /\ c.kind \in {"save", "click", "delete"} /\ c.stage = "sent"
      /\ UNCHANGED <<panel, submits, saved, shown, form, typedUpTo, copies, unheard, orphans,
                     otherCopy, dropped, accepted, submitted>>
  BY DEF FileRead
<1>2. PICK d : d = At(c, "read", saved) /\ wire' = (wire \ {c}) \cup {d}
  BY DEF FileRead, At
<1>3. Mine' = Mine /\ Onward
  BY <1>1, SameMine DEF Onward, PanelInv, PanelTypeInv
<1>4. /\ DOMAIN d = DOMAIN c /\ d.kind = c.kind /\ d.stage = "read" /\ d.copy = saved
      /\ c.kind \in {"save", "click"} => d.body = c.body /\ d.n = c.n
  BY <1>1, <1>2, StageFacts
<1>5. PICK t : t = saved
  OBVIOUS
<1>6. IsRows(t) /\ IsRows(t)'
  BY <1>3, <1>5, CopiesStay DEF PanelInv, PanelTypeInv
<1>7. IsMessage(d)'
  <2>1. CASE c.kind \in {"save", "click"}
    BY <1>1, <1>2, <1>3, <1>5, <1>6, <2>1, StageOK
  <2>2. CASE c.kind = "delete"
    <3>1. IsDelete(d)'
      BY <1>1, <1>4, <1>5, <1>6, <2>2 DEF IsDelete, Reading, IsMessage, PanelInv, PanelTypeInv
    <3> QED BY <1>4, <2>2, <3>1 DEF IsMessage
  <2> QED BY <1>1, <2>1, <2>2
<1>8. PanelTypeInv'
  <2>1. {copies', unheard'} \subseteq Nat /\ Mine' \subseteq 1..(typedUpTo')
    BY <1>1, <1>3 DEF PanelInv, PanelTypeInv
  <2>2. \A e \in wire' : e \in wire \/ IsMessage(e)'
    BY <1>2, <1>7
  <2> QED BY <1>1, <1>3, <2>1, <2>2, TypeStays DEF PanelInv
<1>9. KeptInv'
  <2>1. /\ wire \ {c} \in SUBSET wire /\ wire' \subseteq (wire \ {c}) \cup {d}
        /\ d.kind = "save" => \E e \in wire \ (wire \ {c}) : e.kind = "save" /\ e.body = d.body
    BY <1>2, <1>4
  <2>2. UNCHANGED <<panel, form, submitted>> /\ accepted \subseteq accepted' /\ dropped \subseteq dropped'
    BY <1>1
  <2> QED BY <2>1, <2>2, KeptStays DEF PanelInv
<1>10. RowsInv'
  BY <1>1, <1>2, <1>4, StageCounts
<1> QED BY <1>8, <1>9, <1>10 DEF PanelInv

LEMMA ServerRefusesInv ==
  ASSUME PanelInv, NEW c \in wire, ServerRefuses(c)
  PROVE  PanelInv'
<1>1. /\ c.kind \in {"save", "click"} /\ c.stage = "sent"
      /\ UNCHANGED <<panel, submits, saved, shown, form, typedUpTo, copies, unheard, orphans, otherCopy,
                     dropped, accepted, submitted>>
  BY DEF ServerRefuses
<1>2. PICK d : d = At(c, "refused", Unread) /\ wire' = (wire \ {c}) \cup {d}
  BY DEF ServerRefuses, Answer, At
<1>3. Mine' = Mine /\ Onward
  BY <1>1, SameMine DEF Onward, PanelInv, PanelTypeInv
<1>4. d.kind = c.kind /\ d.body = c.body /\ d.n = c.n
  BY <1>1, <1>2, StageFacts
<1>5. IsMessage(d)'
  BY <1>1, <1>2, <1>3, StageOK
<1>6. PanelTypeInv'
  <2>1. {copies', unheard'} \subseteq Nat /\ Mine' \subseteq 1..(typedUpTo')
    BY <1>1, <1>3 DEF PanelInv, PanelTypeInv
  <2>2. \A e \in wire' : e \in wire \/ IsMessage(e)'
    BY <1>2, <1>5
  <2> QED BY <1>1, <1>3, <2>1, <2>2, TypeStays DEF PanelInv
<1>7. KeptInv'
  <2>1. /\ wire \ {c} \in SUBSET wire /\ wire' \subseteq (wire \ {c}) \cup {d}
        /\ d.kind = "save" => \E e \in wire \ (wire \ {c}) : e.kind = "save" /\ e.body = d.body
    BY <1>2, <1>4
  <2>2. UNCHANGED <<panel, form, submitted>> /\ accepted \subseteq accepted' /\ dropped \subseteq dropped'
    BY <1>1
  <2> QED BY <2>1, <2>2, KeptStays DEF PanelInv
<1>8. RowsInv'
  BY <1>1, <1>2, <1>4, StageCounts
<1> QED BY <1>6, <1>7, <1>8 DEF PanelInv

LEMMA ServerSavesInv ==
  ASSUME PanelInv, NEW c \in wire, ServerSaves(c)
  PROVE  PanelInv'
<1>0. PICK t : t = Held(c)
  OBVIOUS
<1>1. /\ c.kind \in {"save", "click"} /\ Ready(c) /\ c.stage # "ok"
      /\ accepted' = accepted \cup {c.body[x] : x \in DOMAIN c.body}
      /\ UNCHANGED <<panel, submits, shown, form, typedUpTo, unheard, orphans, otherCopy, dropped,
                     submitted>>
      /\ \/ /\ ~c.new /\ c.row \in DOMAIN t /\ copies' = copies
            /\ saved' = [t EXCEPT ![c.row] = Over(c.body, @)]
         \/ /\ c.new /\ saved' = Over(t, [r \in {c.row} |-> c.body])
            /\ copies' = IF OfThisForm(c) THEN copies + 1 ELSE copies
  BY <1>0 DEF ServerSaves, Ready
<1>2. PICK d : d = At(c, "ok", Unread) /\ wire' = (wire \ {c}) \cup {d}
  BY DEF ServerSaves, Answer, At
<1>3. Mine' = Mine /\ Onward
  BY <1>1, SameMine DEF Onward, PanelInv, PanelTypeInv
<1>4. d.kind = c.kind /\ d.body = c.body /\ d.new = c.new /\ d.n = c.n /\ d.stage = "ok"
  BY <1>1, <1>2, StageFacts
<1>5. IsMessage(d)'
  BY <1>1, <1>2, <1>3, StageOK
<1>6. IsSave(c)
  BY <1>1 DEF PanelInv, PanelTypeInv, IsMessage
<1>7. IsRows(saved)'
  <2>2. IsRows(t)
    BY <1>0, <1>1, HeldRows
  <2>3. IsRows(t)'
    BY <1>3, <2>2, CopiesStay DEF PanelInv
  <2>4. \A x \in DOMAIN c.body : c.body[x] \in 0..(typedUpTo') /\ c.body[x] \in accepted'
    BY <1>1, <1>6 DEF IsSave
  <2>5. CASE ~c.new /\ c.row \in DOMAIN t /\ saved' = [t EXCEPT ![c.row] = Over(c.body, @)]
    <3>1. /\ DOMAIN saved' = DOMAIN t /\ \A s \in DOMAIN t \ {c.row} : saved'[s] = t[s]
          /\ saved'[c.row] = Over(c.body, t[c.row])
      BY <2>5
    <3>2. RowOK(t[c.row], typedUpTo', Mine', accepted')
      BY <2>3, <2>5 DEF IsRows, TableOK
    <3>3. DOMAIN c.body \subseteq FieldNames
      BY <1>6 DEF IsSave
    <3>4. /\ DOMAIN saved'[c.row] = FieldNames
          /\ \A x \in FieldNames : saved'[c.row][x] = IF x \in DOMAIN c.body THEN c.body[x] ELSE t[c.row][x]
      BY <3>1, <3>2, <3>3 DEF Over, RowOK
    <3>5. RowOK(saved'[c.row], typedUpTo', Mine', accepted')
      BY <2>4, <3>2, <3>4 DEF RowOK
    <3>6. TableOK(saved', typedUpTo', Mine', accepted')
      BY <2>3, <3>1, <3>5 DEF IsRows, TableOK
    <3> QED BY <2>3, <3>1, <3>6 DEF IsRows
  <2>6. CASE c.new /\ saved' = Over(t, [r \in {c.row} |-> c.body])
    <3>1. /\ DOMAIN saved' = DOMAIN t \cup {c.row} /\ \A s \in DOMAIN t : saved'[s] = t[s]
          /\ c.row \notin DOMAIN t => saved'[c.row] = c.body
      BY <2>6 DEF Over
    <3>2. c.row \in RowIds /\ DOMAIN c.body = FieldNames /\ panel.creates
      BY <1>6, <2>6 DEF IsSave
    <3>3. RowOK(c.body, typedUpTo', Mine', accepted')
      BY <2>4, <3>2 DEF RowOK
    <3>4. TableOK(saved', typedUpTo', Mine', accepted')
      BY <2>3, <3>1, <3>2, <3>3 DEF IsRows, TableOK
    <3>5. panel'.edits # "changed"
      BY <1>1, <3>2, PanelFacts DEF PanelInv, PanelTypeInv
    <3> QED BY <3>4, <3>5 DEF IsRows
  <2> QED BY <1>1, <2>5, <2>6
<1>8. PanelTypeInv'
  <2>1. {copies', unheard'} \subseteq Nat
    BY <1>1 DEF PanelInv, PanelTypeInv
  <2>2. Mine' \subseteq 1..(typedUpTo')
    BY <1>1, <1>3 DEF PanelInv, PanelTypeInv
  <2>3. \A e \in wire' : e \in wire \/ IsMessage(e)'
    BY <1>2, <1>5
  <2> QED BY <1>1, <1>3, <1>7, <2>1, <2>2, <2>3, TypeStays DEF PanelInv
<1>9. KeptInv'
  <2>1. /\ wire \ {c} \in SUBSET wire /\ wire' \subseteq (wire \ {c}) \cup {d}
        /\ d.kind = "save" => \E e \in wire \ (wire \ {c}) : e.kind = "save" /\ e.body = d.body
    BY <1>2, <1>4
  <2>2. UNCHANGED <<panel, form, submitted>> /\ accepted \subseteq accepted' /\ dropped \subseteq dropped'
    BY <1>1
  <2> QED BY <2>1, <2>2, KeptStays DEF PanelInv
<1>10. RowsInv'
  <2>1. CASE copies' = copies
    BY <1>1, <1>2, <1>4, <2>1, StageCounts
  <2>2. CASE copies' = copies + 1 /\ c.new /\ OfThisForm(c)
    <3> SUFFICES ASSUME panel.busy # "no"
                 PROVE  /\ OneOwn' /\ copies' <= unheard' + 1
                        /\ \E e \in wire' : Own(e)' /\ e.new /\ e.stage = "ok"
      BY <1>1 DEF RowsInv
    <3>1. Own(c)
      BY <1>1, <1>6, <2>2 DEF IsSave, Own, OfThisForm
    <3>2. \A e \in wire : Own(e) => e = c
      BY <3>1 DEF PanelInv, RowsInv, OneOwn
    <3>3. copies <= unheard
      BY <1>1, <2>2, <3>2 DEF PanelInv, RowsInv, OfThisForm
    <3>4. d \in wire' /\ Own(d)' /\ d.new /\ d.stage = "ok"
      BY <1>1, <1>2, <1>4, <2>2, <3>1 DEF Own
    <3>5. OneOwn'
      BY <1>1, <1>2, <3>2 DEF OneOwn, Own
    <3> QED BY <1>1, <2>2, <3>3, <3>4, <3>5 DEF PanelInv, PanelTypeInv
  <2> QED BY <1>1, <2>1, <2>2
<1> QED BY <1>8, <1>9, <1>10 DEF PanelInv

LEMMA AnswerLostInv ==
  ASSUME PanelInv, NEW c \in wire, AnswerLost(c)
  PROVE  PanelInv'
<1>1. /\ c.kind \in {"save", "click"} /\ c.stage \in {"sent", "ok"}
      /\ unheard' = IF c.stage = "ok" /\ c.new /\ OfThisForm(c) THEN unheard + 1 ELSE unheard
      /\ UNCHANGED <<panel, submits, saved, shown, form, typedUpTo, copies, orphans, otherCopy, dropped,
                     accepted, submitted>>
  BY DEF AnswerLost
<1>2. PICK d : d = At(c, "lost", Unread) /\ wire' = (wire \ {c}) \cup {d}
  BY DEF AnswerLost, Answer, At
<1>3. Mine' = Mine /\ Onward
  BY <1>1, SameMine DEF Onward, PanelInv, PanelTypeInv
<1>4. d.kind = c.kind /\ d.body = c.body /\ d.n = c.n
  BY <1>1, <1>2, StageFacts
<1>5. IsMessage(d)'
  BY <1>1, <1>2, <1>3, StageOK
<1>6. PanelTypeInv'
  <2>1. {copies', unheard'} \subseteq Nat
    BY <1>1 DEF PanelInv, PanelTypeInv
  <2>2. Mine' \subseteq 1..(typedUpTo')
    BY <1>1, <1>3 DEF PanelInv, PanelTypeInv
  <2>3. \A e \in wire' : e \in wire \/ IsMessage(e)'
    BY <1>2, <1>5
  <2> QED BY <1>1, <1>3, <2>1, <2>2, <2>3, TypeStays DEF PanelInv
<1>7. KeptInv'
  <2>1. /\ wire \ {c} \in SUBSET wire /\ wire' \subseteq (wire \ {c}) \cup {d}
        /\ d.kind = "save" => \E e \in wire \ (wire \ {c}) : e.kind = "save" /\ e.body = d.body
    BY <1>2, <1>4
  <2>2. UNCHANGED <<panel, form, submitted>> /\ accepted \subseteq accepted' /\ dropped \subseteq dropped'
    BY <1>1
  <2> QED BY <2>1, <2>2, KeptStays DEF PanelInv
<1>8. RowsInv'
  <2> SUFFICES ASSUME panel.busy # "no"
               PROVE  /\ OneOwn' /\ copies <= unheard' + 1
                      /\ form.new => \/ copies <= unheard'
                                     \/ \E e \in wire' : Own(e)' /\ e.new /\ e.stage = "ok"
    BY <1>1 DEF RowsInv
  <2>1. /\ copies \in Nat /\ unheard \in Nat /\ copies <= unheard + 1
        /\ form.new => \/ copies <= unheard
                       \/ \E e \in wire : Own(e) /\ e.new /\ e.stage = "ok"
        /\ OneOwn
    BY DEF PanelInv, PanelTypeInv, RowsInv
  <2>4. OneOwn'
    <3>1. \A e \in wire' : Own(e)' => (e \in wire \ {c} /\ Own(e)) \/ (e = d /\ Own(c))
      BY <1>1, <1>2, <1>4 DEF Own
    <3>2. \A e, f \in wire' : Own(e)' /\ Own(f)' => e = f
      BY <2>1, <3>1 DEF OneOwn
    <3> QED BY <3>2 DEF OneOwn
  <2>2. CASE unheard' = unheard + 1
    BY <2>1, <2>2, <2>4
  <2>3. CASE unheard' = unheard /\ ~(c.stage = "ok" /\ c.new /\ OfThisForm(c))
    <3>1. ASSUME form.new, NEW e \in wire, Own(e), e.new, e.stage = "ok"
          PROVE  e \in wire' /\ Own(e)'
      BY <1>1, <1>2, <2>3, <3>1 DEF Own, OfThisForm
    <3> QED BY <2>1, <2>3, <2>4, <3>1
  <2> QED BY <1>1, <2>2, <2>3
<1> QED BY <1>6, <1>7, <1>8 DEF PanelInv

LEMMA SaveAnsweredInv ==
  ASSUME PanelInv, NEW c \in wire, SaveAnswered(c)
  PROVE  PanelInv'
<1>1. /\ c.kind = "save" /\ c.stage # "sent"
      /\ form' = IF Closes(c) THEN ClosedForm ELSE form
      /\ UNCHANGED <<panel, submits, saved, shown, typedUpTo, copies, unheard, orphans, otherCopy,
                     dropped, accepted, submitted>>
  BY DEF SaveAnswered
<1>2. PICK d : /\ d = [kind |-> "fetch", stage |-> "sent"]
               /\ c.stage = "ok" => wire' = (wire \ {c}) \cup {d}
               /\ c.stage # "ok" => wire' = wire \ {c}
  BY DEF SaveAnswered
<1>3. d.kind = "fetch" /\ IsMessage(d)'
  BY <1>2 DEF IsMessage, IsFetch
<1>4. Closes(c) => ~FormOpen' /\ form'.new = FALSE
  BY <1>1 DEF FormOpen, ClosedForm
<1>5. Onward /\ Mine' \subseteq Mine
  <2>1. Mine' \subseteq Mine
    BY <1>1, <1>4 DEF Mine, FormOpen
  <2> QED BY <1>1, <2>1 DEF Onward, PanelInv, PanelTypeInv
<1>6. PanelTypeInv'
  <2>1. {copies', unheard'} \subseteq Nat /\ Mine' \subseteq 1..(typedUpTo')
    BY <1>1, <1>5 DEF PanelInv, PanelTypeInv
  <2>2. \A e \in wire' : e \in wire \/ IsMessage(e)'
    BY <1>2, <1>3
  <2>3. form' = form \/ FormOK'
    BY <1>1, <1>4 DEF FormOK
  <2> QED BY <1>1, <1>5, <2>1, <2>2, <2>3, TypeStays DEF PanelInv
<1>7. KeptInv'
  <2>1. wire \ {c} \in SUBSET wire /\ wire' \subseteq (wire \ {c}) \cup {d} /\ d.kind # "save"
    BY <1>2, <1>3
  <2>2. CASE form' = form
    BY <1>1, <2>1, <2>2, KeptStays DEF PanelInv
  <2>3. CASE Closes(c)
    <3> SUFFICES ASSUME panel.busy = "panel"
                 PROVE  /\ OneSave'
                        /\ panel.closes = "ok" =>
                             TypedGoesOut' /\ (submitted \subseteq accepted \cup dropped \cup FormValues)'
      BY <1>1 DEF KeptInv
    <3>1. OneSave'
      BY <2>1 DEF PanelInv, KeptInv, OneSave
    <3>2. TypedGoesOut'
      BY <1>4, <2>3 DEF TypedGoesOut
    <3>3. ASSUME panel.closes = "ok", NEW v \in submitted
          PROVE  v \in accepted \cup dropped
      <4>1. c.stage = "ok"
        BY <2>3, <3>3 DEF Closes
      <4>2. \A x \in DOMAIN c.body : c.body[x] \in accepted
        BY <1>1, <4>1 DEF PanelInv, PanelTypeInv, IsMessage, IsSave
      <4>3. v \in accepted \cup dropped \cup FormValues
        BY <3>3 DEF PanelInv, KeptInv
      <4>4. ASSUME FormOpen, NEW x \in FieldNames, v = form.vals[x]
            PROVE  v \in accepted \cup dropped
        <5>1. CASE x \in form.typed
          <6>1. v \in accepted \cup dropped \cup {c.body[y] : y \in DOMAIN c.body}
            BY <1>1, <3>3, <4>4, <5>1 DEF PanelInv, KeptInv, TypedGoesOut
          <6> QED BY <4>2, <6>1
        <5>2. CASE x \notin form.typed
          BY <3>3, <4>4, <5>2, OpenForm DEF PanelInv, Mine
        <5> QED BY <5>1, <5>2
      <4> QED BY <4>3, <4>4 DEF FormValues
    <3> QED BY <1>1, <3>1, <3>2, <3>3
  <2> QED BY <1>1, <2>2, <2>3
<1>8. RowsInv'
  <2>1. CASE Closes(c)
    <3>1. \A e \in wire' : Own(e)' => e \in wire /\ Own(e)
      BY <1>1, <1>2 DEF Own
    <3> QED BY <1>1, <1>4, <2>1, <3>1 DEF PanelInv, RowsInv, OneOwn
  <2>2. CASE ~Closes(c)
    <3>1. c.stage # "ok" /\ form' = form
      BY <1>1, <2>2 DEF Closes
    <3>2. wire' = wire \ {c}
      BY <1>2, <3>1
    <3> QED BY <1>1, <3>1, <3>2 DEF PanelInv, RowsInv, OneOwn, Own
  <2> QED BY <2>1, <2>2
<1> QED BY <1>6, <1>7, <1>8 DEF PanelInv

LEMMA PanelNextInv ==
  ASSUME PanelInv, PanelNext
  PROVE  PanelInv'
<1>1. ASSUME NEW r \in RowIds, StartEdit(r) \/ ClickDelete(r)
      PROVE  PanelInv'
  BY <1>1, StartEditInv, ClickDeleteInv
<1>2. CASE StartCreate \/ DiscardForm \/ SubmitForm \/ OtherAdminReads
  BY <1>2, StartCreateInv, DiscardFormInv, SubmitFormInv, OtherAdminReadsInv
<1>3. ASSUME NEW x \in FieldNames, TypeField(x)
      PROVE  PanelInv'
  BY <1>3, TypeFieldInv
<1>4. ASSUME NEW c \in wire, \/ FileRead(c) \/ ServerSaves(c) \/ ServerRefuses(c) \/ ServerDeletes(c) \/ AnswerLost(c)
      PROVE  PanelInv'
  BY <1>4, FileReadInv, ServerSavesInv, ServerRefusesInv, ServerDeletesInv, AnswerLostInv
<1>5. ASSUME NEW c \in wire, \/ SaveAnswered(c) \/ ButtonAnswered(c) \/ ServerLists(c) \/ RowsShown(c)
      PROVE  PanelInv'
  BY <1>5, SaveAnsweredInv, ButtonAnsweredInv, ServerListsInv, RowsShownInv
<1>6. ASSUME NEW r \in RowIds, NEW x \in FieldNames, OtherAdminWrites(r, x) \/ ClickField(r, x)
      PROVE  PanelInv'
  BY <1>6, OtherAdminWritesInv, ClickFieldInv
<1> QED BY <1>1, <1>2, <1>3, <1>4, <1>5, <1>6 DEF PanelNext

\* What a step that ends a request does to the row it is about.
TypedOnly ==
  \A c \in wire : \A x \in FieldNames :
    /\ c.kind \in {"save", "click"} /\ ~c.new /\ c.row \in Existing /\ panel.edits # "whole"
    /\ saved = Held(c)
    /\ c \notin wire' /\ saved'[c.row][x] # saved[c.row][x]
    => x \in c.typed

LEMMA TypedOnlyStep ==
  ASSUME PanelInv, [PanelNext]_panelVars
  PROVE  TypedOnly
<1> SUFFICES ASSUME NEW c \in wire, NEW x \in FieldNames,
                    c.kind \in {"save", "click"}, ~c.new, c.row \in DOMAIN saved,
                    panel.edits # "whole", saved = Held(c), c \notin wire', saved'[c.row][x] # saved[c.row][x]
             PROVE  x \in c.typed
  BY DEF TypedOnly, Existing
<1>1. ASSUME saved' = saved
      PROVE  FALSE
  BY <1>1
<1>2. ASSUME wire \subseteq wire'
      PROVE  FALSE
  BY <1>2
<1>3. IsSave(c)
  BY DEF PanelInv, PanelTypeInv, IsMessage
<1>4. ASSUME NEW r \in RowIds, StartEdit(r) \/ ClickDelete(r)
      PROVE  FALSE
  BY <1>1, <1>4 DEF StartEdit, ClickDelete
<1>5. CASE StartCreate \/ DiscardForm \/ SubmitForm \/ OtherAdminReads
  BY <1>1, <1>5 DEF StartCreate, DiscardForm, SubmitForm, OtherAdminReads
<1>6. ASSUME NEW y \in FieldNames, TypeField(y)
      PROVE  FALSE
  BY <1>1, <1>6 DEF TypeField
<1>7. ASSUME NEW e \in wire, ServerSaves(e)
      PROVE  x \in c.typed
  <2>1. PICK d : wire' = (wire \ {e}) \cup {d}
    BY <1>7 DEF ServerSaves, Answer
  <2>2. e = c
    BY <2>1
  <2>3. saved' = [saved EXCEPT ![c.row] = Over(c.body, @)]
    BY <1>7, <2>2 DEF ServerSaves
  <2>4. saved'[c.row] = Over(c.body, saved[c.row])
    BY <2>3
  <2>5. DOMAIN saved[c.row] = FieldNames
    BY DEF PanelInv, PanelTypeInv, IsRows, TableOK, RowOK
  <2>6. x \in DOMAIN c.body
    BY <2>4, <2>5 DEF Over
  <2> QED BY <1>3, <2>6 DEF IsSave
<1>8. ASSUME NEW e \in wire, ServerDeletes(e)
      PROVE  FALSE
  <2>1. e.kind = "delete" /\ \E stage \in {"ok", "refused"} : Answer(e, stage)
    BY <1>8 DEF ServerDeletes
  <2> QED BY <2>1 DEF Answer
<1>9. ASSUME NEW e \in wire, \/ FileRead(e) \/ ServerRefuses(e) \/ AnswerLost(e) \/ SaveAnswered(e)
                             \/ ButtonAnswered(e) \/ ServerLists(e) \/ RowsShown(e)
      PROVE  FALSE
  BY <1>1, <1>9 DEF FileRead, ServerRefuses, AnswerLost, SaveAnswered, ButtonAnswered, ServerLists, RowsShown
<1>10. ASSUME NEW r \in RowIds, NEW y \in FieldNames, OtherAdminWrites(r, y) \/ ClickField(r, y)
       PROVE  FALSE
  BY <1>1, <1>2, <1>10 DEF OtherAdminWrites, ClickField
<1>11. CASE UNCHANGED panelVars
  BY <1>1, <1>11 DEF panelVars
<1> QED BY <1>4, <1>5, <1>6, <1>7, <1>8, <1>9, <1>10, <1>11 DEF PanelNext

\* No panel loses what was submitted, repeats a form, or undoes what others
\* wrote, under the conditions its controls meet: for any number of values,
\* requests, refusals and lost answers.
THEOREM FormsCorrect == PanelSpec => FormsSafe
<1>1. PanelInit => PanelInv
  <2> SUFFICES ASSUME PanelInit
               PROVE  PanelInv
    OBVIOUS
  <2>1. /\ panel \in PanelKinds /\ form = ClosedForm /\ wire = {}
        /\ typedUpTo = 0 /\ copies = 0 /\ unheard = 0 /\ submitted = {} /\ shown = saved
        /\ submits = 0 /\ orphans = {} /\ otherCopy = Unread
        /\ saved = [r \in {1} |-> [x \in FieldNames |-> 0]]
    BY DEF PanelInit
  <2>2. ~FormOpen /\ form.new = FALSE
    BY <2>1 DEF FormOpen, ClosedForm
  <2>3. Mine = {}
    BY <2>1, <2>2 DEF Mine
  <2>4. IsRows(saved) /\ IsRows(shown)
    <3>1. DOMAIN saved = {1} /\ saved[1] = [x \in FieldNames |-> 0]
      BY <2>1
    <3>2. RowOK(saved[1], typedUpTo, Mine, accepted)
      BY <2>1, <2>3, <3>1 DEF RowOK
    <3> QED BY <2>1, <3>1, <3>2 DEF IsRows, TableOK, RowIds
  <2>8. panel.stores = "file" => IsRows(otherCopy)
    <3>1. DOMAIN Unread = {} /\ (panel.edits = "changed" => panel.stores # "file")
      BY <2>1, PanelFacts DEF Unread
    <3> QED BY <2>1, <3>1 DEF IsRows, TableOK
  <2>5. PanelTypeInv
    BY <2>1, <2>2, <2>3, <2>4, <2>8 DEF PanelTypeInv, FormOK
  <2>6. KeptInv
    BY <2>1 DEF KeptInv, OneSave, TypedGoesOut
  <2>7. RowsInv
    BY <2>1 DEF RowsInv, OneOwn
  <2> QED BY <2>5, <2>6, <2>7 DEF PanelInv
<1>2. PanelInv /\ [PanelNext]_panelVars => PanelInv'
  <2> SUFFICES ASSUME PanelInv, UNCHANGED panelVars
               PROVE  PanelInv'
    BY PanelNextInv
  <2>1. UNCHANGED <<panel, submits, saved, shown, form, typedUpTo, wire, copies, unheard, orphans,
                    otherCopy, dropped, accepted, submitted>>
    BY DEF panelVars
  <2>2. Mine' = Mine /\ Onward
    BY <2>1, SameMine DEF Onward, PanelInv, PanelTypeInv
  <2>3. PanelTypeInv'
    BY <2>1, <2>2, TypeStays DEF PanelInv, PanelTypeInv
  <2>4. KeptInv'
    BY <2>1 DEF PanelInv, KeptInv, OneSave, TypedGoesOut, FormOpen, FormValues
  <2>5. RowsInv'
    BY <2>1 DEF PanelInv, RowsInv, OneOwn, Own
  <2> QED BY <2>3, <2>4, <2>5 DEF PanelInv
<1>3. PanelInv => SubmittedIsKept /\ OneRowPerForm
  <2> SUFFICES ASSUME PanelInv
               PROVE  SubmittedIsKept /\ OneRowPerForm
    OBVIOUS
  <2>1. OneRowPerForm
    BY DEF PanelInv, PanelTypeInv, RowsInv, OneRowPerForm
  <2>2. SubmittedIsKept
    BY DEF PanelInv, KeptInv, SubmittedIsKept, FormValues, Saves
  <2> QED BY <2>1, <2>2
<1>4. PanelInv /\ [PanelNext]_panelVars => TypedOnly
  BY TypedOnlyStep
<1>5. PanelSpec => []PanelInv
  BY <1>1, <1>2, PTL DEF PanelSpec
<1>6. PanelSpec => [][TypedOnly]_panelVars
  BY <1>4, <1>5, PTL DEF PanelSpec
<1>7. OnlyTypedFieldsChange <=> [][TypedOnly]_panelVars
  BY PTL DEF OnlyTypedFieldsChange, TypedOnly
<1> QED BY <1>3, <1>5, <1>6, <1>7, PTL DEF FormsSafe

---------------------------------------------------------------------------
(***************************************************************************)
(* The connection of the browser: the inductive invariant.                 *)
(***************************************************************************)

\* A socket that is connecting or open is the one wsRef holds, and pings are
\* open only on sockets the gateway has accepted.
SocketInv(h) ==
    /\ \A s \in Sockets : ready[h][s] \in {"connecting", "open"} => hook[h].ws = s
    /\ \A s \in Sockets : owed[h][s] > 0 => link[h][s] = "accepted"

\* handshakeCompleteRef is about the socket in wsRef.
HandshakeInv(h) ==
    hook[h].done => hook[h].ws # NoSocket /\ link[h][hook[h].ws] = "accepted"

\* The pings an instance remembers are open on its socket; what it remembers
\* of an earlier socket it remembers only until that socket's close event,
\* and starts no ping before.
HeartbeatInv(h) ==
    LET k == hook[h] IN
    /\ k.missed <= k.sent
    /\ k.ws = NoSocket => k.sent = 0
    /\ k.ws # NoSocket =>
         /\ \/ k.sent <= owed[h][k.ws]
            \/ k.missed >= MaxMissedPongs /\ owed[h][k.ws] = 0
         /\ ~k.done /\ owed[h][k.ws] > 0 => k.sent = 0
         /\ ready[h][k.ws] \in {"closing", "closed"} =>
              k.sent = 0 \/ k.missed >= MaxMissedPongs

\* The page has one socket at a time, and its reconnect timer is pending only
\* while that socket is closed and no pong is missed.
PageInv(h) ==
    LET k == hook[h] IN
    /\ k.lost = 0
    /\ \A s \in Sockets : ready[h][s] # "closed" => k.ws = s /\ ~k.timer
    /\ ~k.done \/ k.timer => k.missed = 0
    /\ k.missed > 0 => k.ws # NoSocket /\ k.missed <= owed[h][k.ws]
    /\ k.refused => ~k.timer /\ \A s \in Sockets : ready[h][s] # "connecting"
    /\ ~k.url => k.ws = NoSocket /\ ~k.timer

HookRefsInv(h) ==
    /\ SocketInv(h) /\ HandshakeInv(h) /\ HeartbeatInv(h)
    /\ h \in Pages => PageInv(h)

GatewayInv == GatewayTypeOK /\ \A h \in Hooks : HookRefsInv(h)

---------------------------------------------------------------------------
(* Every handler of the browser preserves it.                              *)

\* Writing one entry of a table of tables.
LEMMA SetEntry ==
    ASSUME NEW S, NEW T, NEW V, NEW f \in [S -> [T -> V]],
           NEW x \in S, NEW y \in T, NEW v \in V
    PROVE  LET g == [f EXCEPT ![x][y] = v] IN
           /\ g \in [S -> [T -> V]]
           /\ \A t \in T : g[x][t] = IF t = y THEN v ELSE f[x][t]
           /\ \A z \in S \ {x} : g[z] = f[z]
<1> DEFINE row == [f[x] EXCEPT ![y] = v]
<1>1. row \in [T -> V] /\ \A t \in T : row[t] = IF t = y THEN v ELSE f[x][t]
  OBVIOUS
<1>2. [f EXCEPT ![x][y] = v] = [f EXCEPT ![x] = row]
  OBVIOUS
<1> HIDE DEF row
<1> QED BY <1>1, <1>2

\* The bounds are numbers.
LEMMA Bounds ==
    /\ MaxReconnectAttempts \in Nat \ {0} /\ MaxMissedPongs \in Nat \ {0}
    /\ MaxOwed \in Nat /\ MaxTimers \in Nat /\ MaxClicks \in Nat
    /\ NoSocket \notin Sockets
    /\ 0 \in 0..MaxReconnectAttempts /\ 0 \in 0..MaxMissedPongs /\ 0 \in 0..MaxOwed
    /\ \A n \in Nat : n <= MaxTimers => n \in 0..MaxTimers
  BY GatewayClientAssumption

\* The refs of an instance, one by one.
LEMMA RefsFields ==
    ASSUME NEW k \in Refs
    PROVE  /\ k.ws \in Sockets \cup {NoSocket}
           /\ k.attempts \in Nat /\ k.attempts <= MaxReconnectAttempts
           /\ k.lost \in Nat /\ k.lost <= MaxTimers
           /\ k.missed \in Nat /\ k.missed <= MaxMissedPongs
           /\ k.sent \in Nat /\ k.sent <= MaxOwed
  BY Bounds DEF Refs

\* Nothing an instance does touches the refs or sockets of another one.
LEMMA OtherHooksKeep ==
    ASSUME GatewayInv, NEW h \in Hooks, GatewayTypeOK', HookRefsInv(h)',
           \A x \in Hooks \ {h} : /\ hook'[x] = hook[x] /\ ready'[x] = ready[x]
                                  /\ link'[x] = link[x] /\ owed'[x] = owed[x]
    PROVE  GatewayInv'
<1> SUFFICES ASSUME NEW x \in Hooks, x # h
             PROVE  HookRefsInv(x)'
  BY DEF GatewayInv
<1>1. /\ hook'[x] = hook[x] /\ ready'[x] = ready[x]
      /\ link'[x] = link[x] /\ owed'[x] = owed[x]
  OBVIOUS
<1>2. HookRefsInv(x)
  BY DEF GatewayInv
<1> QED BY <1>1, <1>2 DEF HookRefsInv, SocketInv, HandshakeInv, HeartbeatInv, PageInv

\* Before anything is connected all refs are empty.
LEMMA GatewayInitInv == GatewayInit => GatewayInv
<1> SUFFICES ASSUME GatewayInit
             PROVE  GatewayInv
  OBVIOUS
<1> DEFINE k == [ws |-> NoSocket, url |-> FALSE, done |-> FALSE, manual |-> FALSE,
                 refused |-> FALSE, attempts |-> 0, timer |-> FALSE, lost |-> 0,
                 beat |-> FALSE, missed |-> 0, sent |-> 0]
<1>1. k \in Refs
  BY GatewayClientAssumption DEF Refs
<1>2. /\ k.ws = NoSocket /\ ~k.url /\ ~k.done /\ ~k.refused /\ ~k.timer
      /\ k.lost = 0 /\ k.missed = 0 /\ k.sent = 0
  OBVIOUS
<1>3. hook = [h \in Hooks |-> k]
  BY DEF GatewayInit
<1> HIDE DEF k
<1>4. GatewayTypeOK
  <2>1. 0 \in 0..MaxOwed /\ clicks \in 0..MaxClicks
    <3>1. MaxOwed \in Nat /\ MaxClicks \in Nat /\ clicks = 0
      BY GatewayClientAssumption DEF GatewayInit
    <3> QED BY <3>1
  <2>2. hook \in [Hooks -> Refs]
    BY <1>1, <1>3
  <2>3. isConnected \in BOOLEAN /\ mounted \in [Hooks -> {"before", "on", "off"}]
    BY DEF GatewayInit
  <2>4. /\ ready \in [Hooks -> [Sockets -> {"closed", "connecting", "open", "closing"}]]
        /\ link \in [Hooks -> [Sockets ->
                      {"none", "signing", "requested", "accepted", "dropped"}]]
        /\ owed \in [Hooks -> [Sockets -> 0..MaxOwed]]
    BY <2>1 DEF GatewayInit
  <2> QED BY <2>1, <2>2, <2>3, <2>4 DEF GatewayTypeOK
<1>5. ASSUME NEW h \in Hooks
      PROVE  HookRefsInv(h)
  <2>1. /\ hook[h] = k
        /\ \A s \in Sockets : /\ ready[h][s] = "closed" /\ link[h][s] = "none"
                              /\ owed[h][s] = 0
    BY <1>3 DEF GatewayInit
  <2> QED BY <1>2, <2>1 DEF HookRefsInv, SocketInv, HandshakeInv, HeartbeatInv, PageInv
<1> QED BY <1>4, <1>5 DEF GatewayInv

\* connect, called with refs that have lost a timer at most: it opens a socket
\* only when the instance has none that is connecting or open.
LEMMA ConnectInv ==
    ASSUME GatewayInv, NEW h \in Hooks, NEW k \in Refs, Connect(h, k),
           k = [hook[h] EXCEPT !.timer = k.timer, !.lost = k.lost],
           h \in Pages => /\ \A s \in Sockets : ready[h][s] = "closed"
                          /\ hook[h].missed = 0 /\ k.lost = 0 /\ ~k.timer,
           UNCHANGED <<isConnected, mounted>>, clicks' \in 0..MaxClicks
    PROVE  GatewayInv'
<1>1. /\ GatewayTypeOK /\ HookRefsInv(h) /\ hook[h] \in Refs
      /\ hook \in [Hooks -> Refs]
  BY DEF GatewayInv, GatewayTypeOK
<1>2. /\ k.ws = hook[h].ws /\ k.done = hook[h].done /\ k.missed = hook[h].missed
      /\ k.sent = hook[h].sent /\ k.url = hook[h].url /\ k.refused = hook[h].refused
  BY <1>1 DEF Refs
<1>3. CASE Live(h) /\ hook' = [hook EXCEPT ![h] = k] /\ UNCHANGED <<ready, link, owed>>
  <2>1. GatewayTypeOK'
    BY <1>1, <1>3 DEF GatewayTypeOK
  <2>2. hook'[h] = k /\ h \notin Pages
    BY <1>1, <1>3, GatewayClientAssumption DEF Live, Refs
  <2>3. HookRefsInv(h)'
    BY <1>1, <1>2, <1>3, <2>2 DEF HookRefsInv, SocketInv, HandshakeInv, HeartbeatInv
  <2> QED BY <1>1, <1>3, <2>1, <2>3, OtherHooksKeep
<1>4. ASSUME ~Live(h), NEW s \in Sockets, ready[h][s] = "closed",
             hook' = [hook EXCEPT ![h] = Fresh(k, s)],
             ready' = [ready EXCEPT ![h][s] = "connecting"],
             link' = [link EXCEPT ![h][s] = "none"],
             owed' = [owed EXCEPT ![h][s] = 0]
      PROVE  GatewayInv'
  <2> DEFINE j == Fresh(k, s)
  <2>1. /\ j \in Refs /\ j.ws = s /\ j.url /\ ~j.done /\ ~j.refused
        /\ j.lost = k.lost /\ j.timer = k.timer /\ j.missed = k.missed /\ j.sent = k.sent
    BY DEF Fresh, Refs
  <2> HIDE DEF j
  <2>2. 0 \in 0..MaxOwed
    BY GatewayClientAssumption
  <2>3. /\ hook'[h] = j
        /\ \A t \in Sockets :
             /\ ready'[h][t] = IF t = s THEN "connecting" ELSE ready[h][t]
             /\ link'[h][t] = IF t = s THEN "none" ELSE link[h][t]
             /\ owed'[h][t] = IF t = s THEN 0 ELSE owed[h][t]
    <3>1. hook'[h] = j
      BY <1>1, <1>4 DEF j
    <3>2. \A t \in Sockets : ready'[h][t] = IF t = s THEN "connecting" ELSE ready[h][t]
      <4>1. /\ ready \in [Hooks -> [Sockets -> {"closed", "connecting", "open", "closing"}]]
            /\ ready' = [ready EXCEPT ![h][s] = "connecting"]
        BY <1>1, <1>4 DEF GatewayTypeOK
      <4> QED BY <4>1
    <3>3. \A t \in Sockets : link'[h][t] = IF t = s THEN "none" ELSE link[h][t]
      <4>1. /\ link \in [Hooks -> [Sockets ->
                      {"none", "signing", "requested", "accepted", "dropped"}]]
            /\ link' = [link EXCEPT ![h][s] = "none"]
        BY <1>1, <1>4 DEF GatewayTypeOK
      <4> QED BY <4>1
    <3>4. \A t \in Sockets : owed'[h][t] = IF t = s THEN 0 ELSE owed[h][t]
      <4>1. /\ owed \in [Hooks -> [Sockets -> 0..MaxOwed]]
            /\ owed' = [owed EXCEPT ![h][s] = 0]
        BY <1>1, <1>4 DEF GatewayTypeOK
      <4> QED BY <4>1
    <3> QED BY <3>1, <3>2, <3>3, <3>4
  <2>4. GatewayTypeOK'
    <3>1. hook' \in [Hooks -> Refs]
      BY <1>1, <1>4, <2>1 DEF j
    <3> QED BY <1>1, <1>4, <2>2, <3>1, SetEntry DEF GatewayTypeOK
  <2>5. \A t \in Sockets : ready[h][t] \notin {"connecting", "open"}
    <3>1. hook[h].ws \in Sockets \cup {NoSocket}
      BY <1>1 DEF Refs
    <3> QED BY <1>1, <1>4, <3>1, GatewayClientAssumption DEF HookRefsInv, SocketInv, Live
  <2>6. SocketInv(h)'
    BY <1>1, <2>1, <2>3, <2>5 DEF HookRefsInv, SocketInv
  <2>7. HandshakeInv(h)'
    BY <2>1, <2>3 DEF HandshakeInv
  <2>8. HeartbeatInv(h)'
    <3>1. /\ k.missed \in Nat /\ k.sent \in Nat /\ k.missed <= k.sent
          /\ k.sent = 0 \/ k.missed >= MaxMissedPongs
      <4>1. hook[h].ws # NoSocket => ready[h][hook[h].ws] \in {"closing", "closed"}
        <5>1. hook[h].ws \in Sockets \cup {NoSocket}
          BY <1>1 DEF Refs
        <5>2. ready[h] \in [Sockets -> {"closed", "connecting", "open", "closing"}]
          BY <1>1 DEF GatewayTypeOK
        <5> QED BY <2>5, <5>1, <5>2
      <4> QED BY <1>1, <1>2, <4>1, GatewayClientAssumption DEF HookRefsInv, HeartbeatInv, Refs
    <3> QED BY <2>1, <2>3, <3>1, GatewayClientAssumption DEF HeartbeatInv
  <2>9. h \in Pages => PageInv(h)'
    <3> SUFFICES ASSUME h \in Pages
                 PROVE  PageInv(h)'
      OBVIOUS
    <3> QED BY <1>2, <2>1, <2>3, GatewayClientAssumption DEF PageInv
  <2>10. HookRefsInv(h)'
    BY <2>6, <2>7, <2>8, <2>9 DEF HookRefsInv
  <2> QED BY <1>1, <1>4, <2>4, <2>10, OtherHooksKeep DEF GatewayTypeOK
<1> QED BY <1>3, <1>4 DEF Connect

\* disconnect: the instance lets go of its socket and closes it.
LEMMA DisconnectInv ==
    ASSUME GatewayInv, NEW h \in Hooks \ Pages, NEW again \in Nat,
           hook[h].lost + again \in 0..MaxTimers, Disconnect(h, again),
           mounted' \in [Hooks -> {"before", "on", "off"}], clicks' \in 0..MaxClicks
    PROVE  GatewayInv'
<1> DEFINE k == hook[h]
           j == [StopHeartbeat(k) EXCEPT !.ws = NoSocket, !.done = FALSE, !.manual = TRUE,
                                         !.attempts = 0, !.timer = FALSE, !.lost = @ + again]
<1>1. /\ GatewayTypeOK /\ HookRefsInv(h) /\ k \in Refs /\ hook \in [Hooks -> Refs]
  BY DEF GatewayInv, GatewayTypeOK
<1>2. /\ hook' = [hook EXCEPT ![h] = j]
      /\ ready' = IF Live(h) THEN [ready EXCEPT ![h][k.ws] = "closing"] ELSE ready
      /\ isConnected' = FALSE
      /\ UNCHANGED <<link, owed>>
  BY DEF Disconnect
<1>3. j \in Refs /\ j.ws = NoSocket /\ ~j.done /\ j.missed = 0 /\ j.sent = 0
  <2>1. k.lost + again \in 0..MaxTimers
    OBVIOUS
  <2>2. 0 \in 0..MaxReconnectAttempts /\ 0 \in 0..MaxMissedPongs /\ 0 \in 0..MaxOwed
    BY Bounds
  <2> DEFINE lost == k.lost + again
  <2>3. j = [StopHeartbeat(k) EXCEPT !.ws = NoSocket, !.done = FALSE, !.manual = TRUE,
                                     !.attempts = 0, !.timer = FALSE, !.lost = lost]
    BY <1>1 DEF StopHeartbeat, Refs
  <2> HIDE DEF lost, j
  <2> QED BY <1>1, <2>1, <2>2, <2>3 DEF StopHeartbeat, Refs, lost
<1> HIDE DEF j
<1>4. /\ ready' \in [Hooks -> [Sockets -> {"closed", "connecting", "open", "closing"}]]
      /\ \A s \in Sockets : ready'[h][s] \notin {"connecting", "open"}
      /\ \A x \in Hooks \ {h} : ready'[x] = ready[x]
  <2>1. ready \in [Hooks -> [Sockets -> {"closed", "connecting", "open", "closing"}]]
    BY <1>1 DEF GatewayTypeOK
  <2>2. \A s \in Sockets : ready[h][s] \in {"connecting", "open"} => Live(h) /\ k.ws = s
    BY <1>1, GatewayClientAssumption DEF HookRefsInv, SocketInv, Live
  <2>3. CASE Live(h)
    <3>1. k.ws \in Sockets
      BY <1>1, <2>3 DEF Live, Refs
    <3>2. ready' = [ready EXCEPT ![h][k.ws] = "closing"]
      BY <1>2, <2>3
    <3> HIDE DEF k
    <3> QED BY <2>1, <2>2, <3>1, <3>2
  <2>4. CASE ~Live(h)
    BY <1>2, <2>1, <2>2, <2>4
  <2> QED BY <2>3, <2>4
<1>5. GatewayTypeOK'
  <2>1. hook' \in [Hooks -> Refs]
    BY <1>1, <1>2, <1>3
  <2> QED BY <1>1, <1>2, <1>4, <2>1 DEF GatewayTypeOK
<1>6. HookRefsInv(h)'
  <2>1. hook'[h] = j
    BY <1>1, <1>2
  <2>2. SocketInv(h)'
    BY <1>1, <1>2, <1>4 DEF HookRefsInv, SocketInv
  <2>3. HandshakeInv(h)' /\ HeartbeatInv(h)'
    <3>1. /\ hook'[h].ws = NoSocket /\ ~hook'[h].done
          /\ hook'[h].missed = 0 /\ hook'[h].sent = 0
      BY <1>3, <2>1
    <3>2. HandshakeInv(h)'
      BY <3>1 DEF HandshakeInv
    <3>3. hook'[h].missed <= hook'[h].sent
      BY <3>1
    <3> QED BY <3>1, <3>2, <3>3 DEF HeartbeatInv
  <2> QED BY <2>2, <2>3 DEF HookRefsInv
<1>7. \A x \in Hooks \ {h} : hook'[x] = hook[x]
  BY <1>1, <1>2
<1> QED BY <1>2, <1>4, <1>5, <1>6, <1>7, OtherHooksKeep

\* The clicks of a user, and the first connection of the page.
LEMMA UserInv ==
    ASSUME GatewayInv, NEW h \in Hooks,
           \/ PageConnect(h) \/ PanelConnect(h) \/ HeaderReconnect(h)
           \/ PanelMount(h) \/ PanelUnmount(h)
    PROVE  GatewayInv'
<1> DEFINE k == hook[h]
<1>1. /\ GatewayTypeOK /\ HookRefsInv(h) /\ k \in Refs
      /\ clicks \in 0..MaxClicks
      /\ mounted \in [Hooks -> {"before", "on", "off"}]
  BY DEF GatewayInv, GatewayTypeOK
<1>2. Click => clicks' \in 0..MaxClicks
  <2>1. clicks \in 0..MaxClicks
    BY <1>1
  <2> QED BY <2>1, Bounds DEF Click
<1>3. k = [hook[h] EXCEPT !.timer = k.timer, !.lost = k.lost]
  BY <1>1 DEF Refs
<1>4. CASE PageConnect(h)
  <2>1. /\ \A s \in Sockets : ready[h][s] = "closed"
        /\ k.missed = 0 /\ k.lost = 0 /\ ~k.timer
    <3>1. PageInv(h) /\ HandshakeInv(h) /\ ~k.url
      BY <1>1, <1>4 DEF PageConnect, HookRefsInv
    <3>2. k.ws = NoSocket /\ ~k.timer /\ ~k.done
      BY <3>1 DEF PageInv, HandshakeInv
    <3>3. \A s \in Sockets : ready[h][s] # "closed" => k.ws = s
      BY <3>1 DEF PageInv
    <3> QED BY <3>1, <3>2, <3>3, Bounds DEF PageInv
  <2> QED BY <1>1, <1>3, <1>4, <2>1, ConnectInv DEF PageConnect
<1>5. CASE PanelConnect(h)
  <2>1. h \notin Pages
    BY <1>5, GatewayClientAssumption DEF PanelConnect
  <2> QED BY <1>1, <1>2, <1>3, <1>5, <2>1, ConnectInv DEF PanelConnect
<1>6. CASE HeaderReconnect(h)
  <2>1. h \in Hooks \ Pages
    BY <1>6, GatewayClientAssumption DEF HeaderReconnect
  <2>2. k.lost \in 0..MaxTimers
    BY <1>1 DEF Refs
  <2>3. PICK again \in Nat : k.lost + again \in 0..MaxTimers /\ Disconnect(h, again)
    <3>1. CASE k.url
      BY <1>6, <2>2, <3>1, GatewayClientAssumption DEF HeaderReconnect
    <3>2. CASE ~k.url
      BY <1>6, <2>2, <3>2, GatewayClientAssumption DEF HeaderReconnect
    <3> QED BY <3>1, <3>2
  <2> QED BY <1>1, <1>2, <1>6, <2>1, <2>3, DisconnectInv DEF HeaderReconnect
<1>7. CASE PanelMount(h)
  <2>1. GatewayTypeOK'
    BY <1>1, <1>7 DEF PanelMount, GatewayTypeOK
  <2>2. UNCHANGED <<hook, ready, link, owed>>
    BY <1>7 DEF PanelMount
  <2>3. HookRefsInv(h)'
    BY <1>1, <2>2 DEF HookRefsInv, SocketInv, HandshakeInv, HeartbeatInv, PageInv
  <2> QED BY <2>1, <2>2, <2>3, OtherHooksKeep
<1>8. CASE PanelUnmount(h)
  <2>1. h \in Hooks \ Pages /\ k.lost + 0 \in 0..MaxTimers
    <3>1. h \in Hooks \ Pages
      BY <1>8, GatewayClientAssumption DEF PanelUnmount
    <3>2. k.lost \in Nat /\ k.lost <= MaxTimers
      BY <1>1, RefsFields
    <3> QED BY <3>1, <3>2, Bounds
  <2>2. mounted' \in [Hooks -> {"before", "on", "off"}] /\ clicks' \in 0..MaxClicks
    BY <1>1, <1>8 DEF PanelUnmount
  <2> QED BY <1>8, <2>1, <2>2, DisconnectInv DEF PanelUnmount
<1> QED BY <1>4, <1>5, <1>6, <1>7, <1>8

\* A reconnect timer fires.
LEMMA TimerFiresInv ==
    ASSUME GatewayInv, NEW h \in Hooks, TimerFires(h)
    PROVE  GatewayInv'
<1>1. /\ GatewayTypeOK /\ HookRefsInv(h) /\ hook[h] \in Refs
      /\ clicks' \in 0..MaxClicks /\ UNCHANGED <<isConnected, mounted>>
  BY DEF GatewayInv, GatewayTypeOK, TimerFires
<1>2. CASE hook[h].timer /\ Connect(h, [hook[h] EXCEPT !.timer = FALSE])
  <2> DEFINE k == [hook[h] EXCEPT !.timer = FALSE]
  <2>1. /\ k \in Refs /\ ~k.timer /\ k.lost = hook[h].lost
        /\ k = [hook[h] EXCEPT !.timer = k.timer, !.lost = k.lost]
    BY <1>1 DEF Refs
  <2>2. h \in Pages => /\ \A s \in Sockets : ready[h][s] = "closed"
                       /\ hook[h].missed = 0 /\ hook[h].lost = 0
    BY <1>1, <1>2 DEF HookRefsInv, PageInv
  <2>3. Connect(h, k)
    BY <1>2
  <2> HIDE DEF k
  <2> QED BY <1>1, <2>1, <2>2, <2>3, ConnectInv
<1>3. CASE hook[h].lost > 0 /\ Connect(h, [hook[h] EXCEPT !.lost = @ - 1])
  <2> DEFINE k == [hook[h] EXCEPT !.lost = @ - 1]
  <2>1. /\ k \in Refs
        /\ k = [hook[h] EXCEPT !.timer = k.timer, !.lost = k.lost]
    <3>1. hook[h].lost - 1 \in 0..MaxTimers
      BY <1>1, <1>3, GatewayClientAssumption DEF Refs
    <3> QED BY <1>1, <3>1 DEF Refs
  <2>2. h \notin Pages
    BY <1>1, <1>3 DEF HookRefsInv, PageInv
  <2>3. Connect(h, k)
    BY <1>3
  <2> HIDE DEF k
  <2> QED BY <1>1, <2>1, <2>2, <2>3, ConnectInv
<1> QED BY <1>2, <1>3 DEF TimerFires

---------------------------------------------------------------------------
(* Frames and events of a socket.                                          *)

\* A step of the handshake that only moves a socket the gateway has not
\* accepted: challenge, request, an error of which only the log hears.
LEMMA LinkStepInv ==
    ASSUME GatewayInv, NEW h \in Hooks, NEW s \in Sockets, link[h][s] # "accepted",
           NEW v \in {"none", "signing", "requested", "accepted", "dropped"},
           link' = [link EXCEPT ![h][s] = v],
           UNCHANGED <<isConnected, mounted, hook, ready, owed, clicks>>
    PROVE  GatewayInv'
<1>1. GatewayTypeOK /\ HookRefsInv(h) /\ hook[h] \in Refs
  BY DEF GatewayInv, GatewayTypeOK
<1>2. /\ link' \in [Hooks -> [Sockets ->
                    {"none", "signing", "requested", "accepted", "dropped"}]]
      /\ \A t \in Sockets : link'[h][t] = IF t = s THEN v ELSE link[h][t]
      /\ \A x \in Hooks \ {h} : link'[x] = link[x]
  <2>1. link \in [Hooks -> [Sockets ->
                    {"none", "signing", "requested", "accepted", "dropped"}]]
    BY <1>1 DEF GatewayTypeOK
  <2> QED BY <2>1, SetEntry
<1>3. GatewayTypeOK'
  BY <1>1, <1>2 DEF GatewayTypeOK
<1>4. SocketInv(h)'
  BY <1>1, <1>2 DEF HookRefsInv, SocketInv
<1>5. HandshakeInv(h)'
  <2>1. hook[h].ws # NoSocket => hook[h].ws \in Sockets
    BY <1>1 DEF Refs
  <2> QED BY <1>1, <1>2, <2>1 DEF HookRefsInv, HandshakeInv
<1>6. HookRefsInv(h)'
  BY <1>1, <1>4, <1>5 DEF HookRefsInv, HeartbeatInv, PageInv
<1> QED BY <1>2, <1>3, <1>6, OtherHooksKeep

\* The socket opens.
LEMMA SocketOpensInv ==
    ASSUME GatewayInv, NEW h \in Hooks, NEW s \in Sockets, SocketOpens(h, s)
    PROVE  GatewayInv'
<1>1. GatewayTypeOK /\ HookRefsInv(h) /\ hook[h] \in Refs
  BY DEF GatewayInv, GatewayTypeOK
<1>2. /\ ready[h][s] = "connecting"
      /\ UNCHANGED <<isConnected, mounted, hook, link, owed, clicks>>
  BY DEF SocketOpens
<1>3. /\ ready' \in [Hooks -> [Sockets -> {"closed", "connecting", "open", "closing"}]]
      /\ \A t \in Sockets : ready'[h][t] = IF t = s THEN "open" ELSE ready[h][t]
      /\ \A x \in Hooks \ {h} : ready'[x] = ready[x]
  <2>1. /\ ready \in [Hooks -> [Sockets -> {"closed", "connecting", "open", "closing"}]]
        /\ ready' = [ready EXCEPT ![h][s] = "open"]
    BY <1>1 DEF GatewayTypeOK, SocketOpens
  <2> QED BY <2>1, SetEntry
<1>4. GatewayTypeOK'
  BY <1>1, <1>2, <1>3 DEF GatewayTypeOK
<1>5. SocketInv(h)' /\ HandshakeInv(h)'
  BY <1>1, <1>2, <1>3 DEF HookRefsInv, SocketInv, HandshakeInv
<1>6. HeartbeatInv(h)'
  <2>1. hook[h].ws # NoSocket => hook[h].ws \in Sockets
    BY <1>1 DEF Refs
  <2> QED BY <1>1, <1>2, <1>3, <2>1 DEF HookRefsInv, HeartbeatInv
<1>7. h \in Pages => PageInv(h)'
  BY <1>1, <1>2, <1>3 DEF HookRefsInv, PageInv
<1>8. HookRefsInv(h)'
  BY <1>5, <1>6, <1>7 DEF HookRefsInv
<1> QED BY <1>2, <1>3, <1>4, <1>8, OtherHooksKeep

\* What Complete leaves in the refs.
LEMMA CompleteRefs ==
    ASSUME NEW h \in Hooks, hook \in [Hooks -> Refs], Complete(h)
    PROVE  /\ hook' \in [Hooks -> Refs] /\ isConnected' = TRUE
           /\ \A x \in Hooks \ {h} : hook'[x] = hook[x]
           /\ hook'[h].done /\ hook'[h].ws = hook[h].ws
           /\ hook'[h].missed = hook[h].missed /\ hook'[h].sent = hook[h].sent
           /\ hook'[h].timer = hook[h].timer /\ hook'[h].lost = hook[h].lost
           /\ hook'[h].refused = hook[h].refused /\ hook'[h].url = hook[h].url
<1> DEFINE k == hook[h]
           j == [k EXCEPT !.done = TRUE, !.attempts = 0, !.beat = TRUE]
<1>1. hook' = [hook EXCEPT ![h] = j] /\ isConnected'
  BY DEF Complete
<1>2. k \in Refs
  OBVIOUS
<1>3. /\ j \in Refs /\ j.done /\ j.ws = k.ws /\ j.missed = k.missed
      /\ j.sent = k.sent /\ j.timer = k.timer /\ j.lost = k.lost
      /\ j.refused = k.refused /\ j.url = k.url
  BY <1>2, Bounds DEF Refs
<1> HIDE DEF j
<1>4. hook' \in [Hooks -> Refs] /\ hook'[h] = j /\ \A x \in Hooks \ {h} : hook'[x] = hook[x]
  BY <1>1, <1>3
<1> QED BY <1>1, <1>3, <1>4

\* An ok answer to the handshake.
LEMMA AcceptInv ==
    ASSUME GatewayInv, NEW h \in Hooks, NEW s \in Sockets, Accept(h, s)
    PROVE  GatewayInv'
<1>1. /\ GatewayTypeOK /\ HookRefsInv(h) /\ hook[h] \in Refs /\ hook \in [Hooks -> Refs]
  BY DEF GatewayInv, GatewayTypeOK
<1>2. /\ ready[h][s] = "open" /\ link[h][s] = "requested"
      /\ link' = [link EXCEPT ![h][s] = "accepted"]
      /\ UNCHANGED <<mounted, ready, owed, clicks>>
  BY DEF Accept
<1>3. CASE hook[h].done
  BY <1>2, <1>3, LinkStepInv DEF Accept
<1>4. CASE ~hook[h].done
  <2>1. /\ Complete(h) /\ hook[h].ws = s
    BY <1>1, <1>2, <1>4 DEF Accept, HookRefsInv, SocketInv
  <2>2. /\ link' \in [Hooks -> [Sockets ->
                      {"none", "signing", "requested", "accepted", "dropped"}]]
        /\ \A t \in Sockets : link'[h][t] = IF t = s THEN "accepted" ELSE link[h][t]
        /\ \A x \in Hooks \ {h} : link'[x] = link[x]
    <3>1. link \in [Hooks -> [Sockets ->
                      {"none", "signing", "requested", "accepted", "dropped"}]]
      BY <1>1 DEF GatewayTypeOK
    <3> QED BY <1>2, <3>1, SetEntry
  <2>3. /\ hook' \in [Hooks -> Refs] /\ isConnected' = TRUE
        /\ \A x \in Hooks \ {h} : hook'[x] = hook[x]
        /\ hook'[h].done /\ hook'[h].ws = s
        /\ hook'[h].missed = hook[h].missed /\ hook'[h].sent = hook[h].sent
        /\ hook'[h].timer = hook[h].timer /\ hook'[h].lost = hook[h].lost
        /\ hook'[h].refused = hook[h].refused /\ hook'[h].url = hook[h].url
    BY <1>1, <2>1, CompleteRefs
  <2>4. GatewayTypeOK'
    BY <1>1, <1>2, <2>2, <2>3 DEF GatewayTypeOK
  <2>5. SocketInv(h)' /\ HandshakeInv(h)'
    BY <1>1, <1>2, <2>1, <2>2, <2>3, GatewayClientAssumption
    DEF HookRefsInv, SocketInv, HandshakeInv
  <2>6. HeartbeatInv(h)'
    BY <1>1, <1>2, <2>1, <2>3, GatewayClientAssumption DEF HookRefsInv, HeartbeatInv
  <2>7. h \in Pages => PageInv(h)'
    BY <1>1, <1>2, <2>1, <2>3 DEF HookRefsInv, PageInv
  <2>8. HookRefsInv(h)'
    BY <2>5, <2>6, <2>7 DEF HookRefsInv
  <2> QED BY <1>2, <2>2, <2>3, <2>4, <2>8, OtherHooksKeep
<1> QED BY <1>3, <1>4

\* An error answer to the handshake.
LEMMA RefuseInv ==
    ASSUME GatewayInv, NEW h \in Hooks, NEW s \in Sockets, NEW final \in BOOLEAN,
           Refuse(h, s, final)
    PROVE  GatewayInv'
<1> DEFINE k == hook[h]
           j == RememberRefusal(k)
<1>1. /\ GatewayTypeOK /\ HookRefsInv(h) /\ k \in Refs /\ hook \in [Hooks -> Refs]
  BY DEF GatewayInv, GatewayTypeOK
<1>2. /\ ready[h][s] = "open" /\ link[h][s] = "requested"
      /\ link' = [link EXCEPT ![h][s] = "dropped"]
      /\ UNCHANGED <<isConnected, mounted, owed, clicks>>
  BY DEF Refuse
<1>3. CASE ~final
  BY <1>2, <1>3, LinkStepInv DEF Refuse
<1>4. CASE final
  <2>1. k.ws = s /\ ~k.done
    BY <1>1, <1>2 DEF HookRefsInv, SocketInv, HandshakeInv
  <2>2. /\ j \in Refs /\ j.ws = s /\ ~j.done /\ j.missed = 0 /\ j.sent = 0
        /\ j.timer = k.timer /\ j.lost = k.lost /\ j.url = k.url
    BY <1>1, <2>1, Bounds DEF RememberRefusal, StopHeartbeat, Refs
  <2> HIDE DEF j
  <2>3. /\ hook' \in [Hooks -> Refs] /\ hook'[h] = j
        /\ \A x \in Hooks \ {h} : hook'[x] = hook[x]
    BY <1>1, <1>4, <2>2 DEF Refuse, j
  <2>4. /\ ready' \in [Hooks -> [Sockets -> {"closed", "connecting", "open", "closing"}]]
        /\ \A t \in Sockets : ready'[h][t] = IF t = s THEN "closing" ELSE ready[h][t]
        /\ \A x \in Hooks \ {h} : ready'[x] = ready[x]
    <3>1. /\ ready \in [Hooks -> [Sockets -> {"closed", "connecting", "open", "closing"}]]
          /\ ready' = [ready EXCEPT ![h][s] = "closing"]
      BY <1>1, <1>4 DEF GatewayTypeOK, Refuse
    <3> QED BY <3>1, SetEntry
  <2>5. /\ link' \in [Hooks -> [Sockets ->
                      {"none", "signing", "requested", "accepted", "dropped"}]]
        /\ \A t \in Sockets : link'[h][t] = IF t = s THEN "dropped" ELSE link[h][t]
        /\ \A x \in Hooks \ {h} : link'[x] = link[x]
    <3>1. link \in [Hooks -> [Sockets ->
                      {"none", "signing", "requested", "accepted", "dropped"}]]
      BY <1>1 DEF GatewayTypeOK
    <3> QED BY <1>2, <3>1, SetEntry
  <2>6. GatewayTypeOK'
    BY <1>1, <1>2, <2>3, <2>4, <2>5 DEF GatewayTypeOK
  <2>7. SocketInv(h)' /\ HandshakeInv(h)'
    <3>1. SocketInv(h)'
      BY <1>1, <1>2, <2>1, <2>2, <2>3, <2>4, <2>5 DEF HookRefsInv, SocketInv
    <3>2. HandshakeInv(h)'
      BY <1>1, <1>2, <2>1, <2>2, <2>3, <2>4, <2>5 DEF HookRefsInv, HandshakeInv
    <3> QED BY <3>1, <3>2
  <2>8. HeartbeatInv(h)'
    <3>1. owed'[h][s] \in 0..MaxOwed
      BY <1>1, <1>2 DEF GatewayTypeOK
    <3> QED BY <2>2, <2>3, <3>1, Bounds DEF HeartbeatInv
  <2>9. h \in Pages => PageInv(h)'
    BY <1>1, <1>2, <2>1, <2>2, <2>3, <2>4 DEF HookRefsInv, PageInv
  <2>10. HookRefsInv(h)'
    BY <2>7, <2>8, <2>9 DEF HookRefsInv
  <2> QED BY <1>2, <2>3, <2>4, <2>5, <2>6, <2>10, OtherHooksKeep
<1> QED BY <1>3, <1>4

\* Any step of the handshake.
LEMMA HandshakeStepInv ==
    ASSUME GatewayInv, NEW h \in Hooks, NEW s \in Sockets, Handshake(h, s)
    PROVE  GatewayInv'
<1>1. CASE Challenge(h, s) \/ HandshakeSent(h, s)
  <2>1. PICK v \in {"none", "signing", "requested", "accepted", "dropped"} :
          /\ link[h][s] # "accepted" /\ link' = [link EXCEPT ![h][s] = v]
          /\ UNCHANGED <<isConnected, mounted, hook, ready, owed, clicks>>
    BY <1>1 DEF Challenge, HandshakeSent
  <2> QED BY <2>1, LinkStepInv
<1> QED BY <1>1, SocketOpensInv, AcceptInv, RefuseInv DEF Handshake

\* An answer to a ping: at most the pings the gateway owes are forgiven.
LEMMA PongInv ==
    ASSUME GatewayInv, NEW h \in Hooks, NEW s \in Sockets, NEW ok \in BOOLEAN,
           Pong(h, s, ok)
    PROVE  GatewayInv'
<1> DEFINE k == hook[h]
           n == owed[h][s]
           m == owed[h][s] - 1
<1>1. /\ GatewayTypeOK /\ HookRefsInv(h) /\ k \in Refs /\ hook \in [Hooks -> Refs]
  BY DEF GatewayInv, GatewayTypeOK
<1>2. /\ ready[h][s] = "open" /\ n > 0
      /\ owed' = [owed EXCEPT ![h][s] = m]
      /\ UNCHANGED <<mounted, ready, link, clicks>>
  <2>1. owed' = [owed EXCEPT ![h][s] = @ - 1]
    BY DEF Pong
  <2>2. owed \in [Hooks -> [Sockets -> 0..MaxOwed]]
    BY <1>1 DEF GatewayTypeOK
  <2>3. owed' = [owed EXCEPT ![h][s] = m]
    BY <2>1, <2>2
  <2> QED BY <2>3 DEF Pong
<1>3. n \in Nat /\ n <= MaxOwed /\ m \in Nat /\ n = m + 1 /\ m \in 0..MaxOwed
  <2>1. n \in 0..MaxOwed
    BY <1>1 DEF GatewayTypeOK
  <2> QED BY <1>2, <2>1, Bounds
<1>4. /\ k.ws = s /\ s # NoSocket /\ link[h][s] = "accepted"
  <2>1. s # NoSocket
    BY Bounds
  <2> QED BY <1>1, <1>2, <2>1 DEF HookRefsInv, SocketInv
<1>5. /\ owed' \in [Hooks -> [Sockets -> 0..MaxOwed]]
      /\ \A t \in Sockets : owed'[h][t] = IF t = s THEN m ELSE owed[h][t]
      /\ \A x \in Hooks \ {h} : owed'[x] = owed[x]
  <2>1. owed \in [Hooks -> [Sockets -> 0..MaxOwed]]
    BY <1>1 DEF GatewayTypeOK
  <2> HIDE DEF m
  <2> QED BY <1>2, <1>3, <2>1, SetEntry
<1>6. /\ k.missed \in Nat /\ k.sent \in Nat /\ k.missed <= k.sent /\ k.sent <= n
      /\ ~k.done => k.sent = 0
  <2>1. /\ k.missed <= k.sent
        /\ k.sent <= n \/ n = 0
        /\ ~k.done /\ n > 0 => k.sent = 0
    BY <1>1, <1>4 DEF HookRefsInv, HeartbeatInv
  <2> QED BY <1>1, <1>2, <1>3, <2>1, RefsFields
<1> HIDE DEF m, n
<1>7. SUFFICES /\ hook' \in [Hooks -> Refs] /\ isConnected' \in BOOLEAN
               /\ \A x \in Hooks \ {h} : hook'[x] = hook[x]
               /\ hook'[h].ws = s /\ hook'[h].missed <= hook'[h].sent
               /\ hook'[h].sent <= m /\ (hook'[h].done \/ hook'[h].sent = 0)
               /\ hook'[h].timer = k.timer /\ hook'[h].lost = k.lost
               /\ hook'[h].refused = k.refused /\ hook'[h].url = k.url
  <2>1. GatewayTypeOK'
    BY <1>1, <1>2, <1>5, <1>7 DEF GatewayTypeOK
  <2>2. SocketInv(h)' /\ HandshakeInv(h)'
    <3>1. \A t \in Sockets : owed'[h][t] > 0 => link[h][t] = "accepted"
      BY <1>1, <1>4, <1>5 DEF HookRefsInv, SocketInv
    <3>2. \A t \in Sockets : ready[h][t] \in {"connecting", "open"} => k.ws = t
      BY <1>1 DEF HookRefsInv, SocketInv
    <3> QED BY <1>2, <1>4, <1>7, <3>1, <3>2 DEF SocketInv, HandshakeInv
  <2>3. HeartbeatInv(h)'
    BY <1>2, <1>4, <1>5, <1>7 DEF HeartbeatInv
  <2>4. h \in Pages => PageInv(h)'
    <3> SUFFICES ASSUME h \in Pages
                 PROVE  PageInv(h)'
      OBVIOUS
    <3>1. PageInv(h)
      BY <1>1 DEF HookRefsInv
    <3>2. ~k.timer
      BY <1>2, <3>1 DEF PageInv
    <3>3. hook'[h].missed <= m /\ (hook'[h].done \/ hook'[h].missed = 0)
      <4>1. hook'[h] \in Refs
        BY <1>7
      <4>2. hook'[h].missed \in Nat /\ hook'[h].sent \in Nat
        BY <4>1, RefsFields
      <4> QED BY <1>3, <1>7, <4>2
    <3>4. owed'[h][s] = m
      BY <1>5
    <3> QED BY <1>2, <1>4, <1>7, <3>1, <3>2, <3>3, <3>4 DEF PageInv
  <2>5. HookRefsInv(h)'
    BY <2>2, <2>3, <2>4 DEF HookRefsInv
  <2> QED BY <1>2, <1>5, <1>7, <2>1, <2>5, OtherHooksKeep
<1>8. CASE ok /\ ~k.done
  <2>1. Complete(h)
    BY <1>8 DEF Pong
  <2>2. /\ hook' \in [Hooks -> Refs] /\ isConnected' = TRUE
        /\ \A x \in Hooks \ {h} : hook'[x] = hook[x]
        /\ hook'[h].done /\ hook'[h].ws = k.ws
        /\ hook'[h].missed = k.missed /\ hook'[h].sent = k.sent
        /\ hook'[h].timer = k.timer /\ hook'[h].lost = k.lost
        /\ hook'[h].refused = k.refused /\ hook'[h].url = k.url
    BY <1>1, <2>1, CompleteRefs
  <2>3. k.sent <= m
    BY <1>3, <1>6, <1>8
  <2> HIDE DEF k
  <2> QED BY <1>4, <1>6, <2>2, <2>3
<1>9. CASE ~(ok /\ ~k.done) /\ owed[h][s] <= k.sent
  <2> DEFINE left == k.sent - 1
             j == [k EXCEPT !.sent = left, !.missed = 0]
  <2>1. left \in 0..MaxOwed /\ left <= m /\ 0 <= left
    <3>1. k.sent <= MaxOwed
      BY <1>1, RefsFields
    <3> QED BY <1>2, <1>3, <1>6, <1>9, <3>1, Bounds DEF n
  <2>2. hook' = [hook EXCEPT ![h] = j] /\ UNCHANGED isConnected
    <3>1. hook' = [hook EXCEPT ![h].sent = @ - 1, ![h].missed = 0] /\ UNCHANGED isConnected
      BY <1>9 DEF Pong
    <3> QED BY <1>1, <3>1 DEF Refs
  <2> HIDE DEF left
  <2>3. /\ j \in Refs /\ j.ws = k.ws /\ j.missed = 0 /\ j.sent = left /\ j.done = k.done
        /\ j.timer = k.timer /\ j.lost = k.lost /\ j.refused = k.refused /\ j.url = k.url
    BY <1>1, <2>1, Bounds DEF Refs
  <2> HIDE DEF j
  <2>5. k.done
    BY <1>2, <1>3, <1>6, <1>9 DEF n
  <2>4. hook' \in [Hooks -> Refs] /\ hook'[h] = j /\ \A x \in Hooks \ {h} : hook'[x] = hook[x]
    BY <1>1, <2>2, <2>3
  <2> QED BY <1>1, <1>4, <2>1, <2>2, <2>3, <2>4, <2>5 DEF GatewayTypeOK
<1>10. CASE ~(ok /\ ~k.done) /\ ~(owed[h][s] <= k.sent)
  <2>1. UNCHANGED <<hook, isConnected>>
    BY <1>10 DEF Pong
  <2>2. k.sent <= m
    BY <1>3, <1>6, <1>10 DEF n
  <2> QED BY <1>1, <1>4, <1>6, <1>10, <2>1, <2>2 DEF GatewayTypeOK
<1> QED BY <1>8, <1>9, <1>10

\* The 30 s interval: one more ping, or the end of a connection that missed too
\* many answers.
LEMMA HeartbeatStepInv ==
    ASSUME GatewayInv, NEW h \in Hooks, Heartbeat(h)
    PROVE  GatewayInv'
<1> DEFINE k == hook[h]
           s == hook[h].ws
<1>1. /\ GatewayTypeOK /\ HookRefsInv(h) /\ k \in Refs /\ hook \in [Hooks -> Refs]
  BY DEF GatewayInv, GatewayTypeOK
<1>2. /\ k.done /\ ready[h][s] = "open" /\ s \in Sockets /\ s # NoSocket
      /\ UNCHANGED <<isConnected, mounted, link, clicks>>
  BY <1>1 DEF Heartbeat, Live, Refs
<1>3. link[h][s] = "accepted"
  BY <1>1, <1>2 DEF HookRefsInv, HandshakeInv
<1>4. CASE /\ k.missed >= MaxMissedPongs
           /\ ready' = [ready EXCEPT ![h][s] = "closing"]
           /\ UNCHANGED <<hook, owed>>
  <2>1. /\ ready' \in [Hooks -> [Sockets -> {"closed", "connecting", "open", "closing"}]]
        /\ \A t \in Sockets : ready'[h][t] = IF t = s THEN "closing" ELSE ready[h][t]
        /\ \A x \in Hooks \ {h} : ready'[x] = ready[x]
    <3>1. ready \in [Hooks -> [Sockets -> {"closed", "connecting", "open", "closing"}]]
      BY <1>1 DEF GatewayTypeOK
    <3> HIDE DEF s
    <3> QED BY <1>2, <1>4, <3>1, SetEntry
  <2>2. GatewayTypeOK'
    BY <1>1, <1>2, <1>4, <2>1 DEF GatewayTypeOK
  <2>3. SocketInv(h)' /\ HandshakeInv(h)'
    BY <1>1, <1>2, <1>4, <2>1 DEF HookRefsInv, SocketInv, HandshakeInv
  <2>4. HeartbeatInv(h)'
    BY <1>1, <1>4 DEF HookRefsInv, HeartbeatInv
  <2>5. h \in Pages => PageInv(h)'
    BY <1>1, <1>2, <1>4, <2>1 DEF HookRefsInv, PageInv
  <2>6. HookRefsInv(h)'
    BY <2>3, <2>4, <2>5 DEF HookRefsInv
  <2> QED BY <1>2, <1>4, <2>1, <2>2, <2>6, OtherHooksKeep
<1>5. CASE /\ k.missed < MaxMissedPongs /\ owed[h][s] < MaxOwed
           /\ hook' = [hook EXCEPT ![h].missed = @ + 1, ![h].sent = @ + 1]
           /\ owed' = [owed EXCEPT ![h][s] = @ + 1]
           /\ UNCHANGED ready
  <2> DEFINE n == owed[h][s]
             m == owed[h][s] + 1
             missed == k.missed + 1
             sent == k.sent + 1
             j == [k EXCEPT !.missed = missed, !.sent = sent]
  <2>1. /\ hook' = [hook EXCEPT ![h] = j] /\ owed' = [owed EXCEPT ![h][s] = m]
    <3>1. owed \in [Hooks -> [Sockets -> 0..MaxOwed]]
      BY <1>1 DEF GatewayTypeOK
    <3>2. owed' = [owed EXCEPT ![h][s] = m]
      BY <1>5, <3>1
    <3>3. hook' = [hook EXCEPT ![h] = j]
      BY <1>1, <1>5 DEF Refs
    <3> QED BY <3>2, <3>3
  <2>2. /\ n \in Nat /\ k.missed \in Nat /\ k.sent \in Nat
        /\ k.missed <= k.sent /\ k.sent <= n /\ n < MaxOwed
    <3>1. n \in 0..MaxOwed
      BY <1>1, <1>2 DEF GatewayTypeOK
    <3>2. k.missed <= k.sent /\ (k.sent <= n \/ k.missed >= MaxMissedPongs)
      BY <1>1, <1>2 DEF HookRefsInv, HeartbeatInv
    <3>3. k.missed \in Nat /\ k.sent \in Nat
      BY <1>1, RefsFields
    <3> QED BY <1>5, <3>1, <3>2, <3>3, Bounds
  <2>3. /\ missed \in 0..MaxMissedPongs /\ sent \in 0..MaxOwed /\ m \in 0..MaxOwed
        /\ missed <= sent /\ sent <= m /\ missed <= m /\ missed > 0
    BY <1>5, <2>2, Bounds
  <2> HIDE DEF missed, sent, m
  <2>4. /\ j \in Refs /\ j.ws = s /\ j.done /\ j.missed = missed /\ j.sent = sent
        /\ j.timer = k.timer /\ j.lost = k.lost /\ j.refused = k.refused /\ j.url = k.url
    BY <1>1, <1>2, <2>3 DEF Refs
  <2> HIDE DEF j, s
  <2>5. /\ hook' \in [Hooks -> Refs] /\ hook'[h] = j
        /\ \A x \in Hooks \ {h} : hook'[x] = hook[x]
    BY <1>1, <2>1, <2>4
  <2>6. /\ owed' \in [Hooks -> [Sockets -> 0..MaxOwed]]
        /\ \A t \in Sockets : owed'[h][t] = IF t = s THEN m ELSE owed[h][t]
        /\ \A x \in Hooks \ {h} : owed'[x] = owed[x]
    <3>1. owed \in [Hooks -> [Sockets -> 0..MaxOwed]]
      BY <1>1 DEF GatewayTypeOK
    <3> QED BY <1>2, <2>1, <2>3, <3>1, SetEntry
  <2>12. UNCHANGED ready
    BY <1>5
  <2>7. GatewayTypeOK'
    BY <1>1, <1>2, <1>5, <2>5, <2>6 DEF GatewayTypeOK
  <2>8. SocketInv(h)' /\ HandshakeInv(h)'
    BY <1>1, <1>2, <1>3, <1>5, <2>4, <2>5, <2>6
    DEF HookRefsInv, SocketInv, HandshakeInv, s
  <2>9. HeartbeatInv(h)'
    BY <1>2, <2>3, <2>4, <2>5, <2>6, <2>12 DEF HeartbeatInv
  <2>10. h \in Pages => PageInv(h)'
    BY <1>1, <1>2, <2>3, <2>4, <2>5, <2>6, <2>12 DEF HookRefsInv, PageInv, s
  <2>11. HookRefsInv(h)'
    BY <2>8, <2>9, <2>10 DEF HookRefsInv
  <2> QED BY <1>2, <1>5, <2>5, <2>6, <2>7, <2>11, OtherHooksKeep
<1> QED BY <1>4, <1>5 DEF Heartbeat

\* A close event, of whichever socket: the instance forgets its handshake and
\* its pings, and arms the timer when it may retry.
LEMMA SocketClosesInv ==
    ASSUME GatewayInv, NEW h \in Hooks, NEW s \in Sockets, SocketCloses(h, s)
    PROVE  GatewayInv'
<1> DEFINE r == hook[h]
           k == [StopHeartbeat(r) EXCEPT !.done = FALSE]
<1>1. /\ GatewayTypeOK /\ HookRefsInv(h) /\ r \in Refs /\ hook \in [Hooks -> Refs]
  BY DEF GatewayInv, GatewayTypeOK
<1>2. /\ ready[h][s] # "closed" /\ isConnected' = FALSE
      /\ UNCHANGED <<mounted, clicks>>
  BY DEF SocketCloses
<1>3. /\ k \in Refs /\ ~k.done /\ k.missed = 0 /\ k.sent = 0 /\ k.ws = r.ws
      /\ k.timer = r.timer /\ k.lost = r.lost /\ k.refused = r.refused /\ k.url = r.url
  BY <1>1, Bounds DEF StopHeartbeat, Refs
<1>4. \/ /\ MayRetry(k)
         /\ k.timer => k.lost < MaxTimers
         /\ hook' = [hook EXCEPT ![h] =
              [k EXCEPT !.attempts = @ + 1, !.timer = TRUE,
                        !.lost = IF k.timer THEN @ + 1 ELSE @]]
      \/ hook' = [hook EXCEPT ![h] = k]
  BY DEF SocketCloses
<1> HIDE DEF k
<1>5. PICK j \in Refs :
        /\ hook' = [hook EXCEPT ![h] = j]
        /\ ~j.done /\ j.missed = 0 /\ j.sent = 0 /\ j.ws = r.ws
        /\ j.refused = r.refused /\ j.url = r.url
        /\ j.timer => r.timer \/ ~r.refused
        /\ ~r.timer => j.lost = r.lost
  <2>1. CASE hook' = [hook EXCEPT ![h] = k]
    BY <1>3, <2>1
  <2>2. ASSUME MayRetry(k), k.timer => k.lost < MaxTimers,
               hook' = [hook EXCEPT ![h] =
                 [k EXCEPT !.attempts = @ + 1, !.timer = TRUE,
                           !.lost = IF k.timer THEN @ + 1 ELSE @]]
        PROVE  \E j \in Refs :
                 /\ hook' = [hook EXCEPT ![h] = j]
                 /\ ~j.done /\ j.missed = 0 /\ j.sent = 0 /\ j.ws = r.ws
                 /\ j.refused = r.refused /\ j.url = r.url
                 /\ j.timer => r.timer \/ ~r.refused
                 /\ ~r.timer => j.lost = r.lost
    <3> DEFINE attempts == k.attempts + 1
               lost == IF k.timer THEN k.lost + 1 ELSE k.lost
               j == [k EXCEPT !.attempts = attempts, !.timer = TRUE, !.lost = lost]
    <3>1. attempts \in 0..MaxReconnectAttempts /\ lost \in 0..MaxTimers
      <4>1. k.attempts \in Nat /\ k.lost \in Nat /\ k.lost <= MaxTimers
        BY <1>3, RefsFields
      <4> QED BY <2>2, <4>1, Bounds DEF MayRetry
    <3>2. hook' = [hook EXCEPT ![h] = j]
      BY <1>3, <2>2 DEF Refs
    <3>3. ~k.timer => lost = k.lost
      OBVIOUS
    <3> HIDE DEF attempts, lost
    <3>4. /\ j \in Refs /\ ~j.done /\ j.missed = 0 /\ j.sent = 0 /\ j.ws = k.ws
          /\ j.refused = k.refused /\ j.url = k.url /\ j.lost = lost
      BY <1>3, <3>1 DEF Refs
    <3>5. ~k.refused
      BY <2>2 DEF MayRetry
    <3> HIDE DEF j
    <3> QED BY <1>3, <3>2, <3>3, <3>4, <3>5
  <2> QED BY <1>4, <2>1, <2>2
<1>6. /\ hook' \in [Hooks -> Refs] /\ hook'[h] = j
      /\ \A x \in Hooks \ {h} : hook'[x] = hook[x]
  BY <1>1, <1>5
<1>7. /\ ready' \in [Hooks -> [Sockets -> {"closed", "connecting", "open", "closing"}]]
      /\ \A t \in Sockets : ready'[h][t] = IF t = s THEN "closed" ELSE ready[h][t]
      /\ \A x \in Hooks \ {h} : ready'[x] = ready[x]
  <2>1. /\ ready \in [Hooks -> [Sockets -> {"closed", "connecting", "open", "closing"}]]
        /\ ready' = [ready EXCEPT ![h][s] = "closed"]
    BY <1>1 DEF GatewayTypeOK, SocketCloses
  <2> QED BY <2>1, SetEntry
<1>8. /\ link' \in [Hooks -> [Sockets ->
                    {"none", "signing", "requested", "accepted", "dropped"}]]
      /\ \A t \in Sockets : link'[h][t] = IF t = s THEN "none" ELSE link[h][t]
      /\ \A x \in Hooks \ {h} : link'[x] = link[x]
  <2>1. /\ link \in [Hooks -> [Sockets ->
                      {"none", "signing", "requested", "accepted", "dropped"}]]
        /\ link' = [link EXCEPT ![h][s] = "none"]
    BY <1>1 DEF GatewayTypeOK, SocketCloses
  <2> QED BY <2>1, SetEntry
<1>9. /\ owed' \in [Hooks -> [Sockets -> 0..MaxOwed]]
      /\ \A t \in Sockets : owed'[h][t] = IF t = s THEN 0 ELSE owed[h][t]
      /\ \A x \in Hooks \ {h} : owed'[x] = owed[x]
  <2>1. /\ owed \in [Hooks -> [Sockets -> 0..MaxOwed]]
        /\ owed' = [owed EXCEPT ![h][s] = 0]
    BY <1>1 DEF GatewayTypeOK, SocketCloses
  <2> QED BY <2>1, SetEntry, Bounds
<1>10. GatewayTypeOK'
  BY <1>1, <1>2, <1>6, <1>7, <1>8, <1>9 DEF GatewayTypeOK
<1>11. SocketInv(h)'
  <2>1. \A t \in Sockets : owed[h][t] > 0 => link[h][t] = "accepted"
    BY <1>1 DEF HookRefsInv, SocketInv
  <2>2. \A t \in Sockets : ready[h][t] \in {"connecting", "open"} => r.ws = t
    BY <1>1 DEF HookRefsInv, SocketInv
  <2>3. \A t \in Sockets : owed'[h][t] > 0 => link'[h][t] = "accepted"
    BY <1>8, <1>9, <2>1
  <2> QED BY <1>5, <1>6, <1>7, <2>2, <2>3 DEF SocketInv
<1>12. HandshakeInv(h)'
  BY <1>5, <1>6 DEF HandshakeInv
<1>13. HeartbeatInv(h)'
  <2>1. j.ws # NoSocket => owed'[h][j.ws] \in Nat
    <3>1. j.ws # NoSocket => j.ws \in Sockets
      BY DEF Refs
    <3>2. \A t \in Sockets : owed'[h][t] \in 0..MaxOwed
      BY <1>9
    <3> QED BY <3>1, <3>2, Bounds
  <2> QED BY <1>5, <1>6, <2>1 DEF HeartbeatInv
<1>14. h \in Pages => PageInv(h)'
  <2> SUFFICES ASSUME h \in Pages
               PROVE  PageInv(h)'
    OBVIOUS
  <2>1. PageInv(h)
    BY <1>1 DEF HookRefsInv
  <2>2. r.ws = s /\ ~r.timer /\ \A t \in Sockets : ready[h][t] # "closed" => t = s
    BY <1>2, <2>1 DEF PageInv
  <2>3. r.lost = 0 /\ (r.refused => ~r.timer) /\ (~r.url => r.ws = NoSocket)
    BY <2>1 DEF PageInv
  <2>4. s # NoSocket
    BY Bounds
  <2> QED BY <1>5, <1>6, <1>7, <2>2, <2>3, <2>4 DEF PageInv
<1>15. HookRefsInv(h)'
  BY <1>11, <1>12, <1>13, <1>14 DEF HookRefsInv
<1> QED BY <1>6, <1>7, <1>8, <1>9, <1>10, <1>15, OtherHooksKeep

---------------------------------------------------------------------------
(* The theorems about the connection.                                      *)

\* Every step of every hook instance preserves the invariant.
LEMMA GatewayNextInv == GatewayInv /\ [GatewayNext]_gatewayVars => GatewayInv'
<1> SUFFICES ASSUME GatewayInv, [GatewayNext]_gatewayVars
             PROVE  GatewayInv'
  OBVIOUS
<1>1. CASE User
  BY <1>1, UserInv DEF User
<1>2. ASSUME NEW h \in Hooks, PageConnect(h) \/ TimerFires(h) \/ Heartbeat(h)
      PROVE  GatewayInv'
  BY <1>2, UserInv, TimerFiresInv, HeartbeatStepInv
<1>3. ASSUME NEW h \in Hooks, NEW s \in Sockets,
             \/ Handshake(h, s) \/ SocketCloses(h, s)
             \/ \E ok \in BOOLEAN : Pong(h, s, ok)
      PROVE  GatewayInv'
  BY <1>3, HandshakeStepInv, SocketClosesInv, PongInv
<1>4. CASE UNCHANGED gatewayVars
  <2>1. UNCHANGED <<isConnected, mounted, hook, ready, link, owed, clicks>>
    BY <1>4 DEF gatewayVars
  <2>2. GatewayTypeOK'
    BY <2>1 DEF GatewayInv, GatewayTypeOK
  <2>3. ASSUME NEW h \in Hooks
        PROVE  HookRefsInv(h)'
    BY <2>1 DEF GatewayInv, HookRefsInv, SocketInv, HandshakeInv, HeartbeatInv, PageInv
  <2> QED BY <2>2, <2>3 DEF GatewayInv
<1> QED BY <1>1, <1>2, <1>3, <1>4 DEF GatewayNext

\* The invariant says what is checked.
LEMMA GatewayInvImplies == GatewayInv => ConnectionSafe
<1> SUFFICES ASSUME GatewayInv
             PROVE  ConnectionSafe
  OBVIOUS
<1>1. GatewayTypeOK /\ \A h \in Hooks : HookRefsInv(h)
  BY DEF GatewayInv
<1>2. OneLiveSocket
  BY <1>1 DEF OneLiveSocket, HookRefsInv, SocketInv
<1>3. HandshakeMeansAccepted
  BY <1>1 DEF HandshakeMeansAccepted, HookRefsInv, HandshakeInv
<1>4. MissedPongsAreReal /\ NoRetryAfterRefusal
  BY <1>1 DEF MissedPongsAreReal, NoRetryAfterRefusal, HookRefsInv, PageInv, Hooks
<1> QED BY <1>1, <1>2, <1>3, <1>4 DEF ConnectionSafe

\* The refs of useWebSocket and its sockets agree in every reachable state.
THEOREM GatewayInvHolds == GatewaySpec => []GatewayInv
<1> QED BY GatewayInitInv, GatewayNextInv, PTL DEF GatewaySpec

\* However many instances, sockets, clicks and lost timers: one live socket an
\* instance, messages only after the handshake, a heartbeat that counts what was
\* really missed, and no retry after a refusal.
THEOREM ConnectionCorrect == GatewaySpec => []ConnectionSafe
<1> QED BY GatewayInvHolds, GatewayInvImplies, PTL

(***************************************************************************)
(* The table of gateways.                                                  *)
(***************************************************************************)

GwStatuses == {"unknown", "online", "error", "offline"} \cup ByHand
GwRows == [name : GwNames, addr : GwAddrs, primary : BOOLEAN, status : GwStatuses]
GwReads == [id : 1..MaxGateways, name : GwNames, addr : GwAddrs, primary : BOOLEAN]

\* A probe asks at addresses its rows have had.
AsksItsOwn ==
    \A q \in Probers : /\ probe[q] \subseteq GwReads
                       /\ \A g \in probe[q] : g.addr \in addrsOf[g.id]

\* The rows there are, and what the probes have found so far; what is checked
\* is inductive once the types are known and with what the probes hold.
GwTypes ==
    /\ gws \in Seq(GwRows \cup {GoneGw}) /\ Len(gws) <= MaxGateways
    /\ outcomes \in [GwAddrs -> SUBSET GwStatuses]
    /\ addrsOf \in [1..MaxGateways -> SUBSET GwAddrs]
    /\ setByHand \in [1..MaxGateways -> SUBSET GwStatuses]
    /\ DOMAIN probe = Probers
GwInv ==
    /\ GwTypes
    /\ \A i \in LiveGws : gws[i].addr \in addrsOf[i]
    /\ AsksItsOwn /\ OnePrimary /\ StatusIsItsOwn

\* What was ever found or written stays known.
NothingForgotten ==
    /\ outcomes' \in [GwAddrs -> SUBSET GwStatuses]
    /\ addrsOf' \in [1..MaxGateways -> SUBSET GwAddrs]
    /\ setByHand' \in [1..MaxGateways -> SUBSET GwStatuses]
    /\ \A a \in GwAddrs : outcomes[a] \subseteq outcomes'[a]
    /\ \A i \in 1..MaxGateways : /\ addrsOf[i] \subseteq addrsOf'[i]
                               /\ setByHand[i] \subseteq setByHand'[i]
    /\ DOMAIN probe' = Probers
    /\ \A q \in Probers : probe'[q] \subseteq probe[q]
ItsOwnNext(i, s) ==
    \/ s \in setByHand'[i] \cup {"unknown"}
    \/ \E a \in addrsOf'[i] : s \in outcomes'[a]

\* A removed row is never taken for a gateway.
LEMMA GoneIsNoRow == GoneGw \notin GwRows
  BY DEF GoneGw, GwRows, GwStatuses, ByHand

\* A row shows one of its statuses, whatever it is.
LEMMA RowFacts ==
    ASSUME GwInv
    PROVE  /\ Len(gws) \in Nat /\ GwIds \subseteq 1..MaxGateways /\ LiveGws \subseteq GwIds
           /\ \A i \in LiveGws : gws[i] \in GwRows
<1>1. Len(gws) \in Nat /\ Len(gws) <= MaxGateways /\ MaxGateways \in Nat
  BY GatewaysAssumption DEF GwInv, GwTypes
<1>2. GwIds \subseteq 1..MaxGateways /\ LiveGws \subseteq GwIds
  BY <1>1 DEF GwIds, LiveGws
<1>3. \A i \in LiveGws : gws[i] \in GwRows
  BY <1>2 DEF GwInv, GwTypes, GwIds, LiveGws
<1> QED BY <1>1, <1>2, <1>3

\* While nothing is forgotten, what a probe asks and what a row shows stay its own.
LEMMA StillKnown ==
    ASSUME GwInv, NothingForgotten
    PROVE  /\ AsksItsOwn'
           /\ \A i \in LiveGws : \A s \in GwStatuses : ItsOwn(i, s) => ItsOwnNext(i, s)
           /\ \A i \in LiveGws : addrsOf[i] \subseteq addrsOf'[i]
<1>0. GwTypes /\ AsksItsOwn
  BY DEF GwInv
<1>1. \A i \in LiveGws : i \in 1..MaxGateways
  BY RowFacts
<1>2. AsksItsOwn'
  <2> SUFFICES ASSUME NEW q \in Probers, NEW g \in probe'[q]
               PROVE  g \in GwReads /\ g.addr \in addrsOf'[g.id]
    BY DEF AsksItsOwn
  <2>1. g \in probe[q]
    BY DEF NothingForgotten
  <2>2. g \in GwReads /\ g.addr \in addrsOf[g.id]
    BY <1>0, <2>1 DEF AsksItsOwn
  <2>3. g.id \in 1..MaxGateways
    BY <2>2 DEF GwReads
  <2> QED BY <2>2, <2>3 DEF NothingForgotten
<1>3. ASSUME NEW i \in LiveGws, NEW s \in GwStatuses, ItsOwn(i, s)
      PROVE  ItsOwnNext(i, s)
  <2>1. i \in 1..MaxGateways
    BY <1>1
  <2>2. CASE s \in setByHand[i] \cup {"unknown"}
    BY <2>1, <2>2 DEF NothingForgotten, ItsOwnNext
  <2>3. ASSUME NEW a \in addrsOf[i], s \in outcomes[a]
        PROVE  ItsOwnNext(i, s)
    <3>1. a \in GwAddrs
      BY <1>0, <2>1 DEF GwTypes
    <3> QED BY <2>1, <2>3, <3>1 DEF NothingForgotten, ItsOwnNext
  <2> QED BY <1>3, <2>2, <2>3 DEF ItsOwn
<1>4. \A i \in LiveGws : addrsOf[i] \subseteq addrsOf'[i]
  BY <1>1 DEF NothingForgotten
<1> QED BY <1>2, <1>3, <1>4

\* t is the table after an UPDATE of column is_primary: the same rows with the
\* same results, and no primary that was none before.
SameGateways(t) ==
    /\ t \in Seq(GwRows \cup {GoneGw}) /\ Len(t) = Len(gws)
    /\ \A i \in GwIds : /\ t[i] = GoneGw <=> gws[i] = GoneGw
                        /\ t[i].status = gws[i].status /\ t[i].addr = gws[i].addr
                        /\ t[i].primary => gws[i].primary

\* UPDATE gateways SET is_primary = 0 clears them all.
LEMMA UnsetClears ==
    ASSUME gws \in Seq(GwRows \cup {GoneGw})
    PROVE  SameGateways(Unset) /\ \A i \in GwIds : Unset[i].primary = FALSE
<1> DEFINE clear(i) == IF gws[i] = GoneGw THEN GoneGw
                       ELSE [gws[i] EXCEPT !.primary = FALSE]
<1>1. Len(gws) \in Nat
  OBVIOUS
<1>2. \A i \in GwIds : gws[i] \in GwRows \cup {GoneGw}
  BY DEF GwIds
<1>3. \A i \in GwIds : /\ clear(i) \in GwRows \cup {GoneGw}
                       /\ clear(i) = GoneGw <=> gws[i] = GoneGw
                       /\ clear(i).status = gws[i].status /\ clear(i).addr = gws[i].addr
                       /\ clear(i).primary = FALSE
  <2> SUFFICES ASSUME NEW i \in GwIds
               PROVE  /\ clear(i) \in GwRows \cup {GoneGw}
                      /\ clear(i) = GoneGw <=> gws[i] = GoneGw
                      /\ clear(i).status = gws[i].status /\ clear(i).addr = gws[i].addr
                      /\ clear(i).primary = FALSE
    OBVIOUS
  <2>1. CASE gws[i] = GoneGw
    BY <2>1 DEF GoneGw
  <2>2. CASE gws[i] # GoneGw
    <3>1. gws[i] \in GwRows
      BY <1>2, <2>2
    <3>2. /\ clear(i) \in GwRows /\ clear(i).status = gws[i].status /\ clear(i).addr = gws[i].addr
          /\ clear(i).primary = FALSE
      BY <2>2, <3>1 DEF GwRows
    <3> QED BY <2>2, <3>2, GoneIsNoRow
  <2> QED BY <2>1, <2>2
<1>4. Unset = [i \in GwIds |-> clear(i)]
  BY DEF Unset
<1> HIDE DEF clear
<1>5. \A i \in GwIds : Unset[i] = clear(i)
  BY <1>4
<1>6. Unset \in Seq(GwRows \cup {GoneGw}) /\ Len(Unset) = Len(gws)
  BY <1>1, <1>3, <1>4 DEF GwIds
<1> QED BY <1>3, <1>5, <1>6 DEF SameGateways

\* A table of the same gateways is as good as the one before.
LEMMA SameGatewaysInv ==
    ASSUME GwInv, SameGateways(gws'), NothingForgotten
    PROVE  GwInv'
<1>1. LiveGws' = LiveGws
  BY DEF SameGateways, LiveGws, GwIds
<1>2. \A i \in LiveGws : /\ gws'[i].status = gws[i].status /\ gws'[i].addr = gws[i].addr
                         /\ gws'[i].primary => gws[i].primary
  BY DEF SameGateways, LiveGws
<1>3. OnePrimary'
  BY <1>1, <1>2 DEF GwInv, OnePrimary
<1>4. \A i \in LiveGws : gws[i].status \in GwStatuses
  BY RowFacts DEF GwRows
<1>5. StatusIsItsOwn'
  <2>1. \A i \in LiveGws : ItsOwnNext(i, gws'[i].status)
    BY <1>2, <1>4, StillKnown DEF GwInv, StatusIsItsOwn
  <2> QED BY <1>1, <2>1 DEF StatusIsItsOwn, ItsOwn, ItsOwnNext
<1>6. (\A i \in LiveGws : gws[i].addr \in addrsOf[i])'
  BY <1>1, <1>2, StillKnown DEF GwInv
<1>7. GwTypes'
  BY DEF GwInv, GwTypes, SameGateways, NothingForgotten
<1> QED BY <1>3, <1>5, <1>6, <1>7, StillKnown DEF GwInv

\* INSERT: a new row shows no result, and is primary only when no other is.
LEMMA InsertInv ==
    ASSUME GwInv, NEW t, SameGateways(t), NEW n \in GwNames, NEW a \in GwAddrs,
           NEW p \in BOOLEAN, p => \A i \in LiveGws : ~t[i].primary,
           Len(gws) < MaxGateways, Inserted(t, n, a, p),
           UNCHANGED <<outcomes, setByHand, probe>>
    PROVE  GwInv'
<1> DEFINE row == NewGw(n, a, p)
           k == Len(gws) + 1
<1>0. GwTypes
  BY DEF GwInv
<1>1. /\ row \in GwRows /\ row.primary = p /\ row.status = "unknown" /\ row.addr = a
  BY DEF NewGw, GwRows, GwStatuses
<1>2. t \in Seq(GwRows \cup {GoneGw}) /\ Len(t) = Len(gws) /\ Len(gws) \in Nat
  BY <1>0 DEF SameGateways, GwTypes
<1>2a. gws' = Append(t, row) /\ addrsOf' = [addrsOf EXCEPT ![k] = @ \cup {a}]
  BY <1>2 DEF Inserted
<1> HIDE DEF row
<1>3. /\ gws' \in Seq(GwRows \cup {GoneGw}) /\ Len(gws') = k
      /\ \A i \in GwIds : gws'[i] = t[i]
      /\ gws'[k] = row
  BY <1>1, <1>2, <1>2a DEF GwIds
<1>4. k \in 1..MaxGateways /\ k \notin GwIds /\ GwIds' = GwIds \cup {k}
  BY <1>2, <1>3, GatewaysAssumption DEF GwIds
<1>5. LiveGws' = LiveGws \cup {k}
  <2>1. gws'[k] # GoneGw
    BY <1>1, <1>3, GoneIsNoRow
  <2>2. \A i \in GwIds : gws'[i] = GoneGw <=> gws[i] = GoneGw
    BY <1>3 DEF SameGateways
  <2> HIDE DEF k
  <2> QED BY <1>4, <2>1, <2>2 DEF LiveGws
<1>6. \A i \in LiveGws : /\ i \in GwIds /\ gws'[i].status = gws[i].status
                         /\ gws'[i].addr = gws[i].addr
                         /\ gws'[i].primary => gws[i].primary /\ ~p
  BY <1>3 DEF SameGateways, LiveGws
<1> HIDE DEF k
<1>7. NothingForgotten
  BY <1>0, <1>2a, <1>4 DEF NothingForgotten, GwTypes
<1>8. OnePrimary'
  <2>1. gws'[k].primary = p
    BY <1>1, <1>3
  <2> QED BY <1>5, <1>6, <2>1 DEF GwInv, OnePrimary
<1>9. StatusIsItsOwn'
  <2>1. \A i \in LiveGws : gws[i].status \in GwStatuses
    BY RowFacts DEF GwRows
  <2>2. \A i \in LiveGws : ItsOwnNext(i, gws'[i].status)
    BY <1>6, <1>7, <2>1, StillKnown DEF GwInv, StatusIsItsOwn
  <2>3. ItsOwnNext(k, gws'[k].status)
    BY <1>1, <1>3 DEF ItsOwnNext
  <2> QED BY <1>5, <2>2, <2>3 DEF StatusIsItsOwn, ItsOwn, ItsOwnNext
<1>10. (\A i \in LiveGws : gws[i].addr \in addrsOf[i])'
  <2>1. gws'[k].addr \in addrsOf'[k]
    BY <1>0, <1>1, <1>2a, <1>3, <1>4 DEF GwTypes
  <2>2. \A i \in LiveGws : gws'[i].addr \in addrsOf'[i]
    BY <1>6, <1>7, StillKnown DEF GwInv
  <2> QED BY <1>5, <2>1, <2>2
<1>11. GwTypes'
  <2>1. Len(gws') <= MaxGateways
    BY <1>3, <1>4
  <2> QED BY <1>3, <1>7, <2>1 DEF GwTypes, NothingForgotten
<1> QED BY <1>7, <1>8, <1>9, <1>10, <1>11, StillKnown DEF GwInv

\* A row of the table is written at its id.
LEMMA WriteRow ==
    ASSUME NEW t \in Seq(GwRows \cup {GoneGw}), NEW i \in 1..Len(t),
           NEW r \in GwRows \cup {GoneGw}
    PROVE  /\ [t EXCEPT ![i] = r] \in Seq(GwRows \cup {GoneGw})
           /\ Len([t EXCEPT ![i] = r]) = Len(t)
           /\ \A j \in 1..Len(t) : [t EXCEPT ![i] = r][j] = IF j = i THEN r ELSE t[j]
  OBVIOUS

\* UPDATE ... WHERE id: one row is written, with a status and an address of its own,
\* and made primary only when no other is.
LEMMA RowWritten ==
    ASSUME GwInv, NEW t, SameGateways(t), NEW i \in LiveGws, NEW r \in GwRows,
           gws' = [t EXCEPT ![i] = r], NothingForgotten,
           r.addr \in addrsOf'[i], ItsOwnNext(i, r.status),
           r.primary => \A j \in LiveGws \ {i} : ~t[j].primary
    PROVE  GwInv'
<1>1. /\ t \in Seq(GwRows \cup {GoneGw}) /\ Len(t) = Len(gws) /\ GwIds = 1..Len(t)
      /\ i \in 1..Len(t)
  BY DEF SameGateways, LiveGws, GwIds
<1>2. /\ gws' \in Seq(GwRows \cup {GoneGw}) /\ Len(gws') = Len(gws)
      /\ \A j \in GwIds : gws'[j] = IF j = i THEN r ELSE t[j]
  BY <1>1, WriteRow
<1>3. LiveGws' = LiveGws
  <2>1. \A j \in GwIds : gws'[j] = GoneGw <=> gws[j] = GoneGw
    BY <1>2, GoneIsNoRow DEF SameGateways, LiveGws
  <2> QED BY <1>2, <2>1 DEF LiveGws, GwIds
<1>4. \A j \in LiveGws \ {i} : /\ gws'[j].status = gws[j].status
                               /\ gws'[j].addr = gws[j].addr
                               /\ gws'[j].primary => gws[j].primary /\ ~r.primary
  BY <1>2 DEF SameGateways, LiveGws
<1>5. gws'[i] = r
  BY <1>2 DEF LiveGws
<1>6. OnePrimary'
  BY <1>3, <1>4, <1>5 DEF GwInv, OnePrimary
<1>7. StatusIsItsOwn'
  <2>1. \A j \in LiveGws : gws[j].status \in GwStatuses
    BY RowFacts DEF GwRows
  <2>2. \A j \in LiveGws \ {i} : ItsOwnNext(j, gws'[j].status)
    BY <1>4, <2>1, StillKnown DEF GwInv, StatusIsItsOwn
  <2>3. \A j \in LiveGws : ItsOwnNext(j, gws'[j].status)
    BY <1>5, <2>2
  <2> QED BY <1>3, <2>3 DEF StatusIsItsOwn, ItsOwn, ItsOwnNext
<1>8. (\A j \in LiveGws : gws[j].addr \in addrsOf[j])'
  BY <1>3, <1>4, <1>5, StillKnown DEF GwInv
<1>9. GwTypes'
  BY <1>2 DEF GwInv, GwTypes, NothingForgotten
<1> QED BY <1>6, <1>7, <1>8, <1>9, StillKnown DEF GwInv

\* PUT: the new primary is the only one, and a status in the body is recorded.
LEMMA UpdateGatewayInv ==
    ASSUME GwInv, NEW i \in GwIds, NEW u \in GwBodies, UpdateGateway(i, u)
    PROVE  GwInv'
<1> DEFINE t == IF u.primary = "set" THEN Unset ELSE gws
           r == Updated(t[i], u)
           refused == u.name # 0 /\ u.name # gws[i].name /\ Taken(u.name)
<1>0. GwTypes
  BY DEF GwInv
<1>1. /\ i \in LiveGws /\ UNCHANGED <<probe, outcomes>>
      /\ refused => gws' = t /\ UNCHANGED <<addrsOf, setByHand>>
      /\ ~refused => /\ gws' = [t EXCEPT ![i] = r]
                     /\ addrsOf' = [addrsOf EXCEPT ![i] = @ \cup ({u.addr} \ {0})]
                     /\ setByHand' = [setByHand EXCEPT ![i] = @ \cup ({u.status} \ {"no"})]
  BY DEF UpdateGateway
<1>2. SameGateways(t) /\ (u.primary = "set" => \A j \in GwIds : t[j].primary = FALSE)
  <2>1. SameGateways(gws)
    BY <1>0 DEF GwTypes, SameGateways
  <2> QED BY <1>0, <2>1, UnsetClears DEF GwTypes
<1>3. u \in AllBodies
  BY GatewaysAssumption
<1>4. i \in 1..MaxGateways
  BY <1>1, RowFacts
<1> HIDE DEF t, refused
<1>5. CASE refused
  <2>1. NothingForgotten
    BY <1>0, <1>1, <1>5 DEF NothingForgotten, GwTypes
  <2> QED BY <1>1, <1>2, <1>5, <2>1, SameGatewaysInv
<1>6. CASE ~refused
  <2>1. /\ t[i] \in GwRows /\ t[i].status = gws[i].status /\ t[i].addr = gws[i].addr
        /\ t[i].primary => gws[i].primary
    <3>1. i \in 1..Len(t) /\ t[i] # GoneGw
      BY <1>1, <1>2 DEF SameGateways, LiveGws, GwIds
    <3> QED BY <1>1, <1>2, <3>1 DEF SameGateways, LiveGws
  <2>2. /\ r \in GwRows
        /\ r.addr = IF u.addr = 0 THEN gws[i].addr ELSE u.addr
        /\ r.status = IF u.status = "no" THEN gws[i].status ELSE u.status
        /\ r.primary = IF u.primary = "no" THEN t[i].primary ELSE u.primary = "set"
    BY <1>3, <2>1 DEF Updated, AllBodies, GwRows, GwStatuses
  <2> HIDE DEF r
  <2>3. /\ u.addr # 0 => u.addr \in GwAddrs
        /\ u.status # "no" => u.status \in GwStatuses
    BY <1>3 DEF AllBodies, GwStatuses
  <2>4. NothingForgotten
    <3>1. addrsOf' \in [1..MaxGateways -> SUBSET GwAddrs]
      BY <1>0, <1>1, <1>4, <1>6, <2>3 DEF GwTypes
    <3>2. setByHand' \in [1..MaxGateways -> SUBSET GwStatuses]
      BY <1>0, <1>1, <1>4, <1>6, <2>3 DEF GwTypes
    <3>3. \A j \in 1..MaxGateways : /\ addrsOf[j] \subseteq addrsOf'[j]
                                    /\ setByHand[j] \subseteq setByHand'[j]
      BY <1>0, <1>1, <1>6 DEF GwTypes
    <3> QED BY <1>0, <1>1, <3>1, <3>2, <3>3 DEF NothingForgotten, GwTypes
  <2>5. r.addr \in addrsOf'[i]
    <3>1. gws[i].addr \in addrsOf[i]
      BY <1>1 DEF GwInv
    <3> QED BY <1>0, <1>1, <1>4, <1>6, <2>2, <3>1 DEF GwTypes
  <2>6. ItsOwnNext(i, r.status)
    <3>1. CASE u.status = "no"
      <4>1. gws[i].status \in GwStatuses /\ ItsOwn(i, gws[i].status)
        BY <1>1, RowFacts DEF GwInv, StatusIsItsOwn, GwRows
      <4> QED BY <1>1, <2>2, <2>4, <3>1, <4>1, StillKnown
    <3>2. CASE u.status # "no"
      BY <1>0, <1>1, <1>4, <1>6, <2>2, <3>2 DEF GwTypes, ItsOwnNext
    <3> QED BY <3>1, <3>2
  <2>7. ASSUME r.primary, NEW j \in LiveGws \ {i}
        PROVE  ~t[j].primary
    <3>1. j \in GwIds /\ i \in GwIds /\ (t[j].primary => gws[j].primary)
      BY <1>2 DEF LiveGws, SameGateways
    <3>2. CASE u.primary = "set"
      <4>1. t[j].primary = FALSE
        BY <1>2, <3>1, <3>2
      <4> QED BY <4>1
    <3>3. CASE u.primary # "set"
      <4>1. gws[i].primary
        BY <2>1, <2>2, <2>7, <3>3
      <4> QED BY <1>1, <3>1, <4>1 DEF GwInv, OnePrimary
    <3> QED BY <3>2, <3>3
  <2> QED BY <1>1, <1>2, <1>6, <2>2, <2>4, <2>5, <2>6, <2>7, RowWritten
<1> QED BY <1>5, <1>6

\* DELETE: a row less.
LEMMA RemoveGatewayInv ==
    ASSUME GwInv, NEW i \in GwIds, RemoveGateway(i)
    PROVE  GwInv'
<1>0. GwTypes
  BY DEF GwInv
<1>1. gws' = [gws EXCEPT ![i] = GoneGw] /\ UNCHANGED <<probe, outcomes, addrsOf, setByHand>>
  BY DEF RemoveGateway
<1>2. /\ gws' \in Seq(GwRows \cup {GoneGw}) /\ Len(gws') = Len(gws)
      /\ \A j \in GwIds : gws'[j] = IF j = i THEN GoneGw ELSE gws[j]
  BY <1>0, <1>1, WriteRow DEF GwTypes, GwIds
<1>3. LiveGws' \subseteq LiveGws /\ i \notin LiveGws' /\ LiveGws \subseteq GwIds
  BY <1>2 DEF LiveGws, GwIds
<1>4. \A j \in LiveGws' : gws'[j] = gws[j]
  BY <1>2, <1>3
<1>5. OnePrimary'
  BY <1>3, <1>4 DEF GwInv, OnePrimary
<1>6. StatusIsItsOwn'
  BY <1>1, <1>3, <1>4 DEF GwInv, StatusIsItsOwn, ItsOwn
<1>7. (\A j \in LiveGws : gws[j].addr \in addrsOf[j])'
  BY <1>1, <1>3, <1>4 DEF GwInv
<1>8. AsksItsOwn'
  BY <1>1 DEF GwInv, AsksItsOwn
<1>9. GwTypes'
  BY <1>0, <1>1, <1>2 DEF GwTypes
<1> QED BY <1>5, <1>6, <1>7, <1>8, <1>9 DEF GwInv

\* A health request reads the rows as they are.
LEMMA StartProbeInv ==
    ASSUME GwInv, NEW q \in Probers, StartProbe(q)
    PROVE  GwInv'
<1>1. /\ UNCHANGED <<gws, outcomes, addrsOf, setByHand>>
      /\ probe' = [probe EXCEPT ![q] = {RowRead(i) : i \in LiveGws}]
  BY DEF StartProbe
<1>2. \A i \in LiveGws : /\ RowRead(i) \in GwReads /\ RowRead(i).id = i
                         /\ RowRead(i).addr = gws[i].addr
  BY RowFacts DEF RowRead, GwReads, GwRows
<1>3. AsksItsOwn'
  <2> SUFFICES ASSUME NEW b \in Probers, NEW g \in probe'[b]
               PROVE  g \in GwReads /\ g.addr \in addrsOf[g.id]
    BY <1>1 DEF AsksItsOwn
  <2>1. CASE b = q
    <3>1. PICK i \in LiveGws : g = RowRead(i)
      BY <1>1, <2>1 DEF GwInv, GwTypes
    <3> QED BY <1>2, <3>1 DEF GwInv
  <2>2. CASE b # q
    <3>1. g \in probe[b]
      BY <1>1, <2>2 DEF GwInv, GwTypes
    <3> QED BY <3>1 DEF GwInv, AsksItsOwn
  <2> QED BY <2>1, <2>2
<1>4. GwTypes'
  BY <1>1 DEF GwInv, GwTypes
<1>5. OnePrimary' /\ StatusIsItsOwn' /\ (\A i \in LiveGws : gws[i].addr \in addrsOf[i])'
  BY <1>1 DEF GwInv, OnePrimary, StatusIsItsOwn, ItsOwn, LiveGws, GwIds
<1> QED BY <1>3, <1>4, <1>5 DEF GwInv

\* A probe writes what it found to the row with the id it asked for, if that
\* row is still there.
LEMMA ProbeOneInv ==
    ASSUME GwInv, NEW q \in Probers, ProbeOne(q)
    PROVE  GwInv'
<1>0. GwTypes /\ AsksItsOwn
  BY DEF GwInv
<1>1. PICK g \in NextToProbe(q) :
        /\ probe' = [probe EXCEPT ![q] = @ \ {g}]
        /\ \/ UNCHANGED <<gws, outcomes>>
           \/ \E s \in ProbeStatuses :
                 /\ gws' = WriteStatus(g.id, s)
                 /\ outcomes' = [outcomes EXCEPT ![g.addr] = @ \cup {s}]
  BY DEF ProbeOne
<1>2. g \in GwReads /\ g.addr \in addrsOf[g.id]
  BY <1>0 DEF NextToProbe, AsksItsOwn
<1>3. g.id \in 1..MaxGateways /\ g.addr \in GwAddrs
  BY <1>2 DEF GwReads
<1>4. /\ UNCHANGED <<addrsOf, setByHand>> /\ DOMAIN probe' = Probers
      /\ \A b \in Probers : probe'[b] \subseteq probe[b]
  <2>1. UNCHANGED <<addrsOf, setByHand>>
    BY DEF ProbeOne
  <2> QED BY <1>0, <1>1, <2>1 DEF GwTypes
<1>5. SameGateways(gws)
  BY <1>0 DEF GwTypes, SameGateways
<1>6. CASE UNCHANGED <<gws, outcomes>>
  <2>1. NothingForgotten
    BY <1>0, <1>4, <1>6 DEF NothingForgotten, GwTypes
  <2> QED BY <1>5, <1>6, <2>1, SameGatewaysInv
<1>7. ASSUME NEW s \in ProbeStatuses, gws' = WriteStatus(g.id, s),
             outcomes' = [outcomes EXCEPT ![g.addr] = @ \cup {s}]
      PROVE  GwInv'
  <2>1. s \in GwStatuses
    BY DEF ProbeStatuses, GwStatuses
  <2>2. /\ outcomes' \in [GwAddrs -> SUBSET GwStatuses] /\ s \in outcomes'[g.addr]
        /\ \A a \in GwAddrs : outcomes[a] \subseteq outcomes'[a]
    <3>1. outcomes \in [GwAddrs -> SUBSET GwStatuses]
      BY <1>0 DEF GwTypes
    <3> QED BY <1>3, <1>7, <2>1, <3>1
  <2>3. NothingForgotten
    BY <1>0, <1>4, <2>2 DEF NothingForgotten, GwTypes
  <2>4. CASE g.id \notin LiveGws
    <3>1. UNCHANGED gws
      BY <1>7, <2>4 DEF WriteStatus
    <3> QED BY <1>5, <2>3, <3>1, SameGatewaysInv
  <2>5. CASE g.id \in LiveGws
    <3> DEFINE r == [gws[g.id] EXCEPT !.status = s]
    <3>1. gws[g.id] \in GwRows
      BY <2>5, RowFacts
    <3>2. /\ r \in GwRows /\ r.status = s /\ r.addr = gws[g.id].addr
          /\ r.primary = gws[g.id].primary
      BY <2>1, <3>1 DEF GwRows
    <3>3. gws' = [gws EXCEPT ![g.id] = r]
      BY <1>7, <2>5 DEF WriteStatus
    <3> HIDE DEF r
    <3>4. r.addr \in addrsOf'[g.id]
      BY <1>4, <2>5, <3>2 DEF GwInv
    <3>5. ItsOwnNext(g.id, r.status)
      BY <1>2, <1>4, <2>2, <3>2 DEF ItsOwnNext
    <3>6. r.primary => \A j \in LiveGws \ {g.id} : ~gws[j].primary
      BY <2>5, <3>2 DEF GwInv, OnePrimary
    <3> QED BY <1>5, <2>3, <2>5, <3>2, <3>3, <3>4, <3>5, <3>6, RowWritten
  <2> QED BY <2>4, <2>5
<1> QED BY <1>1, <1>6, <1>7

\* Every request and every step of a probe preserves the invariant.
LEMMA GwNextInv == GwInv /\ [GwNext]_gwVars => GwInv'
<1> SUFFICES ASSUME GwInv, [GwNext]_gwVars
             PROVE  GwInv'
  OBVIOUS
<1>0. GwTypes
  BY DEF GwInv
<1>1. SameGateways(gws)
  BY <1>0 DEF GwTypes, SameGateways
<1>2. CASE ListGateways
  <2>1. PICK n \in GwNames, a \in GwAddrs : Inserted(gws, n, a, TRUE)
    BY <1>2 DEF ListGateways
  <2>2. /\ LiveGws = {} /\ Len(gws) < MaxGateways
        /\ UNCHANGED <<outcomes, setByHand, probe>>
    BY <1>2 DEF ListGateways
  <2> QED BY <1>1, <2>1, <2>2, InsertInv
<1>3. ASSUME NEW n \in GwNames, NEW a \in GwAddrs, NEW p \in BOOLEAN, AddGateway(n, a, p)
      PROVE  GwInv'
  <2> DEFINE t == IF p THEN Unset ELSE gws
  <2>1. SameGateways(t) /\ (p => \A i \in LiveGws : ~t[i].primary)
    BY <1>0, <1>1, UnsetClears DEF GwTypes, LiveGws
  <2>2. /\ Len(gws) < MaxGateways /\ UNCHANGED <<outcomes, setByHand, probe>>
        /\ (gws' = t /\ UNCHANGED addrsOf) \/ Inserted(t, n, a, p)
    BY <1>3 DEF AddGateway
  <2> HIDE DEF t
  <2>3. CASE gws' = t /\ UNCHANGED addrsOf
    <3>1. NothingForgotten
      BY <1>0, <2>2, <2>3 DEF NothingForgotten, GwTypes
    <3> QED BY <2>1, <2>3, <3>1, SameGatewaysInv
  <2>4. CASE Inserted(t, n, a, p)
    BY <2>1, <2>2, <2>4, InsertInv
  <2> QED BY <2>2, <2>3, <2>4
<1>4. ASSUME NEW i \in GwIds, RemoveGateway(i) \/ \E u \in GwBodies : UpdateGateway(i, u)
      PROVE  GwInv'
  BY <1>4, RemoveGatewayInv, UpdateGatewayInv
<1>5. ASSUME NEW q \in Probers, StartProbe(q) \/ ProbeOne(q)
      PROVE  GwInv'
  BY <1>5, StartProbeInv, ProbeOneInv
<1>6. CASE UNCHANGED <<gws, outcomes, addrsOf, setByHand, probe>>
  <2>1. NothingForgotten
    BY <1>0, <1>6 DEF NothingForgotten, GwTypes
  <2> QED BY <1>1, <1>6, <2>1, SameGatewaysInv
<1> QED BY <1>2, <1>3, <1>4, <1>5, <1>6 DEF GwNext, gwVars, EndProbe

\* Whatever is added, changed, removed and probed, and in whatever order: one
\* primary at most, and no gateway shows a result that was another's.
THEOREM GatewaysCorrect == GwSpec => []GatewaysSafe
<1>1. GwInit => GwInv
  <2> SUFFICES ASSUME GwInit
               PROVE  GwInv
    OBVIOUS
  <2>1. /\ gws = <<>> /\ outcomes = [a \in GwAddrs |-> {}]
        /\ addrsOf = [i \in 1..MaxGateways |-> {}]
        /\ setByHand = [i \in 1..MaxGateways |-> {}]
        /\ probe = [q \in Probers |-> {}]
    BY DEF GwInit
  <2>2. gws \in Seq(GwRows \cup {GoneGw}) /\ Len(gws) = 0 /\ LiveGws = {}
    BY <2>1 DEF LiveGws, GwIds
  <2>3. GwTypes
    BY <2>1, <2>2, GatewaysAssumption DEF GwTypes
  <2>4. AsksItsOwn
    BY <2>1 DEF AsksItsOwn
  <2> QED BY <2>2, <2>3, <2>4 DEF GwInv, OnePrimary, StatusIsItsOwn
<1>2. GwInv => GatewaysSafe
  BY DEF GwInv, GatewaysSafe
<1> QED BY <1>1, <1>2, GwNextInv, PTL DEF GwSpec
=============================================================================
