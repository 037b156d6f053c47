----------------------------- MODULE LiveProofs -----------------------------
(***************************************************************************)
(* Proofs about the lists of the browser: the live board (StreamKeepsIn-   *)
(* Step) and the chat (ChatSafe).                                          *)
(***************************************************************************)
EXTENDS LiveBoard, Chat, ListProofs

---------------------------------------------------------------------------
(***************************************************************************)
(* The live board: the inductive invariant.                                *)
(*                                                                         *)
(* As long as page and table have not come apart, the events on their way  *)
(* lead from what the page shows to what the table is: there is a history  *)
(* of tables, one behind each event.                                       *)
(***************************************************************************)
BusEvents == [type : {"created", "updated", "deleted"}, id : RowIds, status : Statuses]
LiveCards == [id : RowIds, status : Statuses]

IsTable(t) ==
  /\ DOMAIN t \subseteq RowIds /\ IsFiniteSet(DOMAIN t)
  /\ t = [i \in DOMAIN t |-> t[i]]
  /\ \A i \in DOMAIN t : t[i] \in Statuses
IsFetched(f) == {"key", "got", "answered"} \subseteq DOMAIN f /\ IsTable(f.got)
IsDrag(d) ==
  /\ {"id", "prev", "to", "at"} \subseteq DOMAIN d
  /\ d.id \in RowIds /\ {d.prev, d.to} \subseteq Statuses

\* Ids are given once.
Numbered == lastRow \in Nat /\ \A i \in DOMAIN rows \cup leftOut : i \in Nat /\ i <= lastRow

LiveTypeInv ==
  /\ IsTable(rows) /\ Numbered
  /\ wire \in Seq(BusEvents) /\ cards \in Seq(LiveCards)
  /\ IsFiniteSet(drags) /\ (\A d \in drags : IsDrag(d))
  /\ \A f \in fetches : IsFetched(f)
  /\ apart \in BOOLEAN

\* The rows the page follows: those that were not beyond the limit of its list.
Follow(r, l) == [i \in DOMAIN r \ l |-> r[i]]

\* What an event says happened between two tables.  It may be about a row that
\* is not followed.
Brings(s, e, t) ==
  /\ e.type = "created" => e.id \notin DOMAIN s /\ DOMAIN t = DOMAIN s \cup {e.id}
  /\ e.type = "updated" => DOMAIN t = DOMAIN s
  /\ e.type = "deleted" => DOMAIN t = DOMAIN s \ {e.id}
  /\ e.type # "deleted" /\ e.id \in DOMAIN t => t[e.id] = e.status
  /\ \A i \in DOMAIN t : i # e.id => t[i] = s[i]

Moving(i, ds) == \E d \in ds : d.id = i
Announced(i, w) == \E k \in DOMAIN w : w[k].id = i

\* One card for each row of t; it has the row's status unless it is being moved
\* or an event that will set it is on its way.
Shows(c, t, w, ds) ==
  /\ \A j, k \in DOMAIN c : c[j].id = c[k].id => j = k
  /\ \A k \in DOMAIN c : c[k].id \in DOMAIN t
  /\ \A i \in DOMAIN t : \E k \in DOMAIN c : c[k].id = i
  /\ \A k \in DOMAIN c :
       c[k].status = t[c[k].id] \/ Moving(c[k].id, ds) \/ Announced(c[k].id, w)

\* H[k] is the table behind the first k events.
LeadsTo(H, w, c, r, ds) ==
  /\ H[Len(w)] = r
  /\ \A k \in 1..Len(w) : Brings(H[k - 1], w[k], H[k])
  /\ Shows(c, H[0], w, ds)

InStepInv == ~apart => \E H : LeadsTo(H, wire, cards, Follow(rows, leftOut), drags)
LiveInv == LiveTypeInv /\ InStepInv

---------------------------------------------------------------------------
(* The steps on a history.                                                 *)

\* Another event, after which a drag of its row may be over.
LEMMA OneMoreEvent ==
  ASSUME NEW H, NEW w \in Seq(BusEvents), NEW c, NEW r, NEW ds, LeadsTo(H, w, c, r, ds),
         NEW e \in BusEvents, NEW t, Brings(r, e, t),
         NEW dt, \A d \in ds : d \in dt \/ d.id = e.id
  PROVE  \E G : LeadsTo(G, Append(w, e), c, t, dt)
<1> DEFINE n == Len(w)
           v == Append(w, e)
           G == [k \in 0..(n + 1) |-> IF k = n + 1 THEN t ELSE H[k]]
<1>1. n \in Nat /\ Len(v) = n + 1 /\ DOMAIN w = 1..n /\ DOMAIN v = 1..(n + 1) OBVIOUS
<1>2. v[n + 1] = e /\ \A k \in 1..n : v[k] = w[k] OBVIOUS
<1>3. G[n + 1] = t /\ \A k \in 0..n : G[k] = H[k] BY <1>1
<1>4. H[n] = r /\ (\A k \in 1..n : Brings(H[k - 1], w[k], H[k])) /\ Shows(c, H[0], w, ds)
  BY DEF LeadsTo
<1> HIDE DEF n, v, G
<1>5. ASSUME NEW k \in 1..(n + 1)
      PROVE  Brings(G[k - 1], v[k], G[k])
  <2>1. CASE k = n + 1
    <3>1. k - 1 = n /\ n \in 0..n BY <1>1, <2>1
    <3> QED BY <3>1, <1>2, <1>3, <1>4, <2>1
  <2>2. CASE k # n + 1
    <3>1. k \in 1..n /\ k \in 0..n /\ k - 1 \in 0..n BY <1>1, <2>2
    <3> QED BY <3>1, <1>2, <1>3, <1>4
  <2> QED BY <2>1, <2>2
<1>6. \A i : Announced(i, w) => Announced(i, v)
  <2>1. \A k \in DOMAIN w : k \in DOMAIN v /\ v[k] = w[k] BY <1>1, <1>2
  <2> QED BY <2>1 DEF Announced
<1>7. Announced(e.id, v) BY <1>1, <1>2 DEF Announced
<1>8. \A i : Moving(i, ds) => Moving(i, dt) \/ Announced(i, v) BY <1>7 DEF Moving
<1>9. G[0] = H[0] BY <1>1, <1>3
<1>10. Shows(c, G[0], v, dt) BY <1>4, <1>6, <1>8, <1>9 DEF Shows
<1>11. LeadsTo(G, v, c, t, dt) BY <1>1, <1>3, <1>5, <1>10 DEF LeadsTo
<1> QED BY <1>11 DEF v

\* The first event is applied to the cards.
LEMMA OneEventLess ==
  ASSUME NEW H, NEW w \in Seq(BusEvents), w # <<>>, NEW c, NEW b, NEW r, NEW ds,
         LeadsTo(H, w, c, r, ds), Shows(b, H[1], Tail(w), ds)
  PROVE  \E G : LeadsTo(G, Tail(w), b, r, ds)
<1> DEFINE n == Len(w) - 1
           v == Tail(w)
           G == [k \in 0..n |-> H[k + 1]]
<1>1. n \in Nat /\ Len(v) = n /\ \A k \in 1..n : v[k] = w[k + 1] OBVIOUS
<1>2. \A k \in 0..n : G[k] = H[k + 1] BY <1>1
<1>3. H[n + 1] = r /\ (\A k \in 1..(n + 1) : Brings(H[k - 1], w[k], H[k])) BY DEF LeadsTo
<1> HIDE DEF n, v, G
<1>4. ASSUME NEW k \in 1..n
      PROVE  Brings(G[k - 1], v[k], G[k])
  <2>1. k \in 0..n /\ k - 1 \in 0..n /\ k + 1 \in 1..(n + 1) /\ (k + 1) - 1 = k /\ (k - 1) + 1 = k
    BY <1>1
  <2>2. Brings(H[(k + 1) - 1], w[k + 1], H[k + 1]) BY <1>3, <2>1
  <2>3. G[k - 1] = H[k] /\ G[k] = H[k + 1] /\ v[k] = w[k + 1] BY <1>1, <1>2, <2>1
  <2> QED BY <2>1, <2>2, <2>3
<1>5. G[0] = H[1] /\ G[n] = r BY <1>1, <1>2, <1>3
<1>6. LeadsTo(G, v, b, r, ds) BY <1>1, <1>4, <1>5 DEF LeadsTo, v
<1> QED BY <1>6 DEF v

---------------------------------------------------------------------------
(* What the store makes of its cards.                                      *)

\* Cards made of a table show it.
LEMMA CardsOfShow ==
  ASSUME NEW t, IsTable(t)
  PROVE  /\ CardsOf(t) \in Seq(LiveCards)
         /\ \A w, ds : Shows(CardsOf(t), t, w, ds)
<1> DEFINE D == DOMAIN t
           S == {Card(i, t[i]) : i \in D}
           n == Cardinality(S)
           c == CardsOf(t)
<1>1. S \subseteq LiveCards BY DEF IsTable, LiveCards, Card
<1>2. IsFiniteSet(S)
  <2> DEFINE f == [i \in D |-> Card(i, t[i])]
  <2>1. f \in Surjection(D, S) BY DEF Surjection
  <2>2. IsFiniteSet(D) BY DEF IsTable
  <2> HIDE DEF f, D, S
  <2> QED BY <2>1, <2>2, FS_Surjection
<1>3. n \in Nat /\ ExistsBijection(1..n, S)
  <2> HIDE DEF S
  <2> QED BY <1>2, FS_CardinalityType
<1>4. PICK b : b \in Bijection(1..n, S) BY <1>3 DEF ExistsBijection
<1>5. b \in [1..n -> S] /\ IsInjective(b)
  <2> HIDE DEF n, S
  <2> QED BY <1>4 DEF Bijection, Injection, IsInjective
<1>6. c = CHOOSE f \in [1..n -> S] : IsInjective(f) BY DEF CardsOf, SetToSeq
<1>7. c \in [1..n -> S] /\ IsInjective(c)
  <2> HIDE DEF n, S
  <2> QED BY <1>5, <1>6
<1> HIDE DEF c, n, S
<1>8. c \in Injection(1..n, S) BY <1>7 DEF Injection, IsInjective
<1>9. c \in Surjection(1..n, S)
  <2>1. IsFiniteSet(1..n) /\ Cardinality(1..n) = n BY <1>3, FS_Interval
  <2> QED BY <1>2, <1>8, <2>1, FS_Injection DEF n
<1>10. DOMAIN c = 1..n /\ c \in Seq(LiveCards)
  <2>1. c \in [1..n -> LiveCards] BY <1>1, <1>7
  <2> QED BY <2>1, <1>3
<1>11. ASSUME NEW k \in 1..n
       PROVE  c[k].id \in D /\ c[k].status = t[c[k].id] /\ c[k] = Card(c[k].id, t[c[k].id])
  <2>1. PICK i \in D : c[k] = Card(i, t[i]) BY <1>7 DEF S
  <2>2. c[k].id = i /\ c[k].status = t[i] BY <2>1 DEF Card
  <2> QED BY <2>1, <2>2
<1>12. \A j, k \in 1..n : c[j].id = c[k].id => j = k
  BY <1>7, <1>10, <1>11 DEF IsInjective
<1>13. \A i \in D : \E k \in 1..n : c[k].id = i
  <2> SUFFICES ASSUME NEW i \in D PROVE \E k \in 1..n : c[k].id = i
    OBVIOUS
  <2>1. Card(i, t[i]) \in S BY DEF S
  <2>2. PICK k \in 1..n : c[k] = Card(i, t[i]) BY <1>9, <2>1 DEF Surjection
  <2> QED BY <2>2 DEF Card
<1>14. \A w, ds : Shows(c, t, w, ds) BY <1>10, <1>11, <1>12, <1>13 DEF Shows
<1> QED BY <1>10, <1>14 DEF c

\* Setting a status: of a row that is being moved, or to what the table says.
LEMMA SetCardShows ==
  ASSUME cards \in Seq(LiveCards), NEW i \in RowIds, NEW s \in Statuses
  PROVE  /\ SetCard(i, s) \in Seq(LiveCards)
         /\ \A t, u, w, v, ds, dt :
              /\ Shows(cards, t, w, ds) /\ DOMAIN u = DOMAIN t
              /\ \A j \in DOMAIN u : j # i => u[j] = t[j]
              /\ \A j : j # i /\ (Moving(j, ds) \/ Announced(j, w)) => Moving(j, dt) \/ Announced(j, v)
              /\ Moving(i, dt) \/ Announced(i, v) \/ (i \in DOMAIN u => u[i] = s)
              => Shows(SetCard(i, s), u, v, dt)
<1> DEFINE b == SetCard(i, s)
<1>1. DOMAIN b = DOMAIN cards BY DEF SetCard
<1>2. \A k \in DOMAIN cards :
        /\ b[k].id = cards[k].id
        /\ cards[k].id = i => b[k].status = s
        /\ cards[k].id # i => b[k].status = cards[k].status
  BY DEF SetCard, Card, LiveCards
<1>3. b \in Seq(LiveCards)
  <2>1. ASSUME NEW k \in DOMAIN cards
        PROVE  b[k] \in LiveCards
    <3>1. cards[k] \in LiveCards OBVIOUS
    <3>2. Card(i, s) \in LiveCards BY DEF Card, LiveCards
    <3> QED BY <3>1, <3>2 DEF SetCard
  <2>2. b = [k \in DOMAIN cards |-> b[k]] BY DEF SetCard
  <2> HIDE DEF b
  <2>3. Len(cards) \in Nat /\ DOMAIN cards = 1..Len(cards) OBVIOUS
  <2>4. b \in [1..Len(cards) -> LiveCards] BY <2>1, <2>2, <2>3
  <2> QED BY <2>3, <2>4
<1> HIDE DEF b
<1>4. ASSUME NEW t, NEW u, NEW w, NEW v, NEW ds, NEW dt,
             Shows(cards, t, w, ds), DOMAIN u = DOMAIN t,
             \A j \in DOMAIN u : j # i => u[j] = t[j],
             \A j : j # i /\ (Moving(j, ds) \/ Announced(j, w)) => Moving(j, dt) \/ Announced(j, v),
             Moving(i, dt) \/ Announced(i, v) \/ (i \in DOMAIN u => u[i] = s)
      PROVE  Shows(b, u, v, dt)
  <2>1. ASSUME NEW k \in DOMAIN b
        PROVE  b[k].status = u[b[k].id] \/ Moving(b[k].id, dt) \/ Announced(b[k].id, v)
    <3>1. b[k].id = cards[k].id /\ cards[k].id \in DOMAIN t BY <1>1, <1>2, <1>4 DEF Shows
    <3>2. CASE cards[k].id = i BY <3>1, <3>2, <1>1, <1>2, <1>4
    <3>3. CASE cards[k].id # i
      <4>1. \/ cards[k].status = t[cards[k].id]
            \/ Moving(cards[k].id, ds) \/ Announced(cards[k].id, w)
        BY <1>1, <1>4 DEF Shows
      <4> QED BY <3>1, <3>3, <4>1, <1>1, <1>2, <1>4
    <3> QED BY <3>2, <3>3
  <2>2. /\ \A j, k \in DOMAIN b : b[j].id = b[k].id => j = k
        /\ \A k \in DOMAIN b : b[k].id \in DOMAIN u
        /\ \A j \in DOMAIN u : \E k \in DOMAIN b : b[k].id = j
    BY <1>1, <1>2, <1>4 DEF Shows
  <2> QED BY <2>1, <2>2 DEF Shows
<1> QED BY <1>3, <1>4 DEF b

LEMMA AddCardShows ==
  ASSUME cards \in Seq(LiveCards), NEW i \in RowIds, NEW s \in Statuses
  PROVE  /\ AddCard(i, s) \in Seq(LiveCards)
         /\ \A t, u, w, v, ds :
              /\ Shows(cards, t, w, ds) /\ i \notin DOMAIN t
              /\ DOMAIN u = DOMAIN t \cup {i} /\ u[i] = s
              /\ \A j \in DOMAIN u : j # i => u[j] = t[j]
              /\ \A j : j # i /\ Announced(j, w) => Announced(j, v)
              => Shows(AddCard(i, s), u, v, ds)
<1> DEFINE b == AddCard(i, s)
           n == Len(cards)
<1>1. n \in Nat /\ DOMAIN cards = 1..n OBVIOUS
<1>2. Card(i, s) \in LiveCards /\ Card(i, s).id = i /\ Card(i, s).status = s BY DEF Card, LiveCards
<1>3. b \in Seq(LiveCards) /\ DOMAIN b = 1..(n + 1)
      /\ \A k \in 1..(n + 1) : b[k] = IF k = 1 THEN Card(i, s) ELSE cards[k - 1]
  BY <1>1, <1>2 DEF AddCard
<1> HIDE DEF b, n
<1>4. ASSUME NEW t, NEW u, NEW w, NEW v, NEW ds, Shows(cards, t, w, ds), i \notin DOMAIN t,
             DOMAIN u = DOMAIN t \cup {i}, u[i] = s,
             \A j \in DOMAIN u : j # i => u[j] = t[j],
             \A j : j # i /\ Announced(j, w) => Announced(j, v)
      PROVE  Shows(b, u, v, ds)
  <2>1. ASSUME NEW k \in 1..n
        PROVE  cards[k].id \in DOMAIN t /\ cards[k].id # i
    <3>1. k \in DOMAIN cards BY <1>1
    <3>2. cards[k].id \in DOMAIN t BY <3>1, <1>4 DEF Shows
    <3> QED BY <3>2, <1>4
  <2>2. \A k \in 1..(n + 1) : \/ k = 1 /\ b[k].id = i /\ b[k].status = s
                              \/ k - 1 \in 1..n /\ b[k] = cards[k - 1]
    BY <1>1, <1>2, <1>3
  <2>3. \A k \in 1..n : b[k + 1] = cards[k] /\ k + 1 \in 1..(n + 1) BY <1>1, <1>3
  <2>4. b[1].id = i /\ 1 \in 1..(n + 1) BY <1>1, <1>2, <1>3
  <2>5. ASSUME NEW j \in DOMAIN b, NEW k \in DOMAIN b, b[j].id = b[k].id
        PROVE  j = k
    <3>1. CASE j = 1 BY <3>1, <2>1, <2>2, <2>4, <2>5, <1>3
    <3>2. CASE k = 1 BY <3>2, <2>1, <2>2, <2>4, <2>5, <1>3
    <3>3. CASE j # 1 /\ k # 1
      <4>1. j - 1 \in 1..n /\ k - 1 \in 1..n /\ cards[j - 1].id = cards[k - 1].id
        BY <3>3, <2>2, <2>5, <1>3
      <4>2. j - 1 = k - 1 BY <4>1, <1>1, <1>4 DEF Shows
      <4> QED BY <4>1, <4>2, <1>3
    <3> QED BY <3>1, <3>2, <3>3
  <2>6. \A k \in DOMAIN b : b[k].id \in DOMAIN u BY <1>3, <1>4, <2>1, <2>2
  <2>7. ASSUME NEW j \in DOMAIN u
        PROVE  \E k \in DOMAIN b : b[k].id = j
    <3>1. CASE j = i BY <3>1, <2>4, <1>3
    <3>2. CASE j # i
      <4>1. PICK k \in 1..n : cards[k].id = j BY <3>2, <1>1, <1>4 DEF Shows
      <4> QED BY <4>1, <2>3, <1>3
    <3> QED BY <3>1, <3>2
  <2>8. ASSUME NEW k \in DOMAIN b
        PROVE  b[k].status = u[b[k].id] \/ Moving(b[k].id, ds) \/ Announced(b[k].id, v)
    <3>1. CASE k = 1 BY <3>1, <2>2, <1>3, <1>4
    <3>2. CASE k # 1
      <4>1. k - 1 \in 1..n /\ b[k] = cards[k - 1] BY <3>2, <2>2, <1>3
      <4>2. \/ cards[k - 1].status = t[cards[k - 1].id]
            \/ Moving(cards[k - 1].id, ds) \/ Announced(cards[k - 1].id, w)
        BY <4>1, <1>1, <1>4 DEF Shows
      <4>3. cards[k - 1].id \in DOMAIN t /\ cards[k - 1].id # i BY <4>1, <2>1
      <4> QED BY <4>1, <4>2, <4>3, <1>4
    <3> QED BY <3>1, <3>2
  <2> QED BY <2>5, <2>6, <2>7, <2>8 DEF Shows
<1> QED BY <1>3, <1>4 DEF b

LEMMA DropCardShows ==
  ASSUME cards \in Seq(LiveCards), NEW i \in RowIds
  PROVE  /\ DropCard(i) \in Seq(LiveCards)
         /\ \A t, u, w, v, ds :
              /\ Shows(cards, t, w, ds)
              /\ DOMAIN u = DOMAIN t \ {i}
              /\ \A j \in DOMAIN u : j # i => u[j] = t[j]
              /\ \A j : j # i /\ Announced(j, w) => Announced(j, v)
              => Shows(DropCard(i), u, v, ds)
<1> DEFINE T == {c \in Range(cards) : c.id # i}
           b == DropCard(i)
<1>1. b = Filtered(cards, T) BY DEF DropCard
<1> HIDE DEF b
<1>2. /\ b \in Seq(LiveCards)
      /\ \A k \in DOMAIN b : b[k] \in T
      /\ \A j \in DOMAIN cards : cards[j] \in T => \E k \in DOMAIN b : b[k] = cards[j]
      /\ \E h \in [DOMAIN b -> DOMAIN cards] :
              /\ \A j, k \in DOMAIN b : j < k => h[j] < h[k]
              /\ \A k \in DOMAIN b : b[k] = cards[h[k]]
  <2> DEFINE f == Filtered(cards, T)
  <2> HIDE DEF T
  <2>1. /\ f \in Seq(LiveCards)
        /\ \A k \in DOMAIN f : f[k] \in T
        /\ \A j \in DOMAIN cards : cards[j] \in T => \E k \in DOMAIN f : f[k] = cards[j]
        /\ \E h \in [DOMAIN f -> DOMAIN cards] :
                /\ \A j, k \in DOMAIN f : j < k => h[j] < h[k]
                /\ \A k \in DOMAIN f : f[k] = cards[h[k]]
    BY FilteredFacts
  <2>2. b = f BY <1>1
  <2> HIDE DEF f
  <2> QED BY <2>1, <2>2
<1>3. \A j \in DOMAIN cards : cards[j].id # i => cards[j] \in T BY DEF Range
<1>4. \A k \in DOMAIN b : b[k].id # i BY <1>2
<1> HIDE DEF T
<1>5. PICK h \in [DOMAIN b -> DOMAIN cards] :
              /\ \A j, k \in DOMAIN b : j < k => h[j] < h[k]
              /\ \A k \in DOMAIN b : b[k] = cards[h[k]]
  BY <1>2
<1>7. DOMAIN b \subseteq Nat
  <2>1. b \in Seq(LiveCards) BY <1>2
  <2> QED BY <2>1
<1>6. ASSUME NEW t, NEW u, NEW w, NEW v, NEW ds, Shows(cards, t, w, ds),
             DOMAIN u = DOMAIN t \ {i},
             \A j \in DOMAIN u : j # i => u[j] = t[j],
             \A j : j # i /\ Announced(j, w) => Announced(j, v)
      PROVE  Shows(b, u, v, ds)
  <2>1. ASSUME NEW j \in DOMAIN b, NEW k \in DOMAIN b, b[j].id = b[k].id
        PROVE  j = k
    <3>1. h[j] = h[k] BY <1>5, <1>6, <2>1 DEF Shows
    <3>2. j \in Nat /\ k \in Nat BY <1>7
    <3>3. h[j] \in Nat /\ h[k] \in Nat BY <1>5
    <3>4. ~(j < k) /\ ~(k < j) BY <3>1, <3>3, <1>5
    <3> QED BY <3>2, <3>4
  <2>2. \A k \in DOMAIN b : b[k].id \in DOMAIN u BY <1>4, <1>5, <1>6 DEF Shows
  <2>3. ASSUME NEW j \in DOMAIN u
        PROVE  \E k \in DOMAIN b : b[k].id = j
    <3>1. PICK k \in DOMAIN cards : cards[k].id = j BY <1>6 DEF Shows
    <3>2. j # i BY <1>6
    <3> QED BY <3>1, <3>2, <1>2, <1>3
  <2>4. ASSUME NEW k \in DOMAIN b
        PROVE  b[k].status = u[b[k].id] \/ Moving(b[k].id, ds) \/ Announced(b[k].id, v)
    <3>1. h[k] \in DOMAIN cards /\ b[k] = cards[h[k]] BY <1>5
    <3>2. b[k].status = t[b[k].id] \/ Moving(b[k].id, ds) \/ Announced(b[k].id, w)
      BY <3>1, <1>6 DEF Shows
    <3> QED BY <3>2, <1>4, <1>6, <2>2
  <2> QED BY <2>1, <2>2, <2>3, <2>4 DEF Shows
<1> QED BY <1>2, <1>6 DEF b

---------------------------------------------------------------------------
(* The actions.                                                            *)

LEMMA EmptyTable == IsTable(NoRows)
  BY FS_EmptySet DEF IsTable, NoRows

LEMMA LiveInitInv == LiveInit => LiveInv
<1> SUFFICES ASSUME LiveInit PROVE LiveInv
  OBVIOUS
<1>1. LiveTypeInv
  <2>1. IsTable(rows) BY EmptyTable DEF LiveInit
  <2>2. IsFiniteSet(drags) BY FS_EmptySet DEF LiveInit
  <2>3. wire = <<>> /\ cards = <<>> BY DEF LiveInit
  <2>4. wire \in Seq(BusEvents) /\ cards \in Seq(LiveCards) BY <2>3
  <2>5. apart \in BOOLEAN BY DEF LiveInit
  <2>6. (\A d \in drags : IsDrag(d)) /\ (\A f \in fetches : IsFetched(f)) BY DEF LiveInit
  <2>7. Numbered BY DEF LiveInit, Numbered, NoRows
  <2> QED BY <2>1, <2>2, <2>4, <2>5, <2>6, <2>7 DEF LiveTypeInv
<1> DEFINE t == Follow(rows, leftOut)
<1>2. Shows(cards, t, wire, drags) BY DEF LiveInit, Shows, NoRows, Follow
<1>3. Len(wire) = 0 BY DEF LiveInit
<1> DEFINE H == [k \in 0..0 |-> t]
<1> HIDE DEF t
<1>4. LeadsTo(H, wire, cards, t, drags) BY <1>2, <1>3 DEF LeadsTo
<1>5. QED BY <1>1, <1>4 DEF LiveInv, InStepInv, t

\* A change of the table is announced, or nobody listens.
LEMMA BroadcastKeeps ==
  ASSUME LiveInv,
         NEW type \in {"created", "updated", "deleted"}, NEW i \in RowIds, NEW s \in Statuses,
         Broadcast(type, i, s),
         Brings(Follow(rows, leftOut), [type |-> type, id |-> i, status |-> s], Follow(rows', leftOut')),
         IsTable(rows'), Numbered',
         cards' = cards, fetches' = fetches, drags' \subseteq drags,
         \A d \in drags : d \in drags' \/ d.id = i
  PROVE  LiveInv'
<1> DEFINE e == [type |-> type, id |-> i, status |-> s]
<1>1. e \in BusEvents /\ e.id = i BY DEF BusEvents
<1>2. wire \in Seq(BusEvents) BY DEF LiveInv, LiveTypeInv
<1>3. \/ wire' = Append(wire, e) /\ apart' = apart
      \/ wire' = wire /\ apart' = TRUE
  BY DEF Broadcast
<1> DEFINE t == Follow(rows, leftOut)
           u == Follow(rows', leftOut')
<1>4. Brings(t, e, u) OBVIOUS
<1> HIDE DEF e, t, u
<1>5. wire' \in Seq(BusEvents) BY <1>1, <1>2, <1>3
<1>6. IsFiniteSet(drags')
  <2>1. IsFiniteSet(drags) /\ drags' \in SUBSET drags BY DEF LiveInv, LiveTypeInv
  <2> QED BY <2>1, FS_Subset
<1>7. apart \in BOOLEAN /\ apart' \in BOOLEAN BY <1>3 DEF LiveInv, LiveTypeInv
<1>8. cards' \in Seq(LiveCards) /\ (\A d \in drags' : IsDrag(d)) /\ (\A f \in fetches' : IsFetched(f))
  BY DEF LiveInv, LiveTypeInv
<1>9. LiveTypeInv' BY <1>5, <1>6, <1>7, <1>8 DEF LiveTypeInv
<1>10. ASSUME ~apart' PROVE \E G : LeadsTo(G, wire', cards', u, drags')
  <2>1. wire' = Append(wire, e) /\ ~apart BY <1>3, <1>10
  <2>2. PICK H : LeadsTo(H, wire, cards, t, drags) BY <2>1 DEF LiveInv, InStepInv, t
  <2>3. \E G : LeadsTo(G, Append(wire, e), cards, u, drags')
    BY <1>1, <1>2, <1>4, <2>2, OneMoreEvent
  <2> QED BY <2>1, <2>3
<1>11. InStepInv' BY <1>10 DEF InStepInv, u
<1> QED BY <1>9, <1>11 DEF LiveInv

LEMMA InsertKeeps ==
  ASSUME LiveInv, NEW s \in Statuses, Insert(s)
  PROVE  LiveInv'
<1> DEFINE i == lastRow + 1
           e == [type |-> "created", id |-> i, status |-> s]
<1>1. /\ i \in RowIds /\ lastRow' = i /\ Broadcast("created", i, s)
      /\ rows' = [j \in DOMAIN rows \cup {i} |-> IF j = i THEN s ELSE rows[j]]
      /\ cards' = cards /\ fetches' = fetches /\ drags' = drags /\ leftOut' = leftOut
  BY DEF Insert
<1>2. /\ IsFiniteSet(DOMAIN rows) /\ DOMAIN rows \subseteq RowIds
      /\ \A j \in DOMAIN rows : rows[j] \in Statuses
      /\ Numbered
  BY DEF LiveInv, LiveTypeInv, IsTable
<1>3. i \in Nat /\ i \notin DOMAIN rows /\ i \notin leftOut BY <1>2 DEF Numbered
<1>4. \A j \in DOMAIN rows \cup leftOut \cup {i} : j \in Nat /\ j <= i BY <1>2 DEF Numbered
<1> HIDE DEF i
<1>5. IsFiniteSet(DOMAIN rows \cup {i}) BY <1>2, FS_AddElement
<1>6. DOMAIN rows' = DOMAIN rows \cup {i} BY <1>1
<1>7. IsTable(rows') BY <1>1, <1>2, <1>5, <1>6 DEF IsTable
<1>8. Numbered' BY <1>1, <1>3, <1>4, <1>6 DEF Numbered
<1>9. Brings(Follow(rows, leftOut), e, Follow(rows', leftOut'))
  <2>1. DOMAIN Follow(rows, leftOut) = DOMAIN rows \ leftOut BY DEF Follow
  <2>2. DOMAIN Follow(rows', leftOut') = (DOMAIN rows \ leftOut) \cup {i} BY <1>1, <1>3, <1>6 DEF Follow
  <2>3. Follow(rows', leftOut')[i] = s BY <1>1, <1>3 DEF Follow
  <2>4. \A j \in DOMAIN rows \ leftOut : Follow(rows', leftOut')[j] = Follow(rows, leftOut)[j]
    BY <1>1, <1>3, <1>6 DEF Follow
  <2> QED BY <1>3, <2>1, <2>2, <2>3, <2>4 DEF Brings
<1> QED BY <1>1, <1>7, <1>8, <1>9, BroadcastKeeps

\* PUT of any kind.
LEMMA NewStatus ==
  ASSUME LiveInv, NEW i \in DOMAIN rows, NEW s \in Statuses, rows' = [rows EXCEPT ![i] = s],
         leftOut' = leftOut, lastRow' = lastRow
  PROVE  /\ IsTable(rows') /\ Numbered'
         /\ Brings(Follow(rows, leftOut), [type |-> "updated", id |-> i, status |-> s],
                   Follow(rows', leftOut'))
<1>1. /\ IsFiniteSet(DOMAIN rows) /\ DOMAIN rows \subseteq RowIds
      /\ \A j \in DOMAIN rows : rows[j] \in Statuses
      /\ Numbered
  BY DEF LiveInv, LiveTypeInv, IsTable
<1>2. DOMAIN rows' = DOMAIN rows /\ \A j \in DOMAIN rows : rows'[j] = IF j = i THEN s ELSE rows[j]
  OBVIOUS
<1>3. rows' = [j \in DOMAIN rows' |-> rows'[j]] OBVIOUS
<1>4. IsTable(rows') BY <1>1, <1>2, <1>3 DEF IsTable
<1>5. Brings(Follow(rows, leftOut), [type |-> "updated", id |-> i, status |-> s], Follow(rows', leftOut'))
  BY <1>2 DEF Brings, Follow
<1>6. Numbered' BY <1>1, <1>2 DEF Numbered
<1> QED BY <1>4, <1>5, <1>6

LEMMA UpdateKeeps ==
  ASSUME LiveInv, NEW i \in RowIds, NEW s \in Statuses, Update(i, s)
  PROVE  LiveInv'
<1>1. /\ i \in DOMAIN rows /\ Broadcast("updated", i, s) /\ rows' = [rows EXCEPT ![i] = s]
      /\ cards' = cards /\ fetches' = fetches /\ drags' = drags
      /\ leftOut' = leftOut /\ lastRow' = lastRow
  BY DEF Update
<1> QED BY <1>1, NewStatus, BroadcastKeeps

LEMMA DeleteKeeps ==
  ASSUME LiveInv, NEW i \in RowIds, Delete(i)
  PROVE  LiveInv'
<1> DEFINE e == [type |-> "deleted", id |-> i, status |-> rows[i]]
<1>1. /\ i \in DOMAIN rows /\ Broadcast("deleted", i, rows[i])
      /\ rows' = [j \in DOMAIN rows \ {i} |-> rows[j]]
      /\ cards' = cards /\ fetches' = fetches /\ drags' = drags
      /\ leftOut' = leftOut /\ lastRow' = lastRow
  BY DEF Delete
<1>2. /\ IsFiniteSet(DOMAIN rows) /\ DOMAIN rows \subseteq RowIds
      /\ \A j \in DOMAIN rows : rows[j] \in Statuses
      /\ Numbered
  BY DEF LiveInv, LiveTypeInv, IsTable
<1>3. IsFiniteSet(DOMAIN rows \ {i}) BY <1>2, FS_RemoveElement
<1>4. DOMAIN rows' = DOMAIN rows \ {i} BY <1>1
<1>5. IsTable(rows') BY <1>1, <1>2, <1>3, <1>4 DEF IsTable
<1>6. Numbered' BY <1>1, <1>2, <1>4 DEF Numbered
<1>7. Brings(Follow(rows, leftOut), e, Follow(rows', leftOut')) BY <1>1, <1>4 DEF Brings, Follow
<1>8. rows[i] \in Statuses BY <1>1, <1>2
<1> QED BY <1>1, <1>5, <1>6, <1>7, <1>8, BroadcastKeeps

LEMMA PutDoneKeeps ==
  ASSUME LiveInv, NEW d \in drags, PutDone(d)
  PROVE  LiveInv'
<1>1. /\ d.id \in DOMAIN rows /\ Broadcast("updated", d.id, d.to)
      /\ rows' = [rows EXCEPT ![d.id] = d.to]
      /\ cards' = cards /\ fetches' = fetches /\ drags' = drags \ {d}
      /\ leftOut' = leftOut /\ lastRow' = lastRow
  BY DEF PutDone
<1>2. d.id \in RowIds /\ d.to \in Statuses BY DEF LiveInv, LiveTypeInv, IsDrag
<1>3. drags' \subseteq drags /\ \A c \in drags : c \in drags' \/ c.id = d.id BY <1>1
<1> QED BY <1>1, <1>2, <1>3, NewStatus, BroadcastKeeps

\* Steps that leave the table, its events, the cards and the drags alone.
LEMMA RestKeeps ==
  ASSUME LiveInv, UNCHANGED <<rows, lastRow, leftOut, wire, cards, drags, apart>>, \A f \in fetches' : IsFetched(f)
  PROVE  LiveInv'
<1>1. /\ rows' = rows /\ wire' = wire /\ cards' = cards /\ drags' = drags /\ apart' = apart
      /\ lastRow' = lastRow /\ leftOut' = leftOut
  OBVIOUS
<1>2. LiveTypeInv' BY <1>1 DEF LiveInv, LiveTypeInv, Numbered
<1>3. InStepInv' BY <1>1 DEF LiveInv, InStepInv
<1> QED BY <1>2, <1>3 DEF LiveInv

LEMMA StreamKeeps ==
  ASSUME LiveInv, StreamOpens \/ Reconnect \/ ToggleVisible
  PROVE  LiveInv'
<1>1. UNCHANGED <<rows, lastRow, leftOut, wire, cards, drags, apart, fetches>>
  BY DEF StreamOpens, Reconnect, ToggleVisible
<1>2. \A f \in fetches' : IsFetched(f) BY <1>1 DEF LiveInv, LiveTypeInv
<1> QED BY <1>1, <1>2, RestKeeps

LEMMA BreakKeeps ==
  ASSUME LiveInv, StreamBreaks
  PROVE  LiveInv'
<1>1. /\ rows' = rows /\ lastRow' = lastRow /\ leftOut' = leftOut
      /\ cards' = cards /\ drags' = drags /\ fetches' = fetches
      /\ wire' = <<>> /\ apart' = (apart \/ wire # <<>>)
  BY DEF StreamBreaks
<1>2. apart \in BOOLEAN /\ wire' \in Seq(BusEvents) BY <1>1 DEF LiveInv, LiveTypeInv
<1>3. apart' \in BOOLEAN BY <1>1, <1>2
<1>4. LiveTypeInv' BY <1>1, <1>2, <1>3 DEF LiveInv, LiveTypeInv, Numbered
<1>5. ~apart' => ~apart /\ wire' = wire BY <1>1
<1>6. InStepInv' BY <1>1, <1>5 DEF LiveInv, InStepInv
<1> QED BY <1>4, <1>6 DEF LiveInv

LEMMA AskKeeps ==
  ASSUME LiveInv, Poll \/ Refresh
  PROVE  LiveInv'
<1>1. UNCHANGED <<rows, lastRow, leftOut, wire, cards, drags, apart>> /\ Request BY DEF Poll, Refresh
<1>2. PICK k : fetches' = fetches \cup {[key |-> k, got |-> NoRows, answered |-> FALSE]}
  BY <1>1 DEF Request
<1>3. IsFetched([key |-> k, got |-> NoRows, answered |-> FALSE]) BY EmptyTable DEF IsFetched
<1>4. \A f \in fetches' : IsFetched(f) BY <1>2, <1>3 DEF LiveInv, LiveTypeInv
<1> QED BY <1>1, <1>4, RestKeeps

LEMMA AnswerKeeps ==
  ASSUME LiveInv, NEW f \in fetches, Answer(f) \/ FetchFails(f)
  PROVE  LiveInv'
<1> DEFINE l == ListOf(rows)
           g == [f EXCEPT !.got = l, !.answered = TRUE]
<1>1. UNCHANGED <<rows, lastRow, leftOut, wire, cards, drags, apart>> /\ fetches' \subseteq fetches \cup {g}
  BY DEF Answer, FetchFails
<1>2. IsFetched(f) /\ IsTable(rows) BY DEF LiveInv, LiveTypeInv
<1>3. IsTable(l)
  <2>1. DOMAIN l = NewestRows(rows) /\ NewestRows(rows) \subseteq DOMAIN rows BY DEF ListOf, NewestRows
  <2>2. IsFiniteSet(DOMAIN l) BY <1>2, <2>1, FS_Subset DEF IsTable
  <2>3. l = [i \in DOMAIN l |-> l[i]] /\ \A i \in DOMAIN l : l[i] = rows[i] BY <2>1 DEF ListOf
  <2> HIDE DEF l
  <2> QED BY <1>2, <2>1, <2>2, <2>3 DEF IsTable
<1> HIDE DEF l
<1>4. DOMAIN g = DOMAIN f /\ g.got = l BY <1>2 DEF IsFetched
<1> HIDE DEF g
<1>5. IsFetched(g) BY <1>2, <1>3, <1>4 DEF IsFetched
<1>6. \A h \in fetches' : IsFetched(h) BY <1>1, <1>5 DEF LiveInv, LiveTypeInv
<1> QED BY <1>1, <1>6, RestKeeps

\* The list brings page and table together if it is the present one and no event
\* is on its way: what the page follows from then on is what the list holds.
LEMMA ApplyKeeps ==
  ASSUME LiveInv, NEW f \in fetches, Apply(f)
  PROVE  LiveInv'
<1>1. /\ rows' = rows /\ lastRow' = lastRow /\ wire' = wire /\ drags' = drags
      /\ fetches' = fetches \ {f} /\ leftOut' = DOMAIN rows \ NewestRows(rows)
      /\ cards' = CardsOf(f.got) /\ apart' = (f.got # ListOf(rows) \/ wire # <<>>)
  BY DEF Apply
<1>2. IsTable(f.got) BY DEF LiveInv, LiveTypeInv, IsFetched
<1>3. cards' \in Seq(LiveCards) BY <1>1, <1>2, CardsOfShow
<1>4. LiveTypeInv'
  <2>1. Numbered' BY <1>1 DEF LiveInv, LiveTypeInv, Numbered
  <2> QED BY <1>1, <1>3, <2>1 DEF LiveInv, LiveTypeInv
<1>5. Follow(rows', leftOut') = ListOf(rows)
  <2>1. NewestRows(rows) \subseteq DOMAIN rows BY DEF NewestRows
  <2>2. DOMAIN rows \ leftOut' = NewestRows(rows) BY <1>1, <2>1
  <2> QED BY <1>1, <2>2 DEF Follow, ListOf
<1>6. ASSUME ~apart' PROVE \E H : LeadsTo(H, wire', cards', Follow(rows', leftOut'), drags')
  <2> DEFINE t == f.got
  <2>1. t = ListOf(rows) /\ wire = <<>> BY <1>1, <1>6
  <2>2. Shows(CardsOf(t), t, wire, drags) BY <1>2, CardsOfShow
  <2> HIDE DEF t
  <2> DEFINE H == [k \in 0..0 |-> t]
  <2>3. H[0] = t /\ Len(wire) = 0 BY <2>1
  <2> HIDE DEF H
  <2>4. LeadsTo(H, wire, CardsOf(t), t, drags) BY <2>2, <2>3 DEF LeadsTo
  <2> QED BY <2>1, <2>4, <1>1, <1>5 DEF t
<1>7. InStepInv' BY <1>6 DEF InStepInv
<1> QED BY <1>4, <1>7 DEF LiveInv

\* The page handles the event that has come.
LEMMA DispatchKeeps ==
  ASSUME LiveInv, View = "tasks", Dispatch
  PROVE  LiveInv'
<1> DEFINE e == Head(wire)
<1> DEFINE t == Follow(rows, leftOut)
<1>1. /\ wire # <<>> /\ wire' = Tail(wire)
      /\ rows' = rows /\ lastRow' = lastRow /\ leftOut' = leftOut
      /\ fetches' = fetches /\ drags' = drags /\ apart' = apart
  BY DEF Dispatch
<1>2. wire \in Seq(BusEvents) /\ cards \in Seq(LiveCards) BY DEF LiveInv, LiveTypeInv
<1>3. e = wire[1] /\ e \in BusEvents /\ wire' \in Seq(BusEvents) /\ Len(wire) \in Nat /\ Len(wire) >= 1
  BY <1>1, <1>2
<1>4. e.type \in {"created", "updated", "deleted"} /\ e.id \in RowIds /\ e.status \in Statuses
  BY <1>3 DEF BusEvents
<1>5. /\ e.type = "created" => cards' = AddCard(e.id, e.status)
      /\ e.type = "updated" => cards' = SetCard(e.id, e.status)
      /\ e.type = "deleted" => cards' = DropCard(e.id)
  BY <1>4 DEF Dispatch, ReactsTo
<1> HIDE DEF e, t
<1>6. cards' \in Seq(LiveCards) BY <1>2, <1>4, <1>5, AddCardShows, SetCardShows, DropCardShows
<1>7. LiveTypeInv' BY <1>1, <1>3, <1>6 DEF LiveInv, LiveTypeInv, Numbered
<1>8. \A j : j # e.id /\ Announced(j, wire) => Announced(j, wire')
  <2> SUFFICES ASSUME NEW j, j # e.id, NEW k \in DOMAIN wire, wire[k].id = j
               PROVE  \E l \in DOMAIN wire' : wire'[l].id = j
    BY DEF Announced
  <2>1. k # 1 BY <1>3
  <2>2. k - 1 \in DOMAIN wire' /\ wire'[k - 1] = wire[k] BY <1>1, <1>2, <2>1
  <2> QED BY <2>2
<1>9. ASSUME ~apart' PROVE \E G : LeadsTo(G, wire', cards', t, drags')
  <2>1. PICK H : LeadsTo(H, wire, cards, t, drags) BY <1>1, <1>9 DEF LiveInv, InStepInv, t
  <2>2. Shows(cards, H[0], wire, drags) BY <2>1 DEF LeadsTo
  <2>3. Brings(H[0], e, H[1])
    <3>1. 1 \in 1..Len(wire) /\ 1 - 1 = 0 BY <1>3
    <3> QED BY <2>1, <3>1, <1>3 DEF LeadsTo
  <2>4. Shows(cards', H[1], wire', drags)
    <3>1. CASE e.type = "created"
      <4>1. /\ e.id \notin DOMAIN H[0] /\ DOMAIN H[1] = DOMAIN H[0] \cup {e.id} /\ H[1][e.id] = e.status
            /\ \A j \in DOMAIN H[1] : j # e.id => H[1][j] = H[0][j]
        BY <2>3, <3>1 DEF Brings
      <4>2. Shows(AddCard(e.id, e.status), H[1], wire', drags)
        BY <1>2, <1>4, <1>8, <2>2, <4>1, AddCardShows
      <4> QED BY <1>5, <3>1, <4>2
    <3>2. CASE e.type = "updated"
      <4>1. /\ DOMAIN H[1] = DOMAIN H[0] /\ (e.id \in DOMAIN H[1] => H[1][e.id] = e.status)
            /\ \A j \in DOMAIN H[1] : j # e.id => H[1][j] = H[0][j]
        BY <2>3, <3>2 DEF Brings
      <4>2. Shows(SetCard(e.id, e.status), H[1], wire', drags)
        BY <1>2, <1>4, <1>8, <2>2, <4>1, SetCardShows
      <4> QED BY <1>5, <3>2, <4>2
    <3>3. CASE e.type = "deleted"
      <4>1. /\ DOMAIN H[1] = DOMAIN H[0] \ {e.id}
            /\ \A j \in DOMAIN H[1] : j # e.id => H[1][j] = H[0][j]
        BY <2>3, <3>3 DEF Brings
      <4>2. Shows(DropCard(e.id), H[1], wire', drags)
        BY <1>2, <1>4, <1>8, <2>2, <4>1, DropCardShows
      <4> QED BY <1>5, <3>3, <4>2
    <3> QED BY <3>1, <3>2, <3>3, <1>4
  <2>5. \E G : LeadsTo(G, Tail(wire), cards', t, drags)
    BY <1>1, <1>2, <2>1, <2>4, OneEventLess
  <2> QED BY <1>1, <2>5
<1>10. Follow(rows', leftOut') = t BY <1>1 DEF t
<1>11. InStepInv' BY <1>9, <1>10 DEF InStepInv
<1> QED BY <1>7, <1>11 DEF LiveInv

LEMMA DropKeeps ==
  ASSUME LiveInv, NEW k \in DOMAIN cards, NEW s \in Statuses, Drop(k, s)
  PROVE  LiveInv'
<1> DEFINE i == cards[k].id
           d == [key |-> budget["drags"], id |-> i, prev |-> cards[k].status, to |-> s,
                 at |-> IF s = "done" THEN "review" ELSE "put"]
<1>1. /\ rows' = rows /\ wire' = wire /\ fetches' = fetches /\ apart' = apart
      /\ lastRow' = lastRow /\ leftOut' = leftOut
      /\ drags' = drags \cup {d}
      /\ cards' = cards \/ cards' = SetCard(i, s)
  BY DEF Drop
<1>2. wire \in Seq(BusEvents) /\ cards \in Seq(LiveCards) BY DEF LiveInv, LiveTypeInv
<1>3. cards[k] \in LiveCards BY <1>2
<1>4. i \in RowIds /\ cards[k].status \in Statuses BY <1>3 DEF LiveCards
<1>5. IsDrag(d) /\ d.id = i BY <1>4 DEF IsDrag
<1> HIDE DEF i, d
<1>6. cards' \in Seq(LiveCards) BY <1>1, <1>2, <1>4, SetCardShows
<1>7. IsFiniteSet(drags') BY <1>1, FS_AddElement DEF LiveInv, LiveTypeInv
<1>8. \A c \in drags' : IsDrag(c) BY <1>1, <1>5 DEF LiveInv, LiveTypeInv
<1>9. LiveTypeInv' BY <1>1, <1>6, <1>7, <1>8 DEF LiveInv, LiveTypeInv, Numbered
<1>10. Moving(i, drags') /\ \A j : Moving(j, drags) => Moving(j, drags') BY <1>1, <1>5 DEF Moving
<1>11. ASSUME NEW H, NEW t, LeadsTo(H, wire, cards, t, drags)
       PROVE  LeadsTo(H, wire', cards', t, drags')
  <2>1. Shows(cards, H[0], wire, drags) BY <1>11 DEF LeadsTo
  <2>2. Shows(cards, H[0], wire, drags') BY <2>1, <1>10 DEF Shows
  <2>3. Shows(SetCard(i, s), H[0], wire, drags') BY <1>2, <1>4, <1>10, <2>1, SetCardShows
  <2> QED BY <1>1, <1>11, <2>2, <2>3 DEF LeadsTo
<1>12. InStepInv' BY <1>1, <1>11 DEF LiveInv, InStepInv
<1> QED BY <1>9, <1>12 DEF LiveInv

\* After the review the card is set; the drag goes on.
LEMMA ApprovedKeeps ==
  ASSUME LiveInv, NEW d \in drags, Approved(d)
  PROVE  LiveInv'
<1> DEFINE e == [d EXCEPT !.at = "put"]
<1>1. /\ rows' = rows /\ wire' = wire /\ fetches' = fetches /\ apart' = apart
      /\ lastRow' = lastRow /\ leftOut' = leftOut
      /\ drags' = (drags \ {d}) \cup {e}
      /\ cards' = SetCard(d.id, d.to)
  BY DEF Approved
<1>2. wire \in Seq(BusEvents) /\ cards \in Seq(LiveCards) BY DEF LiveInv, LiveTypeInv
<1>3. IsDrag(d) BY DEF LiveInv, LiveTypeInv
<1>4. d.id \in RowIds /\ d.to \in Statuses BY <1>3 DEF IsDrag
<1>5. IsDrag(e) /\ e.id = d.id BY <1>3 DEF IsDrag
<1> HIDE DEF e
<1>6. cards' \in Seq(LiveCards) BY <1>1, <1>2, <1>4, SetCardShows
<1>7. IsFiniteSet(drags')
  <2>1. IsFiniteSet(drags) BY DEF LiveInv, LiveTypeInv
  <2>2. IsFiniteSet(drags \ {d}) BY <2>1, FS_RemoveElement
  <2> QED BY <1>1, <2>2, FS_AddElement
<1>8. \A c \in drags' : IsDrag(c) BY <1>1, <1>5 DEF LiveInv, LiveTypeInv
<1>9. LiveTypeInv' BY <1>1, <1>6, <1>7, <1>8 DEF LiveInv, LiveTypeInv, Numbered
<1>10. Moving(d.id, drags') /\ \A j : Moving(j, drags) => Moving(j, drags') BY <1>1, <1>5 DEF Moving
<1>11. ASSUME NEW H, NEW t, LeadsTo(H, wire, cards, t, drags)
       PROVE  LeadsTo(H, wire', cards', t, drags')
  <2>1. Shows(cards, H[0], wire, drags) BY <1>11 DEF LeadsTo
  <2>2. Shows(SetCard(d.id, d.to), H[0], wire, drags') BY <1>2, <1>4, <1>10, <2>1, SetCardShows
  <2> QED BY <1>1, <1>11, <2>2 DEF LeadsTo
<1>12. InStepInv' BY <1>1, <1>11 DEF LiveInv, InStepInv
<1> QED BY <1>9, <1>12 DEF LiveInv

\* A move that fails puts back what the table says, unless that has changed, an
\* event is on its way or the card was moved twice.
LEMMA DragFailsKeeps ==
  ASSUME LiveInv, NEW d \in drags, DragFails(d)
  PROVE  LiveInv'
<1> DEFINE twice == {e \in drags : e.id = d.id}
           moved == d.id \notin DOMAIN rows \/ d.prev # rows[d.id] \/ wire # <<>> \/ Cardinality(twice) > 1
<1>1. /\ rows' = rows /\ wire' = wire /\ fetches' = fetches /\ apart' = (apart \/ moved)
      /\ lastRow' = lastRow /\ leftOut' = leftOut
      /\ drags' = drags \ {d}
      /\ cards' = SetCard(d.id, d.prev)
  BY DEF DragFails, Revert
<1>2. wire \in Seq(BusEvents) /\ cards \in Seq(LiveCards) /\ IsFiniteSet(drags)
  BY DEF LiveInv, LiveTypeInv
<1>3. IsDrag(d) BY DEF LiveInv, LiveTypeInv
<1>4. d.id \in RowIds /\ d.prev \in Statuses BY <1>3 DEF IsDrag
<1>5. apart' \in BOOLEAN BY <1>1 DEF LiveInv, LiveTypeInv
<1>6. cards' \in Seq(LiveCards) BY <1>1, <1>2, <1>4, SetCardShows
<1>7. IsFiniteSet(drags') BY <1>1, <1>2, FS_RemoveElement
<1>8. LiveTypeInv' BY <1>1, <1>5, <1>6, <1>7 DEF LiveInv, LiveTypeInv, Numbered
<1> DEFINE t == Follow(rows, leftOut)
<1>9. ASSUME ~apart' PROVE \E H : LeadsTo(H, wire', cards', t, drags')
  <2>1. /\ ~apart /\ d.id \in DOMAIN rows /\ d.prev = rows[d.id] /\ wire = <<>>
        /\ ~(Cardinality(twice) > 1)
    BY <1>1, <1>9
  <2>7. d.id \in DOMAIN t => t[d.id] = d.prev BY <2>1 DEF Follow
  <2> HIDE DEF t
  <2>2. PICK H : LeadsTo(H, wire, cards, t, drags) BY <2>1 DEF LiveInv, InStepInv, t
  <2>3. H[0] = t /\ Shows(cards, H[0], wire, drags) BY <2>1, <2>2 DEF LeadsTo
  <2>4. twice = {d}
    <3>1. IsFiniteSet(twice) /\ Cardinality(twice) \in Nat
      <4>1. twice \in SUBSET drags OBVIOUS
      <4> HIDE DEF twice
      <4>2. IsFiniteSet(twice) BY <4>1, <1>2, FS_Subset
      <4> QED BY <4>2, FS_CardinalityType
    <3>2. d \in twice OBVIOUS
    <3> HIDE DEF twice
    <3>3. /\ IsFiniteSet(twice \ {d}) /\ Cardinality(twice \ {d}) = Cardinality(twice) - 1
      BY <3>1, <3>2, FS_RemoveElement
    <3>4. Cardinality(twice \ {d}) \in Nat BY <3>3, FS_CardinalityType
    <3>5. Cardinality(twice \ {d}) = 0 BY <2>1, <3>1, <3>3, <3>4
    <3>6. twice \ {d} = {} BY <3>3, <3>5, FS_EmptySet
    <3> QED BY <3>2, <3>6
  <2>5. \A j : j # d.id /\ Moving(j, drags) => Moving(j, drags') BY <1>1 DEF Moving
  <2>6. Shows(SetCard(d.id, d.prev), H[0], wire, drags')
    BY <1>2, <1>4, <2>1, <2>3, <2>5, <2>7, SetCardShows
  <2>8. LeadsTo(H, wire, SetCard(d.id, d.prev), t, drags') BY <2>2, <2>6 DEF LeadsTo
  <2> QED BY <1>1, <2>8
<1>10. InStepInv' BY <1>1, <1>9 DEF InStepInv
<1> QED BY <1>8, <1>10 DEF LiveInv

LEMMA LiveStep ==
  ASSUME View = "tasks", LiveInv, [LiveNext]_liveVars
  PROVE  LiveInv'
<1>1. CASE UNCHANGED liveVars
  <2>1. UNCHANGED <<rows, lastRow, leftOut, wire, cards, drags, apart, fetches>> BY <1>1 DEF liveVars
  <2>2. \A f \in fetches' : IsFetched(f) BY <2>1 DEF LiveInv, LiveTypeInv
  <2> QED BY <2>1, <2>2, RestKeeps
<1>2. ASSUME NEW s \in Statuses, Insert(s) \/ \E i \in RowIds : Update(i, s)
      PROVE  LiveInv'
  BY <1>2, InsertKeeps, UpdateKeeps
<1>3. ASSUME NEW i \in RowIds, Delete(i)
      PROVE  LiveInv'
  BY <1>3, DeleteKeeps
<1>4. CASE Dispatch BY <1>4, DispatchKeeps
<1>5. CASE StreamOpens \/ Reconnect \/ ToggleVisible BY <1>5, StreamKeeps
<1>6. CASE StreamBreaks BY <1>6, BreakKeeps
<1>7. CASE Poll \/ Refresh BY <1>7, AskKeeps
<1>8. ASSUME NEW f \in fetches, Answer(f) \/ Apply(f) \/ FetchFails(f)
      PROVE  LiveInv'
  BY <1>8, AnswerKeeps, ApplyKeeps
<1>9. ASSUME NEW k \in DOMAIN cards, NEW s \in Statuses, Drop(k, s)
      PROVE  LiveInv'
  BY <1>9, DropKeeps
<1>10. ASSUME NEW d \in drags, Approved(d) \/ PutDone(d) \/ DragFails(d)
       PROVE  LiveInv'
  BY <1>10, ApprovedKeeps, PutDoneKeeps, DragFailsKeeps
<1> QED BY <1>1, <1>2, <1>3, <1>4, <1>5, <1>6, <1>7, <1>8, <1>9, <1>10 DEF LiveNext

\* With nothing on its way the history is one table, the present one.
LEMMA QuietMeansInStep == LiveInv => StreamKeepsInStep
<1> DEFINE D == DOMAIN rows \ leftOut
<1> SUFFICES ASSUME LiveInv, ~apart, wire = <<>>, drags = {}
             PROVE  Range(cards) = {Card(i, rows[i]) : i \in D} /\ Len(cards) = Cardinality(D)
  BY DEF StreamKeepsInStep, ShownAre
<1> DEFINE t == Follow(rows, leftOut)
<1>0. DOMAIN t = D /\ \A i \in D : t[i] = rows[i] BY DEF Follow
<1> HIDE DEF t
<1>1. PICK H : LeadsTo(H, wire, cards, t, drags) BY DEF LiveInv, InStepInv, t
<1>2. Shows(cards, t, wire, drags) BY <1>1 DEF LeadsTo
<1>3. \A i : ~Moving(i, drags) /\ ~Announced(i, wire) BY DEF Moving, Announced
<1>4. \A k \in DOMAIN cards : cards[k].id \in D /\ cards[k].status = rows[cards[k].id]
  BY <1>0, <1>2, <1>3 DEF Shows
<1>5. cards \in Seq(LiveCards) BY DEF LiveInv, LiveTypeInv
<1>6. \A k \in DOMAIN cards : cards[k] = Card(cards[k].id, rows[cards[k].id])
  <2> SUFFICES ASSUME NEW k \in DOMAIN cards PROVE cards[k] = Card(cards[k].id, rows[cards[k].id])
    OBVIOUS
  <2>1. cards[k] \in LiveCards BY <1>5
  <2> QED BY <2>1, <1>4 DEF LiveCards, Card
<1>7. \A i \in D : \E k \in DOMAIN cards : cards[k].id = i BY <1>0, <1>2 DEF Shows
<1>8. Range(cards) = {Card(i, rows[i]) : i \in D} BY <1>4, <1>6, <1>7 DEF Range
<1>9. Len(cards) = Cardinality(D)
  <2> DEFINE n == Len(cards)
             f == [k \in 1..n |-> cards[k].id]
  <2>1. n \in Nat /\ DOMAIN cards = 1..n BY <1>5
  <2>2. f \in [1..n -> D] BY <1>4, <2>1
  <2>3. \A j, k \in 1..n : f[j] = f[k] => j = k BY <1>2, <2>1 DEF Shows
  <2>4. \A i \in D : \E k \in 1..n : f[k] = i BY <1>7, <2>1
  <2> HIDE DEF n, f, D
  <2>5. f \in Bijection(1..n, D)
    <3>1. f \in Injection(1..n, D) BY <2>2, <2>3 DEF Injection, IsInjective
    <3>2. f \in Surjection(1..n, D) BY <2>2, <2>4 DEF Surjection
    <3> QED BY <3>1, <3>2 DEF Bijection
  <2>6. IsFiniteSet(1..n) /\ Cardinality(1..n) = n BY <2>1, FS_Interval
  <2>7. Cardinality(D) = n BY <2>5, <2>6, FS_Bijection DEF ExistsBijection
  <2> QED BY <2>7 DEF n
<1> QED BY <1>8, <1>9

\* lib/use-server-events.ts: with no event and no move under way the task board
\* shows the rows of its list and all that came after, in any interleaving of broadcasts, breaks of the stream,
\* fetches and drags that lost no event.
THEOREM StreamCorrect == View = "tasks" /\ LiveSpec => []StreamKeepsInStep
<1> SUFFICES ASSUME View = "tasks" PROVE LiveSpec => []StreamKeepsInStep
  OBVIOUS
<1>1. LiveInit => LiveInv BY LiveInitInv
<1>2. LiveInv /\ [LiveNext]_liveVars => LiveInv' BY LiveStep
<1>3. LiveInv => StreamKeepsInStep BY QuietMeansInStep
<1> QED BY <1>1, <1>2, <1>3, PTL DEF LiveSpec

---------------------------------------------------------------------------
(***************************************************************************)
(* The chat: the inductive invariant.                                      *)
(*                                                                         *)
(* A request has its row from the moment it is stored, no two have the     *)
(* same, and nothing of a row is in the browser before it is stored.       *)
(***************************************************************************)
Convs == Threads \cup {Coord, Nowhere}
ChatTable == [in : Convs, answers : Nat]
ChatCalls == [temp : Int, in : Convs, way : {"send", "retry", "compose"},
              at : {"posted", "refused", "invoking", "waiting", "answered"},
              row : Nat, heard : BOOLEAN]
ChatCardSet == [id : Int, in : Convs, state : {"sending", "failed", "stored"}]
ThreadLoads == [of : Convs, list : Seq(Nat), at : {"asked", "answered", "over"}]

ChatTypeInv ==
  /\ chatRows \in Seq(ChatTable) /\ calls \in Seq(ChatCalls)
  /\ chatCards \in Seq(ChatCardSet) /\ thread \in Convs
  /\ chatLoads \in Seq(ThreadLoads) /\ chatFeed \in Seq(Nat)
  /\ composing \in BOOLEAN

\* The composer has no card; a request has a row once it is stored.
CallOK(call, n) ==
  /\ IF call.way = "compose" THEN call.temp = 0 ELSE call.temp < 0
  /\ IF call.at \in {"posted", "refused"} THEN call.row = 0 ELSE call.row \in 1..n
CallsInv ==
  /\ \A c \in DOMAIN calls : CallOK(calls[c], Len(chatRows))
  /\ \A b, c \in DOMAIN calls : calls[b].row # 0 /\ calls[b].row = calls[c].row => b = c

\* The lists the browser has or waits for.
CardOK(card, n) == card.id < 0 \/ (card.id \in 1..n /\ card.state = "stored")
ListOK(list, n) ==
  /\ \A k \in DOMAIN list : list[k] \in 1..n
  /\ \A j, k \in DOMAIN list : list[j] = list[k] => j = k
ListsInv ==
  /\ \A k \in DOMAIN chatCards : CardOK(chatCards[k], Len(chatRows))
  /\ \A k \in DOMAIN chatFeed : chatFeed[k] \in 1..Len(chatRows)
  /\ \A l \in DOMAIN chatLoads : ListOK(chatLoads[l].list, Len(chatRows))

OnceIn(cs, id) == \A j, k \in DOMAIN cs : cs[j].id = id /\ cs[k].id = id => j = k
RetriedInv ==
  \A c \in DOMAIN calls : calls[c].way = "retry" /\ calls[c].row # 0 => OnceIn(chatCards, calls[c].row)

ChatInv ==
  /\ ChatTypeInv /\ CallsInv /\ ListsInv /\ RetriedInv
  /\ SendingIsUnderWay /\ CoordinatorAnswers

LEMMA ChatInitInv == ChatInit => ChatInv
<1> SUFFICES ASSUME ChatInit PROVE ChatInv
  OBVIOUS
<1>1. /\ chatRows = <<>> /\ calls = <<>> /\ chatCards = <<>> /\ thread = Nowhere
      /\ chatLoads = <<>> /\ chatFeed = <<>> /\ composing = FALSE
  BY DEF ChatInit
<1>2. thread \in Convs /\ composing \in BOOLEAN BY <1>1 DEF Convs
<1>3. ChatTypeInv BY <1>1, <1>2 DEF ChatTypeInv
<1>4. CallsInv /\ ListsInv /\ RetriedInv BY <1>1 DEF CallsInv, ListsInv, RetriedInv
<1>5. SendingIsUnderWay /\ CoordinatorAnswers BY <1>1 DEF SendingIsUnderWay, CoordinatorAnswers
<1> QED BY <1>3, <1>4, <1>5 DEF ChatInv

---------------------------------------------------------------------------
(* Steps of the server: the cards stay, a request goes on.                 *)

\* calls[c] becomes call, rows are added and announced.
LEMMA ServerKeeps ==
  ASSUME ChatInv, NEW c \in DOMAIN calls, NEW call \in ChatCalls, calls' = [calls EXCEPT ![c] = call],
         call.temp = calls[c].temp, call.in = calls[c].in, call.way = calls[c].way,
         call.heard = calls[c].heard,
         chatRows' \in Seq(ChatTable), Len(chatRows') >= Len(chatRows),
         \A r \in DOMAIN chatRows : chatRows'[r] = chatRows[r],
         chatFeed' \in Seq(Nat), \A k \in DOMAIN chatFeed' : chatFeed'[k] \in 1..Len(chatRows'),
         CallOK(call, Len(chatRows')),
         call.row = calls[c].row \/ call.row = Len(chatRows) + 1,
         Coordinated(call) /\ call.at = "answered" =>
           \/ calls[c].at = "answered" /\ call.row = calls[c].row
           \/ \E r \in DOMAIN chatRows' : r > call.row /\ chatRows'[r].answers = call.row,
         UNCHANGED <<chatCards, thread, chatLoads, composing>>
  PROVE  ChatInv'
<1> DEFINE n == Len(chatRows)
           m == Len(chatRows')
<1>1. /\ calls \in Seq(ChatCalls) /\ chatRows \in Seq(ChatTable) /\ chatCards \in Seq(ChatCardSet)
      /\ chatLoads \in Seq(ThreadLoads)
  BY DEF ChatInv, ChatTypeInv
<1>2. n \in Nat /\ m \in Nat /\ n <= m /\ DOMAIN chatRows = 1..n /\ DOMAIN chatRows' = 1..m
  BY <1>1
<1>3. calls' \in Seq(ChatCalls) /\ DOMAIN calls' = DOMAIN calls
      /\ calls'[c] = call /\ \A b \in DOMAIN calls : b # c => calls'[b] = calls[b]
  BY <1>1
<1>4. ChatTypeInv' BY <1>3 DEF ChatInv, ChatTypeInv
<1>5. \A i \in Int : i \in 1..n => i \in 1..m BY <1>2
<1>6. ASSUME NEW b \in DOMAIN calls
      PROVE  CallOK(calls'[b], m)
  <2>1. CASE b = c BY <2>1, <1>3
  <2>2. CASE b # c
    <3>1. CallOK(calls[b], n) /\ calls[b] \in ChatCalls BY <1>1 DEF ChatInv, CallsInv
    <3>2. calls[b].row \in Int BY <3>1 DEF ChatCalls
    <3>3. CallOK(calls[b], m) BY <3>1, <3>2, <1>5 DEF CallOK
    <3> QED BY <3>3, <2>2, <1>3
  <2> QED BY <2>1, <2>2
<1>7. \A b \in DOMAIN calls : calls[b].row \in Nat /\ calls[b].row <= n
  <2> SUFFICES ASSUME NEW b \in DOMAIN calls PROVE calls[b].row \in Nat /\ calls[b].row <= n
    OBVIOUS
  <2>1. CallOK(calls[b], n) BY DEF ChatInv, CallsInv
  <2> QED BY <2>1, <1>2 DEF CallOK
<1>8. ASSUME NEW a \in DOMAIN calls, NEW b \in DOMAIN calls,
             calls'[a].row # 0, calls'[a].row = calls'[b].row
      PROVE  a = b
  <2>1. \A x, y \in DOMAIN calls : calls[x].row # 0 /\ calls[x].row = calls[y].row => x = y
    BY DEF ChatInv, CallsInv
  <2>2. CASE a # c /\ b # c BY <2>1, <2>2, <1>3, <1>8
  <2>3. CASE a = c /\ b # c
    <3>1. call.row = calls[b].row /\ call.row # 0 BY <2>3, <1>3, <1>8
    <3>2. call.row # n + 1 BY <3>1, <1>2, <1>7
    <3>3. calls[c].row = calls[b].row /\ calls[c].row # 0 BY <3>1, <3>2
    <3> QED BY <3>3, <2>1, <2>3
  <2>4. CASE a # c /\ b = c
    <3>1. call.row = calls[a].row /\ call.row # 0 BY <2>4, <1>3, <1>8
    <3>2. call.row # n + 1 BY <3>1, <1>2, <1>7
    <3>3. calls[c].row = calls[a].row /\ calls[c].row # 0 BY <3>1, <3>2
    <3> QED BY <3>3, <2>1, <2>4
  <2> QED BY <2>2, <2>3, <2>4
<1>9. CallsInv' BY <1>3, <1>6, <1>8 DEF CallsInv
<1>10. \A k \in DOMAIN chatCards : CardOK(chatCards[k], n) BY DEF ChatInv, ListsInv
<1>11. ListsInv'
  <2>1. \A k \in DOMAIN chatCards : CardOK(chatCards[k], m)
    <3> SUFFICES ASSUME NEW k \in DOMAIN chatCards PROVE CardOK(chatCards[k], m)
      OBVIOUS
    <3>1. chatCards[k].id \in Int
      <4>1. chatCards[k] \in ChatCardSet BY <1>1
      <4> QED BY <4>1 DEF ChatCardSet
    <3> QED BY <3>1, <1>5, <1>10 DEF CardOK
  <2>2. \A l \in DOMAIN chatLoads : ListOK(chatLoads[l].list, m)
    <3> SUFFICES ASSUME NEW l \in DOMAIN chatLoads PROVE ListOK(chatLoads[l].list, m)
      OBVIOUS
    <3>1. ListOK(chatLoads[l].list, n) BY DEF ChatInv, ListsInv
    <3> QED BY <3>1, <1>5 DEF ListOK
  <2> QED BY <2>1, <2>2 DEF ListsInv
<1>12. RetriedInv'
  <2> SUFFICES ASSUME NEW b \in DOMAIN calls, calls'[b].way = "retry", calls'[b].row # 0
               PROVE  OnceIn(chatCards, calls'[b].row)
    BY <1>3 DEF RetriedInv
  <2>1. CASE calls'[b].row = calls[b].row /\ calls'[b].way = calls[b].way
    BY <2>1 DEF ChatInv, RetriedInv
  <2>2. CASE b = c /\ calls'[b].row = n + 1
    <3>1. ASSUME NEW k \in DOMAIN chatCards
          PROVE  chatCards[k].id # n + 1
      <4>1. chatCards[k].id < 0 \/ chatCards[k].id \in 1..n BY <1>10 DEF CardOK
      <4> QED BY <4>1, <1>2
    <3> QED BY <3>1, <2>2 DEF OnceIn
  <2> QED BY <2>1, <2>2, <1>3
<1>13. \A b \in DOMAIN calls : /\ calls'[b].temp = calls[b].temp /\ calls'[b].way = calls[b].way
                               /\ calls'[b].heard = calls[b].heard
  BY <1>3
<1>14. SendingIsUnderWay' BY <1>3, <1>13 DEF ChatInv, SendingIsUnderWay
<1>15. CoordinatorAnswers'
  <2> SUFFICES ASSUME NEW b \in DOMAIN calls, Coordinated(calls'[b]), calls'[b].at = "answered"
               PROVE  \E r \in DOMAIN chatRows' : r > calls'[b].row /\ chatRows'[r].answers = calls'[b].row
    BY <1>3 DEF CoordinatorAnswers, ChatIds
  <2>1. ASSUME Coordinated(calls[b]), calls[b].at = "answered", calls'[b].row = calls[b].row
        PROVE  \E r \in DOMAIN chatRows' : r > calls'[b].row /\ chatRows'[r].answers = calls'[b].row
    <3>1. PICK r \in DOMAIN chatRows : r > calls[b].row /\ chatRows[r].answers = calls[b].row
      BY <2>1 DEF ChatInv, CoordinatorAnswers, ChatIds
    <3>2. r \in DOMAIN chatRows' BY <1>2
    <3> QED BY <3>1, <3>2, <2>1
  <2>2. CASE b = c
    <3>1. Coordinated(call) /\ call.at = "answered" BY <2>2, <1>3
    <3>2. Coordinated(calls[c]) BY <3>1 DEF Coordinated, HasRecipient
    <3> QED BY <3>1, <3>2, <2>1, <2>2, <1>3
  <2>3. CASE b # c BY <2>1, <2>3, <1>3
  <2> QED BY <2>2, <2>3
<1> QED BY <1>4, <1>9, <1>11, <1>12, <1>14, <1>15 DEF ChatInv

LEMMA RefuseKeeps ==
  ASSUME ChatInv, NEW c \in DOMAIN calls, ChatRefuse(c)
  PROVE  ChatInv'
<1> DEFINE call == [calls[c] EXCEPT !.at = "refused"]
<1>1. /\ calls[c].at = "posted" /\ calls' = [calls EXCEPT ![c] = call]
      /\ UNCHANGED <<chatRows, chatFeed, chatCards, thread, chatLoads, composing>>
  BY DEF ChatRefuse, ChatAt
<1>2. calls[c] \in ChatCalls /\ chatRows \in Seq(ChatTable) /\ chatFeed \in Seq(Nat)
  BY DEF ChatInv, ChatTypeInv
<1>3. /\ call \in ChatCalls /\ call.temp = calls[c].temp /\ call.in = calls[c].in
      /\ call.way = calls[c].way /\ call.heard = calls[c].heard /\ call.row = calls[c].row
      /\ call.at = "refused"
  BY <1>2 DEF ChatCalls
<1> HIDE DEF call
<1>4. CallOK(calls[c], Len(chatRows)) BY DEF ChatInv, CallsInv
<1>5. CallOK(call, Len(chatRows)) BY <1>1, <1>3, <1>4 DEF CallOK
<1>6. \A k \in DOMAIN chatFeed : chatFeed[k] \in 1..Len(chatRows) BY DEF ChatInv, ListsInv
<1>7. chatRows' = chatRows /\ chatFeed' = chatFeed /\ Len(chatRows) \in Nat BY <1>1, <1>2
<1>8. /\ Len(chatRows') >= Len(chatRows) /\ CallOK(call, Len(chatRows'))
      /\ \A k \in DOMAIN chatFeed' : chatFeed'[k] \in 1..Len(chatRows')
      /\ \A r \in DOMAIN chatRows : chatRows'[r] = chatRows[r]
      /\ chatRows' \in Seq(ChatTable) /\ chatFeed' \in Seq(Nat)
  BY <1>2, <1>5, <1>6, <1>7
<1>9. Coordinated(call) /\ call.at = "answered" =>
           \/ calls[c].at = "answered" /\ call.row = calls[c].row
           \/ \E r \in DOMAIN chatRows' : r > call.row /\ chatRows'[r].answers = call.row
  BY <1>3
<1> QED BY <1>1, <1>3, <1>8, <1>9, ServerKeeps

\* A row is appended; whatever the feed announces is stored by then.
LEMMA RowStored ==
  ASSUME ChatInv, NEW row \in ChatTable
  PROVE  /\ Append(chatRows, row) \in Seq(ChatTable)
         /\ Len(Append(chatRows, row)) = Len(chatRows) + 1 /\ Len(chatRows) \in Nat
         /\ \A r \in DOMAIN chatRows : Append(chatRows, row)[r] = chatRows[r]
         /\ Append(chatRows, row)[Len(chatRows) + 1] = row
         /\ Len(chatRows) + 1 \in DOMAIN Append(chatRows, row)
<1>1. chatRows \in Seq(ChatTable) BY DEF ChatInv, ChatTypeInv
<1> QED BY <1>1

LEMMA FeedGrows ==
  ASSUME ChatInv, NEW n \in Nat, Len(chatRows) <= n, NEW s \in Seq(1..n)
  PROVE  /\ chatFeed \o s \in Seq(Nat)
         /\ \A k \in DOMAIN (chatFeed \o s) : (chatFeed \o s)[k] \in 1..n
<1>1. chatFeed \in Seq(Nat) /\ Len(chatRows) \in Nat BY DEF ChatInv, ChatTypeInv
<1>2. \A k \in DOMAIN chatFeed : chatFeed[k] \in 1..Len(chatRows) BY DEF ChatInv, ListsInv
<1>3. chatFeed \in Seq(1..n)
  <2>1. \A k \in 1..Len(chatFeed) : chatFeed[k] \in 1..n BY <1>1, <1>2
  <2> QED BY <1>1, <2>1
<1>4. chatFeed \o s \in Seq(1..n) BY <1>3
<1> DEFINE t == chatFeed \o s
<1>5. t \in Seq(1..n) BY <1>4
<1> HIDE DEF t
<1>6. t \in Seq(Nat) /\ \A k \in DOMAIN t : t[k] \in 1..n BY <1>5
<1> QED BY <1>6 DEF t

LEMMA StoreKeeps ==
  ASSUME ChatInv, NEW c \in DOMAIN calls, Store(c)
  PROVE  ChatInv'
<1> DEFINE id == Len(chatRows) + 1
           addressed == HasRecipient(calls[c])
           stage == IF addressed THEN "invoking" ELSE "answered"
           call == [calls[c] EXCEPT !.row = id, !.at = stage]
           row == [in |-> calls[c].in, answers |-> 0]
           new == IF addressed THEN <<>> ELSE <<id>>
<1>1. /\ calls[c].at = "posted" /\ calls' = [calls EXCEPT ![c] = call]
      /\ chatRows' = Append(chatRows, row)
      /\ chatFeed' = IF addressed THEN chatFeed ELSE Append(chatFeed, id)
      /\ UNCHANGED <<chatCards, thread, chatLoads, composing>>
  BY DEF Store
<1>2. calls[c] \in ChatCalls /\ chatFeed \in Seq(Nat) /\ chatRows \in Seq(ChatTable)
  BY DEF ChatInv, ChatTypeInv
<1>3. id \in Nat /\ id \in 1..id /\ Len(chatRows) \in Nat BY <1>2
<1>4. /\ call \in ChatCalls /\ call.temp = calls[c].temp /\ call.in = calls[c].in
      /\ call.way = calls[c].way /\ call.heard = calls[c].heard /\ call.row = id
      /\ call.at = stage
  BY <1>2, <1>3 DEF ChatCalls
<1>5. row \in ChatTable BY <1>2 DEF ChatTable, ChatCalls
<1>6. chatFeed' = chatFeed \o new /\ new \in Seq(1..id)
  <2>1. CASE addressed
    <3>1. new = <<>> /\ chatFeed' = chatFeed BY <2>1, <1>1
    <3> HIDE DEF new, id, addressed
    <3>2. chatFeed' = chatFeed \o new BY <3>1, <1>2
    <3> QED BY <3>1, <3>2
  <2>2. CASE ~addressed
    <3>1. new = <<id>> /\ chatFeed' = Append(chatFeed, id) BY <2>2, <1>1
    <3> HIDE DEF new, id, addressed
    <3>2. chatFeed' = chatFeed \o new BY <3>1, <1>2, <1>3
    <3> QED BY <3>1, <3>2, <1>3
  <2> QED BY <2>1, <2>2
<1>7. Coordinated(call) => call.at # "answered" BY <1>4 DEF Coordinated, HasRecipient
<1>8. stage \in {"invoking", "answered"} OBVIOUS
<1> HIDE DEF call, row, id, new, stage
<1>9. /\ chatRows' \in Seq(ChatTable) /\ Len(chatRows') = id /\ id = Len(chatRows) + 1
      /\ \A r \in DOMAIN chatRows : chatRows'[r] = chatRows[r]
  BY <1>1, <1>5, RowStored DEF id
<1>10. chatFeed' \in Seq(Nat) /\ \A k \in DOMAIN chatFeed' : chatFeed'[k] \in 1..id
  <2>1. id \in Nat /\ Len(chatRows) <= id BY <1>3, <1>9
  <2> HIDE DEF id
  <2>2. /\ chatFeed \o new \in Seq(Nat)
        /\ \A k \in DOMAIN (chatFeed \o new) : (chatFeed \o new)[k] \in 1..id
    BY <2>1, <1>6, FeedGrows, Zenon
  <2>3. chatFeed' = chatFeed \o new BY <1>6
  <2> QED BY <2>2, <2>3, Zenon
<1>11. CallOK(calls[c], Len(chatRows)) BY DEF ChatInv, CallsInv
<1>12. CallOK(call, id) BY <1>3, <1>4, <1>8, <1>11 DEF CallOK
<1>13. /\ Len(chatRows') >= Len(chatRows) /\ CallOK(call, Len(chatRows'))
       /\ \A k \in DOMAIN chatFeed' : chatFeed'[k] \in 1..Len(chatRows')
       /\ call.row = Len(chatRows) + 1
  BY <1>3, <1>4, <1>9, <1>10, <1>12
<1>14. Coordinated(call) /\ call.at = "answered" =>
           \/ calls[c].at = "answered" /\ call.row = calls[c].row
           \/ \E r \in DOMAIN chatRows' : r > call.row /\ chatRows'[r].answers = call.row
  BY <1>7
<1> QED BY <1>1, <1>4, <1>9, <1>10, <1>13, <1>14, ServerKeeps

LEMMA WaitEndsKeeps ==
  ASSUME ChatInv, NEW c \in DOMAIN calls, WaitEnds(c)
  PROVE  ChatInv'
<1> DEFINE id == Len(chatRows) + 1
           call == [calls[c] EXCEPT !.at = "answered"]
           row == ReplyTo(calls[c].row)
           new == <<id, calls[c].row>>
<1>1. /\ calls[c].at = "waiting" /\ calls' = [calls EXCEPT ![c] = call]
      /\ chatRows' = Append(chatRows, row)
      /\ chatFeed' = chatFeed \o new
      /\ UNCHANGED <<chatCards, thread, chatLoads, composing>>
  BY DEF WaitEnds, ChatAt
<1>2. calls[c] \in ChatCalls /\ chatFeed \in Seq(Nat) /\ chatRows \in Seq(ChatTable)
  BY DEF ChatInv, ChatTypeInv
<1>3. id \in Nat /\ id \in 1..id /\ Len(chatRows) \in Nat BY <1>2
<1>4. /\ call \in ChatCalls /\ call.temp = calls[c].temp /\ call.in = calls[c].in
      /\ call.way = calls[c].way /\ call.heard = calls[c].heard /\ call.row = calls[c].row
      /\ call.at = "answered"
  BY <1>2, <1>3 DEF ChatCalls
<1>5. CallOK(calls[c], Len(chatRows)) BY DEF ChatInv, CallsInv
<1>6. calls[c].row \in 1..Len(chatRows) BY <1>1, <1>5 DEF CallOK
<1>7. chatRows[calls[c].row] \in ChatTable BY <1>2, <1>6
<1>8. row \in ChatTable /\ row.answers = calls[c].row BY <1>6, <1>7 DEF ChatTable, ReplyTo
<1>9. new \in Seq(1..id) BY <1>3, <1>6
<1> HIDE DEF call, row, id, new
<1>10. /\ chatRows' \in Seq(ChatTable) /\ Len(chatRows') = id /\ id = Len(chatRows) + 1
       /\ \A r \in DOMAIN chatRows : chatRows'[r] = chatRows[r]
       /\ id \in DOMAIN chatRows' /\ chatRows'[id] = row
  BY <1>1, <1>8, RowStored DEF id
<1>11. chatFeed' \in Seq(Nat) /\ \A k \in DOMAIN chatFeed' : chatFeed'[k] \in 1..id
  <2>1. Len(chatRows) <= id BY <1>3, <1>10
  <2>2. /\ chatFeed \o new \in Seq(Nat)
        /\ \A k \in DOMAIN (chatFeed \o new) : (chatFeed \o new)[k] \in 1..id
    BY <1>3, <1>9, <2>1, FeedGrows
  <2> QED BY <1>1, <2>2
<1>12. CallOK(call, id) BY <1>1, <1>3, <1>4, <1>5, <1>10 DEF CallOK
<1>13. \E r \in DOMAIN chatRows' : r > call.row /\ chatRows'[r].answers = call.row
  BY <1>3, <1>4, <1>6, <1>8, <1>10
<1>14. /\ Len(chatRows') >= Len(chatRows) /\ CallOK(call, Len(chatRows'))
       /\ \A k \in DOMAIN chatFeed' : chatFeed'[k] \in 1..Len(chatRows')
  BY <1>3, <1>10, <1>11, <1>12
<1> QED BY <1>1, <1>4, <1>10, <1>11, <1>13, <1>14, ServerKeeps

\* The coordinator's thread hears of each end of the gateway call.
LEMMA InvokeEndsKeeps ==
  ASSUME ChatInv, NEW c \in DOMAIN calls, NEW outcome \in {"delivered", "failed"},
         NEW run \in BOOLEAN, InvokeEnds(c, outcome, run)
  PROVE  ChatInv'
<1> DEFINE id == Len(chatRows) + 1
           coordinated == calls[c].in = Coord
           waits == coordinated /\ outcome = "delivered" /\ run
           stage == IF waits THEN "waiting" ELSE "answered"
           call == [calls[c] EXCEPT !.at = stage]
           row == ReplyTo(calls[c].row)
           reply == IF coordinated THEN <<id>> ELSE <<>>
           last == IF waits THEN <<>> ELSE <<calls[c].row>>
           new == reply \o last
<1>1. /\ calls[c].at = "invoking" /\ calls' = [calls EXCEPT ![c] = call]
      /\ chatRows' = chatRows \o [i \in DOMAIN reply |-> row]
      /\ chatFeed' = chatFeed \o reply \o last
      /\ UNCHANGED <<chatCards, thread, chatLoads, composing>>
  BY DEF InvokeEnds, ChatAt, ChatAnswered
<1>2. calls[c] \in ChatCalls /\ chatFeed \in Seq(Nat) /\ chatRows \in Seq(ChatTable)
  BY DEF ChatInv, ChatTypeInv
<1>3. id \in Nat /\ id \in 1..id /\ Len(chatRows) \in Nat BY <1>2
<1>4. /\ call \in ChatCalls /\ call.temp = calls[c].temp /\ call.in = calls[c].in
      /\ call.way = calls[c].way /\ call.heard = calls[c].heard /\ call.row = calls[c].row
      /\ call.at = stage
  BY <1>2, <1>3 DEF ChatCalls
<1>5. CallOK(calls[c], Len(chatRows)) BY DEF ChatInv, CallsInv
<1>6. calls[c].row \in 1..Len(chatRows) BY <1>1, <1>5 DEF CallOK
<1>7. chatRows[calls[c].row] \in ChatTable BY <1>2, <1>6
<1>8. row \in ChatTable /\ row.answers = calls[c].row BY <1>6, <1>7 DEF ChatTable, ReplyTo
<1>9. stage \in {"waiting", "answered"} OBVIOUS
<1>10. /\ coordinated => reply = <<id>>
       /\ ~coordinated => reply = <<>>
       /\ last = <<>> \/ last = <<calls[c].row>>
  OBVIOUS
<1>11. Coordinated(call) => coordinated BY <1>4 DEF Coordinated
<1> HIDE DEF call, row, id, stage, reply, last, coordinated, waits
<1>12. ASSUME coordinated
       PROVE  /\ chatRows' \in Seq(ChatTable) /\ Len(chatRows') = id
              /\ \A r \in DOMAIN chatRows : chatRows'[r] = chatRows[r]
              /\ id \in DOMAIN chatRows' /\ chatRows'[id] = row
  <2>1. [i \in DOMAIN reply |-> row] = <<row>> BY <1>10, <1>12
  <2>2. chatRows' = Append(chatRows, row) BY <1>1, <1>2, <2>1
  <2> QED BY <1>8, <2>2, RowStored DEF id
<1>13. ASSUME ~coordinated PROVE chatRows' = chatRows
  <2>1. [i \in DOMAIN reply |-> row] = <<>> BY <1>10, <1>13
  <2> QED BY <1>1, <1>2, <2>1
<1>14. Len(chatRows) <= Len(chatRows') /\ Len(chatRows') \in Nat /\ (coordinated => id \in 1..Len(chatRows'))
  <2>1. id = Len(chatRows) + 1 BY DEF id
  <2> QED BY <2>1, <1>3, <1>12, <1>13
<1>15. chatFeed' = chatFeed \o new /\ new \in Seq(1..Len(chatRows'))
  <2> DEFINE W == 1..Len(chatRows')
  <2>1. calls[c].row \in W BY <1>3, <1>6, <1>14
  <2>2. \A x \in W : <<x>> \in Seq(W) OBVIOUS
  <2>3. <<>> \in Seq(W) BY EmptySeq
  <2>4. coordinated => id \in W BY <1>14
  <2>5. W \subseteq Nat OBVIOUS
  <2> HIDE DEF W
  <2>6. last \in Seq(W) BY <1>10, <2>1, <2>2, <2>3
  <2>7. reply \in Seq(W) BY <1>10, <2>2, <2>3, <2>4
  <2>8. new \in Seq(W) BY <2>6, <2>7
  <2>9. reply \in Seq(Nat) /\ last \in Seq(Nat) BY <2>5, <2>6, <2>7, SeqMonotonic
  <2>10. chatFeed' = chatFeed \o new
    <3> HIDE DEF new
    <3>1. chatFeed' = (chatFeed \o reply) \o last BY <1>1
    <3>2. (chatFeed \o reply) \o last = chatFeed \o (reply \o last) BY <1>2, <2>9, ConcatAssociative
    <3> QED BY <3>1, <3>2 DEF new
  <2> QED BY <2>8, <2>10 DEF W
<1> HIDE DEF new
<1>16. chatFeed' \in Seq(Nat) /\ \A k \in DOMAIN chatFeed' : chatFeed'[k] \in 1..Len(chatRows')
  <2> DEFINE m == Len(chatRows')
  <2>1. m \in Nat /\ Len(chatRows) <= m /\ new \in Seq(1..m) BY <1>14, <1>15
  <2> HIDE DEF m
  <2>2. /\ chatFeed \o new \in Seq(Nat)
        /\ \A k \in DOMAIN (chatFeed \o new) : (chatFeed \o new)[k] \in 1..m
    BY <2>1, FeedGrows
  <2> QED BY <1>15, <2>2 DEF m
<1>17. CallOK(call, Len(chatRows')) BY <1>1, <1>3, <1>4, <1>5, <1>6, <1>9, <1>14 DEF CallOK
<1>18. /\ chatRows' \in Seq(ChatTable) /\ Len(chatRows') >= Len(chatRows)
       /\ \A r \in DOMAIN chatRows : chatRows'[r] = chatRows[r]
  BY <1>2, <1>3, <1>12, <1>13, <1>14
<1>19. Coordinated(call) /\ call.at = "answered" =>
           \/ calls[c].at = "answered" /\ call.row = calls[c].row
           \/ \E r \in DOMAIN chatRows' : r > call.row /\ chatRows'[r].answers = call.row
  <2> SUFFICES ASSUME coordinated
               PROVE  \E r \in DOMAIN chatRows' : r > call.row /\ chatRows'[r].answers = call.row
    BY <1>11
  <2>1. id \in DOMAIN chatRows' /\ chatRows'[id].answers = call.row BY <1>4, <1>8, <1>12
  <2>2. id > call.row BY <1>3, <1>4, <1>6 DEF id
  <2> QED BY <2>1, <2>2
<1> QED BY <1>1, <1>4, <1>16, <1>17, <1>18, <1>19, ServerKeeps

---------------------------------------------------------------------------
(* Fetches of a thread.                                                    *)

\* Loads are asked for and answered.
LEMMA SelectKeeps ==
  ASSUME ChatInv, NEW conv \in Threads, SelectThread(conv)
  PROVE  ChatInv'
<1> DEFINE load == [of |-> conv, list |-> <<>>, at |-> "asked"]
<1>1. /\ thread' = conv /\ chatLoads' = Append(chatLoads, load)
      /\ UNCHANGED <<chatRows, calls, chatCards, chatFeed, composing>>
  BY DEF SelectThread, LoadThread
<1>2. chatLoads \in Seq(ThreadLoads) BY DEF ChatInv, ChatTypeInv
<1>3. load \in ThreadLoads /\ ListOK(load.list, Len(chatRows))
  <2>1. <<>> \in Seq(Nat) /\ DOMAIN <<>> = {} BY EmptySeq
  <2>2. conv \in Convs BY DEF Convs
  <2> QED BY <2>1, <2>2 DEF ThreadLoads, ListOK
<1> HIDE DEF load
<1>4. chatLoads' \in Seq(ThreadLoads)
      /\ \A l \in DOMAIN chatLoads' :
           chatLoads'[l] = load \/ (l \in DOMAIN chatLoads /\ chatLoads'[l] = chatLoads[l])
  BY <1>1, <1>2, <1>3
<1>5. \A l \in DOMAIN chatLoads' : ListOK(chatLoads'[l].list, Len(chatRows))
  BY <1>3, <1>4 DEF ChatInv, ListsInv
<1>6. conv \in Convs BY DEF Convs
<1>7. ChatTypeInv' BY <1>1, <1>4, <1>6 DEF ChatInv, ChatTypeInv
<1>8. ListsInv' BY <1>1, <1>5 DEF ChatInv, ListsInv
<1>9. CallsInv' /\ RetriedInv' BY <1>1 DEF ChatInv, CallsInv, RetriedInv
<1>10. SendingIsUnderWay' /\ CoordinatorAnswers'
  BY <1>1 DEF ChatInv, SendingIsUnderWay, CoordinatorAnswers, ChatIds
<1> QED BY <1>7, <1>8, <1>9, <1>10 DEF ChatInv

\* The oldest rows of a thread: each once.
LEMMA LoadAnsweredKeeps ==
  ASSUME ChatInv, NEW l \in DOMAIN chatLoads, LoadAnswered(l)
  PROVE  ChatInv'
<1> DEFINE n == Len(chatRows)
           ids == [i \in ChatIds |-> i]
           T == {i \in ChatIds : chatRows[i].in = chatLoads[l].of}
           all == Filtered(ids, T)
           m == IF Len(all) < ThreadLimit THEN Len(all) ELSE ThreadLimit
           list == SubSeq(all, 1, m)
           load == [chatLoads[l] EXCEPT !.at = "answered", !.list = list]
<1>1. /\ chatLoads' = [chatLoads EXCEPT ![l] = load]
      /\ UNCHANGED <<chatRows, calls, chatCards, thread, chatFeed, composing>>
  BY DEF LoadAnswered
<1>2. chatLoads \in Seq(ThreadLoads) /\ chatRows \in Seq(ChatTable) BY DEF ChatInv, ChatTypeInv
<1>3. n \in Nat /\ ChatIds = 1..n BY <1>2 DEF ChatIds
<1> DEFINE W == 1..n
<1>4. ids \in Seq(W) /\ DOMAIN ids = W /\ \A i \in W : ids[i] = i BY <1>3
<1>5. W \subseteq Nat BY <1>3
<1> HIDE DEF ids, T, n, W
<1>6. all \in Seq(W) /\ \A j, k \in DOMAIN all : all[j] = all[k] => j = k
  <2>1. ids \in Seq(W) BY <1>4
  <2>2. all \in Seq(W) BY <2>1, FilteredList
  <2>3. \A j, k \in DOMAIN all : j < k => \E a, b \in DOMAIN ids : a < b /\ ids[a] = all[j] /\ ids[b] = all[k]
    BY <2>1, FilteredOrder
  <2> HIDE DEF all
  <2>4. ASSUME NEW j \in DOMAIN all, NEW k \in DOMAIN all, j < k
        PROVE  all[j] # all[k]
    <3>1. PICK a \in W, b \in W : a < b /\ ids[a] = all[j] /\ ids[b] = all[k] BY <1>4, <2>3, <2>4
    <3>2. a \in Nat /\ b \in Nat BY <1>5
    <3> QED BY <1>4, <3>1, <3>2
  <2>5. \A j, k \in DOMAIN all : j \in Nat /\ k \in Nat BY <2>2
  <2> QED BY <2>2, <2>4, <2>5
<1> HIDE DEF all
<1>7. m \in 0..Len(all) /\ Len(all) \in Nat BY <1>6, ChatAssumption
<1> HIDE DEF m
<1>8. /\ list \in Seq(W) /\ DOMAIN list = 1..m
      /\ \A k \in DOMAIN list : k \in DOMAIN all /\ list[k] = all[k]
  <2>1. m \in Nat /\ 1 \in Int /\ m \in Int BY <1>7
  <2>2. \A k \in 1..m : k \in DOMAIN all BY <1>6, <1>7
  <2>3. \A k \in 1..m : all[k] \in W BY <2>2, <1>6
  <2>4. /\ list \in Seq(W) /\ Len(list) = (IF 1 <= m THEN m - 1 + 1 ELSE 0)
        /\ \A k \in 1..(m - 1 + 1) : list[k] = all[1 + k - 1]
    BY <2>1, <2>3, SubSeqProperties DEF list
  <2> HIDE DEF list
  <2>5. m - 1 + 1 = m /\ \A k \in 1..m : 1 + k - 1 = k BY <2>1
  <2>6. DOMAIN list = 1..m BY <2>1, <2>4
  <2> QED BY <2>2, <2>4, <2>5, <2>6
<1> HIDE DEF list
<1>9. list \in Seq(Nat) /\ ListOK(list, n)
  <2>1. list \in Seq(Nat) BY <1>5, <1>8, SeqMonotonic
  <2>2. \A k \in DOMAIN list : list[k] \in W
    <3>1. list \in Seq(W) BY <1>8
    <3> QED BY <3>1, ElementOfSeq, LenProperties
  <2>3. \A j, k \in DOMAIN list : list[j] = list[k] => j = k BY <1>6, <1>8
  <2> QED BY <2>1, <2>2, <2>3 DEF ListOK, W
<1>10. load \in ThreadLoads /\ load.list = list
  <2>1. chatLoads[l] \in ThreadLoads BY <1>2
  <2> QED BY <2>1, <1>9 DEF ThreadLoads
<1> HIDE DEF load
<1>11. /\ chatLoads' \in Seq(ThreadLoads) /\ DOMAIN chatLoads' = DOMAIN chatLoads
       /\ \A k \in DOMAIN chatLoads : chatLoads'[k] = IF k = l THEN load ELSE chatLoads[k]
  BY <1>1, <1>2, <1>10
<1>12. \A k \in DOMAIN chatLoads' : ListOK(chatLoads'[k].list, Len(chatRows))
  BY <1>9, <1>10, <1>11 DEF ChatInv, ListsInv, n
<1>13. ChatTypeInv' BY <1>1, <1>11 DEF ChatInv, ChatTypeInv
<1>14. ListsInv' BY <1>1, <1>12 DEF ChatInv, ListsInv
<1>15. CallsInv' /\ RetriedInv' BY <1>1 DEF ChatInv, CallsInv, RetriedInv
<1>16. SendingIsUnderWay' /\ CoordinatorAnswers'
  BY <1>1 DEF ChatInv, SendingIsUnderWay, CoordinatorAnswers, ChatIds
<1> QED BY <1>13, <1>14, <1>15, <1>16 DEF ChatInv
---------------------------------------------------------------------------
(* What the store makes of its cards.                                      *)

LEMMA AppendOnce ==
  ASSUME NEW cs \in Seq(ChatCardSet), NEW card \in ChatCardSet, NEW id, OnceIn(cs, id),
         card.id = id => \A k \in DOMAIN cs : cs[k].id # id
  PROVE  OnceIn(Append(cs, card), id)
<1> DEFINE n == Len(cs)
           ds == Append(cs, card)
<1>1. /\ n \in Nat /\ DOMAIN cs = 1..n /\ DOMAIN ds = 1..(n + 1) /\ ds[n + 1] = card
      /\ \A k \in 1..n : ds[k] = cs[k]
  OBVIOUS
<1> HIDE DEF n, ds
<1>2. \A j, k \in 1..n : cs[j].id = id /\ cs[k].id = id => j = k BY <1>1 DEF OnceIn
<1>3. ASSUME NEW j \in 1..(n + 1), NEW k \in 1..(n + 1), ds[j].id = id, ds[k].id = id
      PROVE  j = k
  <2>1. CASE j = n + 1 /\ k = n + 1 BY <2>1
  <2>2. CASE j = n + 1 /\ k # n + 1
    <3>1. k \in 1..n BY <2>2, <1>1
    <3> QED BY <3>1, <2>2, <1>1, <1>3
  <2>3. CASE j # n + 1 /\ k = n + 1
    <3>1. j \in 1..n BY <2>3, <1>1
    <3> QED BY <3>1, <2>3, <1>1, <1>3
  <2>4. CASE j # n + 1 /\ k # n + 1
    <3>1. j \in 1..n /\ k \in 1..n BY <2>4, <1>1
    <3> QED BY <3>1, <1>1, <1>2, <1>3
  <2> QED BY <2>1, <2>2, <2>3, <2>4
<1>4. OnceIn(ds, id) BY <1>1, <1>3 DEF OnceIn
<1> QED BY <1>4 DEF ds

LEMMA AddFacts ==
  ASSUME ChatInv, NEW card \in ChatCardSet
  PROVE  /\ AddChatMessage(card) \in Seq(ChatCardSet)
         /\ \A k \in DOMAIN AddChatMessage(card) :
              \/ AddChatMessage(card)[k] = card
              \/ k \in DOMAIN chatCards /\ AddChatMessage(card)[k] = chatCards[k]
         /\ \A id \in Nat : id > 0 /\ OnceIn(chatCards, id) => OnceIn(AddChatMessage(card), id)
<1>1. chatCards \in Seq(ChatCardSet) BY DEF ChatInv, ChatTypeInv
<1> DEFINE ds == AddChatMessage(card)
<1>2. CASE ds = chatCards BY <1>1, <1>2
<1>3. CASE /\ ds = Append(chatCards, card)
           /\ card.id > 0 => \A k \in DOMAIN chatCards : chatCards[k].id # card.id
  <2> HIDE DEF ds
  <2>1. ds \in Seq(ChatCardSet) /\ \A k \in DOMAIN ds : ds[k] = card \/ (k \in DOMAIN chatCards /\ ds[k] = chatCards[k])
    BY <1>1, <1>3
  <2>2. ASSUME NEW id \in Nat, id > 0, OnceIn(chatCards, id)
        PROVE  OnceIn(ds, id)
    <3>1. card.id = id => \A k \in DOMAIN chatCards : chatCards[k].id # id BY <1>3, <2>2
    <3>2. OnceIn(Append(chatCards, card), id) BY <1>1, <2>2, <3>1, AppendOnce
    <3> QED BY <1>3, <3>2
  <2> QED BY <2>1, <2>2 DEF ds
<1> QED BY <1>2, <1>3 DEF AddChatMessage

LEMMA WithoutFacts ==
  ASSUME ChatInv, NEW temp \in Int
  PROVE  /\ WithoutCard(temp) \in Seq(ChatCardSet)
         /\ \A k \in DOMAIN WithoutCard(temp) :
              /\ WithoutCard(temp)[k].id # temp
              /\ \E j \in DOMAIN chatCards : WithoutCard(temp)[k] = chatCards[j]
         /\ \A id \in Nat : OnceIn(chatCards, id) => OnceIn(WithoutCard(temp), id)
<1> DEFINE T == {c \in Range(chatCards) : c.id # temp}
           ds == Filtered(chatCards, T)
<1>1. chatCards \in Seq(ChatCardSet) BY DEF ChatInv, ChatTypeInv
<1>2. WithoutCard(temp) = ds BY DEF WithoutCard
<1> HIDE DEF T
<1>3. ds \in Seq(ChatCardSet) /\ \A k \in DOMAIN ds : ds[k] \in T BY <1>1, FilteredList
<1>4. \A j, k \in DOMAIN ds : j < k =>
        \E a, b \in DOMAIN chatCards : a < b /\ chatCards[a] = ds[j] /\ chatCards[b] = ds[k]
  BY <1>1, FilteredOrder
<1> HIDE DEF ds
<1>5. \A k \in DOMAIN ds : ds[k].id # temp /\ \E j \in DOMAIN chatCards : ds[k] = chatCards[j]
  BY <1>3 DEF T, Range
<1>6. ASSUME NEW id \in Nat, OnceIn(chatCards, id)
      PROVE  OnceIn(ds, id)
  <2>1. ASSUME NEW j \in DOMAIN ds, NEW k \in DOMAIN ds, j < k, ds[j].id = id, ds[k].id = id
        PROVE  FALSE
    <3>1. PICK a \in DOMAIN chatCards, b \in DOMAIN chatCards :
            a < b /\ chatCards[a] = ds[j] /\ chatCards[b] = ds[k]
      BY <1>4, <2>1
    <3>2. a = b BY <3>1, <2>1, <1>6 DEF OnceIn
    <3>3. a \in Nat BY <1>1
    <3> QED BY <3>1, <3>2, <3>3
  <2>2. \A j, k \in DOMAIN ds : j \in Nat /\ k \in Nat BY <1>3
  <2> QED BY <2>1, <2>2 DEF OnceIn
<1> QED BY <1>2, <1>3, <1>5, <1>6

LEMMA StoredFacts ==
  ASSUME ChatInv, NEW id \in 1..Len(chatRows)
  PROVE  /\ StoredCard(id) \in ChatCardSet /\ StoredCard(id).id = id
         /\ StoredCard(id).state = "stored"
<1>1. chatRows \in Seq(ChatTable) BY DEF ChatInv, ChatTypeInv
<1>2. chatRows[id] \in ChatTable /\ id \in Int BY <1>1
<1> QED BY <1>2 DEF StoredCard, ChatTable, ChatCardSet

---------------------------------------------------------------------------
(* Steps of the browser: the rows stay.                                    *)

\* Of the requests only `heard` changes, and a new one is not yet stored.
LEMMA BrowserCalls ==
  ASSUME ChatInv, UNCHANGED chatRows, calls' \in Seq(ChatCalls),
         \A c \in DOMAIN calls' :
           \/ /\ c \in DOMAIN calls /\ calls'[c].temp = calls[c].temp /\ calls'[c].in = calls[c].in
              /\ calls'[c].way = calls[c].way /\ calls'[c].at = calls[c].at /\ calls'[c].row = calls[c].row
           \/ calls'[c].at = "posted" /\ CallOK(calls'[c], Len(chatRows))
  PROVE  CallsInv' /\ CoordinatorAnswers'
<1>1. \A c \in DOMAIN calls' : CallOK(calls'[c], Len(chatRows))
  BY DEF ChatInv, CallsInv, CallOK
<1>2. \A c \in DOMAIN calls' : calls'[c].row # 0 => c \in DOMAIN calls /\ calls'[c].row = calls[c].row
  BY <1>1 DEF CallOK
<1>3. CallsInv' BY <1>1, <1>2 DEF ChatInv, CallsInv
<1>4. \A c \in DOMAIN calls' : Coordinated(calls'[c]) /\ calls'[c].at = "answered" =>
        /\ c \in DOMAIN calls /\ Coordinated(calls[c]) /\ calls[c].at = "answered"
        /\ calls'[c].row = calls[c].row
  BY DEF Coordinated, HasRecipient
<1>5. CoordinatorAnswers' BY <1>4 DEF ChatInv, CoordinatorAnswers, ChatIds
<1> QED BY <1>3, <1>5
\* A new request.
LEMMA RequestFacts ==
  ASSUME ChatInv, NEW temp \in Int, NEW conv \in Convs, NEW way \in {"send", "retry", "compose"},
         IF way = "compose" THEN temp = 0 ELSE temp < 0,
         UNCHANGED chatRows, ChatRequest(temp, conv, way)
  PROVE  /\ calls' \in Seq(ChatCalls) /\ CallsInv' /\ CoordinatorAnswers'
         /\ DOMAIN calls \subseteq DOMAIN calls' /\ \A c \in DOMAIN calls : calls'[c] = calls[c]
         /\ \A c \in DOMAIN calls' : calls'[c].row # 0 => c \in DOMAIN calls
         /\ \E c \in DOMAIN calls' : calls'[c].temp = temp /\ calls'[c].way = way /\ calls'[c].heard
<1> DEFINE call == [temp |-> temp, in |-> conv, way |-> way, at |-> "posted", row |-> 0, heard |-> TRUE]
           n == Len(calls)
<1>1. calls \in Seq(ChatCalls) /\ n \in Nat /\ DOMAIN calls = 1..n BY DEF ChatInv, ChatTypeInv
<1>2. call \in ChatCalls BY DEF ChatCalls
<1>3. calls' = Append(calls, call) BY DEF ChatRequest
<1>4. CallOK(call, Len(chatRows)) BY DEF CallOK
<1>5. call.at = "posted" /\ call.row = 0 /\ call.temp = temp /\ call.way = way /\ call.heard OBVIOUS
<1> HIDE DEF call, n
<1>6. /\ calls' \in Seq(ChatCalls) /\ DOMAIN calls' = 1..(n + 1) /\ calls'[n + 1] = call
      /\ \A c \in 1..n : calls'[c] = calls[c]
  BY <1>1, <1>2, <1>3 DEF n
<1>7. \A c \in DOMAIN calls' : c \in DOMAIN calls \/ c = n + 1 BY <1>1, <1>6
<1>8. DOMAIN calls \subseteq DOMAIN calls' /\ \A c \in DOMAIN calls : calls'[c] = calls[c] BY <1>1, <1>6
<1>9. \A c \in DOMAIN calls' :
         \/ /\ c \in DOMAIN calls /\ calls'[c].temp = calls[c].temp /\ calls'[c].in = calls[c].in
            /\ calls'[c].way = calls[c].way /\ calls'[c].at = calls[c].at /\ calls'[c].row = calls[c].row
         \/ calls'[c].at = "posted" /\ CallOK(calls'[c], Len(chatRows))
  BY <1>4, <1>5, <1>6, <1>7, <1>8
<1>10. CallsInv' /\ CoordinatorAnswers' BY <1>6, <1>9, BrowserCalls
<1>11. \A c \in DOMAIN calls' : calls'[c].row # 0 => c \in DOMAIN calls BY <1>5, <1>6, <1>7
<1>12. \E c \in DOMAIN calls' : calls'[c].temp = temp /\ calls'[c].way = way /\ calls'[c].heard
  <2>1. n + 1 \in DOMAIN calls' BY <1>1, <1>6
  <2> QED BY <2>1, <1>5, <1>6
<1> QED BY <1>6, <1>8, <1>10, <1>11, <1>12

\* The rest of the invariant, given the cards.
LEMMA CardsKeep ==
  ASSUME ChatInv, UNCHANGED <<chatRows, thread, chatFeed>>,
         chatLoads' \in Seq(ThreadLoads), \A l \in DOMAIN chatLoads' : ListOK(chatLoads'[l].list, Len(chatRows)),
         calls' \in Seq(ChatCalls), CallsInv', CoordinatorAnswers', composing' \in BOOLEAN,
         chatCards' \in Seq(ChatCardSet), \A k \in DOMAIN chatCards' : CardOK(chatCards'[k], Len(chatRows)),
         \A c \in DOMAIN calls' : calls'[c].way = "retry" /\ calls'[c].row # 0 => OnceIn(chatCards', calls'[c].row),
         \A k \in DOMAIN chatCards' : chatCards'[k].state = "sending" =>
           \E c \in DOMAIN calls' : calls'[c].temp = chatCards'[k].id /\ calls'[c].heard,
         composing' => \E c \in DOMAIN calls' : calls'[c].way = "compose" /\ calls'[c].heard
  PROVE  ChatInv'
<1>1. ChatTypeInv' BY DEF ChatInv, ChatTypeInv
<1>2. ListsInv' BY DEF ChatInv, ListsInv
<1>3. RetriedInv' BY DEF RetriedInv
<1>4. SendingIsUnderWay' BY DEF SendingIsUnderWay
<1> QED BY <1>1, <1>2, <1>3, <1>4 DEF ChatInv

\* Where every card of a row is still its only one, it is so after a retry.
LEMMA RetriedKeeps ==
  ASSUME ChatInv,
         \A c \in DOMAIN calls' : calls'[c].row # 0 =>
           c \in DOMAIN calls /\ calls'[c].row = calls[c].row /\ calls'[c].way = calls[c].way,
         \A id \in Nat : id > 0 /\ OnceIn(chatCards, id) => OnceIn(chatCards', id)
  PROVE  \A c \in DOMAIN calls' : calls'[c].way = "retry" /\ calls'[c].row # 0 => OnceIn(chatCards', calls'[c].row)
<1> SUFFICES ASSUME NEW c \in DOMAIN calls', calls'[c].way = "retry", calls'[c].row # 0
             PROVE  OnceIn(chatCards', calls'[c].row)
  OBVIOUS
<1>1. c \in DOMAIN calls /\ calls'[c].row = calls[c].row /\ calls'[c].way = calls[c].way OBVIOUS
<1>2. calls[c] \in ChatCalls BY <1>1 DEF ChatInv, ChatTypeInv
<1>3. calls[c].row \in Nat /\ calls[c].row > 0 BY <1>1, <1>2 DEF ChatCalls
<1>4. OnceIn(chatCards, calls[c].row) BY <1>1 DEF ChatInv, RetriedInv
<1> QED BY <1>1, <1>3, <1>4

LEMMA SendKeeps ==
  ASSUME ChatInv, HandleSend
  PROVE  ChatInv'
<1> DEFINE temp == -(Len(calls) + 1)
           card == [id |-> temp, in |-> thread, state |-> "sending"]
           n == Len(chatRows)
<1>1. /\ calls \in Seq(ChatCalls) /\ chatRows \in Seq(ChatTable) /\ chatCards \in Seq(ChatCardSet)
      /\ thread \in Convs /\ chatLoads \in Seq(ThreadLoads)
  BY DEF ChatInv, ChatTypeInv
<1>2. composing \in BOOLEAN BY DEF ChatInv, ChatTypeInv
<1>3. temp \in Int /\ temp < 0 BY <1>1
<1>4. /\ ChatRequest(temp, thread, "send") /\ chatCards' = AddChatMessage(card)
      /\ UNCHANGED <<chatRows, thread, chatLoads, chatFeed, composing>>
  BY DEF HandleSend
<1>5. card \in ChatCardSet /\ card.id = temp BY <1>1, <1>3 DEF ChatCardSet
<1>6. CardOK(card, n) BY <1>3, <1>5 DEF CardOK
<1> HIDE DEF temp, card, n
<1>7. /\ calls' \in Seq(ChatCalls) /\ CallsInv' /\ CoordinatorAnswers'
      /\ DOMAIN calls \subseteq DOMAIN calls' /\ \A c \in DOMAIN calls : calls'[c] = calls[c]
      /\ \A c \in DOMAIN calls' : calls'[c].row # 0 => c \in DOMAIN calls
      /\ \E c \in DOMAIN calls' : calls'[c].temp = temp /\ calls'[c].way = "send" /\ calls'[c].heard
  BY <1>1, <1>3, <1>4, RequestFacts
<1>8. /\ chatCards' \in Seq(ChatCardSet)
      /\ \A k \in DOMAIN chatCards' : chatCards'[k] = card \/ (k \in DOMAIN chatCards /\ chatCards'[k] = chatCards[k])
      /\ \A id \in Nat : id > 0 /\ OnceIn(chatCards, id) => OnceIn(chatCards', id)
  BY <1>4, <1>5, AddFacts
<1>9. \A k \in DOMAIN chatCards' : CardOK(chatCards'[k], n)
  BY <1>6, <1>8 DEF ChatInv, ListsInv, n
<1>10. \A c \in DOMAIN calls' : calls'[c].way = "retry" /\ calls'[c].row # 0 => OnceIn(chatCards', calls'[c].row)
  <2>1. \A c \in DOMAIN calls' : calls'[c].row # 0 =>
           c \in DOMAIN calls /\ calls'[c].row = calls[c].row /\ calls'[c].way = calls[c].way
    BY <1>7
  <2>2. \A id \in Nat : id > 0 /\ OnceIn(chatCards, id) => OnceIn(chatCards', id) BY <1>8
  <2> QED BY <2>1, <2>2, RetriedKeeps
<1>11. \A k \in DOMAIN chatCards' : chatCards'[k].state = "sending" =>
           \E c \in DOMAIN calls' : calls'[c].temp = chatCards'[k].id /\ calls'[c].heard
  BY <1>5, <1>7, <1>8 DEF ChatInv, SendingIsUnderWay
<1>12. composing' => \E c \in DOMAIN calls' : calls'[c].way = "compose" /\ calls'[c].heard
  BY <1>4, <1>7 DEF ChatInv, SendingIsUnderWay
<1>13. /\ UNCHANGED <<chatRows, thread, chatFeed>> /\ chatLoads' \in Seq(ThreadLoads)
       /\ \A l \in DOMAIN chatLoads' : ListOK(chatLoads'[l].list, Len(chatRows))
  BY <1>1, <1>4 DEF ChatInv, ListsInv
<1>14. composing' \in BOOLEAN BY <1>2, <1>4
<1>15. \A k \in DOMAIN chatCards' : CardOK(chatCards'[k], Len(chatRows)) BY <1>9 DEF n
<1>16. calls' \in Seq(ChatCalls) /\ CallsInv' /\ CoordinatorAnswers' /\ chatCards' \in Seq(ChatCardSet)
  BY <1>7, <1>8
<1> QED BY <1>10, <1>11, <1>12, <1>13, <1>14, <1>15, <1>16, CardsKeep

\* A card's state changes.
LEMMA MarkedFacts ==
  ASSUME ChatInv, NEW temp \in Int, temp <= 0, NEW state \in {"sending", "failed"}
  PROVE  /\ Marked(temp, state) \in Seq(ChatCardSet)
         /\ DOMAIN Marked(temp, state) = DOMAIN chatCards
         /\ \A k \in DOMAIN chatCards :
              /\ CardOK(Marked(temp, state)[k], Len(chatRows))
              /\ Marked(temp, state)[k].id = chatCards[k].id
              /\ IF chatCards[k].id = temp THEN Marked(temp, state)[k].state = state
                 ELSE Marked(temp, state)[k] = chatCards[k]
         /\ \A id \in Nat : id > 0 /\ OnceIn(chatCards, id) => OnceIn(Marked(temp, state), id)
<1> DEFINE ds == Marked(temp, state)
           n == Len(chatRows)
<1>1. chatCards \in Seq(ChatCardSet) BY DEF ChatInv, ChatTypeInv
<1>2. DOMAIN ds = DOMAIN chatCards /\ Len(chatCards) \in Nat /\ DOMAIN chatCards = 1..Len(chatCards)
  BY <1>1 DEF Marked
<1>3. ASSUME NEW k \in DOMAIN chatCards
      PROVE  /\ ds[k] \in ChatCardSet /\ ds[k].id = chatCards[k].id /\ CardOK(ds[k], n)
             /\ IF chatCards[k].id = temp THEN ds[k].state = state ELSE ds[k] = chatCards[k]
  <2>1. chatCards[k] \in ChatCardSet BY <1>1
  <2>2. CardOK(chatCards[k], n) BY DEF ChatInv, ListsInv
  <2>3. CASE chatCards[k].id = temp
    <3>1. ds[k] = [chatCards[k] EXCEPT !.state = state] BY <2>3 DEF Marked
    <3> HIDE DEF ds
    <3>2. ds[k] \in ChatCardSet /\ ds[k].id = temp /\ ds[k].state = state
      BY <3>1, <2>1, <2>3 DEF ChatCardSet
    <3>3. temp < 0 BY <2>2, <2>3 DEF CardOK
    <3>4. CardOK(ds[k], n) BY <3>2, <3>3 DEF CardOK
    <3> QED BY <2>3, <3>2, <3>4
  <2>4. CASE chatCards[k].id # temp
    <3>1. ds[k] = chatCards[k] BY <2>4 DEF Marked
    <3> HIDE DEF ds
    <3> QED BY <3>1, <2>1, <2>2, <2>4
  <2> QED BY <2>3, <2>4
<1>4. ds \in Seq(ChatCardSet)
  <2>1. ds = [k \in DOMAIN chatCards |-> ds[k]] BY DEF Marked
  <2> HIDE DEF ds
  <2>2. ds \in [1..Len(chatCards) -> ChatCardSet] BY <1>2, <1>3, <2>1
  <2> QED BY <2>2, <1>2
<1> HIDE DEF ds, n
<1>5. \A id \in Nat : OnceIn(chatCards, id) => OnceIn(ds, id) BY <1>2, <1>3 DEF OnceIn
<1> QED BY <1>2, <1>3, <1>4, <1>5 DEF ds, n

LEMMA RetryKeeps ==
  ASSUME ChatInv, NEW i \in DOMAIN chatCards, HandleRetry(i)
  PROVE  ChatInv'
<1> DEFINE temp == chatCards[i].id
           conv == chatCards[i].in
<1>1. /\ calls \in Seq(ChatCalls) /\ chatRows \in Seq(ChatTable) /\ chatCards \in Seq(ChatCardSet)
      /\ thread \in Convs /\ chatLoads \in Seq(ThreadLoads)
  BY DEF ChatInv, ChatTypeInv
<1>2. composing \in BOOLEAN BY DEF ChatInv, ChatTypeInv
<1>3. chatCards[i] \in ChatCardSet BY <1>1
<1>4. /\ ChatRequest(temp, conv, "retry") /\ chatCards' = Marked(temp, "sending")
      /\ UNCHANGED <<chatRows, thread, chatLoads, chatFeed, composing>> /\ chatCards[i].state = "failed"
  BY DEF HandleRetry
<1>5. temp \in Int /\ conv \in Convs BY <1>3 DEF ChatCardSet
<1>6. temp < 0
  <2>1. CardOK(chatCards[i], Len(chatRows)) BY DEF ChatInv, ListsInv
  <2> QED BY <2>1, <1>4 DEF CardOK
<1> HIDE DEF temp, conv
<1>7. /\ calls' \in Seq(ChatCalls) /\ CallsInv' /\ CoordinatorAnswers'
      /\ DOMAIN calls \subseteq DOMAIN calls' /\ \A c \in DOMAIN calls : calls'[c] = calls[c]
      /\ \A c \in DOMAIN calls' : calls'[c].row # 0 => c \in DOMAIN calls
      /\ \E c \in DOMAIN calls' : calls'[c].temp = temp /\ calls'[c].way = "retry" /\ calls'[c].heard
  BY <1>5, <1>6, <1>4, RequestFacts
<1>8. /\ chatCards' \in Seq(ChatCardSet)
      /\ DOMAIN chatCards' = DOMAIN chatCards
      /\ \A k \in DOMAIN chatCards :
              /\ CardOK(chatCards'[k], Len(chatRows))
              /\ chatCards'[k].id = chatCards[k].id
              /\ IF chatCards[k].id = temp THEN chatCards'[k].state = "sending"
                 ELSE chatCards'[k] = chatCards[k]
      /\ \A id \in Nat : id > 0 /\ OnceIn(chatCards, id) => OnceIn(chatCards', id)
  <2>1. temp <= 0 BY <1>5, <1>6
  <2> QED BY <2>1, <1>4, <1>5, MarkedFacts
<1>9. \A k \in DOMAIN chatCards' : CardOK(chatCards'[k], Len(chatRows)) BY <1>8
<1>10. \A c \in DOMAIN calls' : calls'[c].way = "retry" /\ calls'[c].row # 0 => OnceIn(chatCards', calls'[c].row)
  <2>1. \A c \in DOMAIN calls' : calls'[c].row # 0 =>
           c \in DOMAIN calls /\ calls'[c].row = calls[c].row /\ calls'[c].way = calls[c].way
    BY <1>7
  <2>2. \A id \in Nat : id > 0 /\ OnceIn(chatCards, id) => OnceIn(chatCards', id) BY <1>8
  <2> QED BY <2>1, <2>2, RetriedKeeps
<1>11. \A k \in DOMAIN chatCards' : chatCards'[k].state = "sending" =>
           \E c \in DOMAIN calls' : calls'[c].temp = chatCards'[k].id /\ calls'[c].heard
  BY <1>7, <1>8 DEF ChatInv, SendingIsUnderWay
<1>12. composing' => \E c \in DOMAIN calls' : calls'[c].way = "compose" /\ calls'[c].heard
  BY <1>4, <1>7 DEF ChatInv, SendingIsUnderWay
<1>13. /\ UNCHANGED <<chatRows, thread, chatFeed>> /\ chatLoads' \in Seq(ThreadLoads)
       /\ \A l \in DOMAIN chatLoads' : ListOK(chatLoads'[l].list, Len(chatRows))
  BY <1>1, <1>4 DEF ChatInv, ListsInv
<1>14. composing' \in BOOLEAN BY <1>2, <1>4
<1>15. calls' \in Seq(ChatCalls) /\ CallsInv' /\ CoordinatorAnswers' /\ chatCards' \in Seq(ChatCardSet)
  BY <1>7, <1>8
<1> QED BY <1>9, <1>10, <1>11, <1>12, <1>13, <1>14, <1>15, CardsKeep
\* A card is on its way no longer only when it is gone or says so.
LEMMA DismissKeeps ==
  ASSUME ChatInv, NEW i \in DOMAIN chatCards, Dismiss(i)
  PROVE  ChatInv'
<1> DEFINE temp == chatCards[i].id
<1>1. /\ chatCards \in Seq(ChatCardSet) /\ calls \in Seq(ChatCalls) /\ chatLoads \in Seq(ThreadLoads)
      /\ chatCards[i] \in ChatCardSet
  BY DEF ChatInv, ChatTypeInv
<1>2. composing \in BOOLEAN BY DEF ChatInv, ChatTypeInv
<1>3. temp \in Int BY <1>1 DEF ChatCardSet
<1>4. /\ chatCards' = WithoutCard(temp)
      /\ UNCHANGED <<chatRows, calls, thread, chatLoads, chatFeed, composing>>
  BY DEF Dismiss
<1> HIDE DEF temp
<1>5. /\ chatCards' \in Seq(ChatCardSet)
      /\ \A k \in DOMAIN chatCards' :
              /\ chatCards'[k].id # temp
              /\ \E j \in DOMAIN chatCards : chatCards'[k] = chatCards[j]
      /\ \A id \in Nat : OnceIn(chatCards, id) => OnceIn(chatCards', id)
  BY <1>3, <1>4, WithoutFacts
<1>6. \A k \in DOMAIN chatCards' : CardOK(chatCards'[k], Len(chatRows))
  BY <1>5 DEF ChatInv, ListsInv
<1>7. \A c \in DOMAIN calls' : calls'[c].way = "retry" /\ calls'[c].row # 0 => OnceIn(chatCards', calls'[c].row)
  <2>1. \A c \in DOMAIN calls' : calls'[c].row # 0 =>
           c \in DOMAIN calls /\ calls'[c].row = calls[c].row /\ calls'[c].way = calls[c].way
    BY <1>4
  <2>2. \A id \in Nat : id > 0 /\ OnceIn(chatCards, id) => OnceIn(chatCards', id) BY <1>5
  <2> QED BY <2>1, <2>2, RetriedKeeps
<1>8. \A k \in DOMAIN chatCards' : chatCards'[k].state = "sending" =>
           \E c \in DOMAIN calls' : calls'[c].temp = chatCards'[k].id /\ calls'[c].heard
  BY <1>4, <1>5 DEF ChatInv, SendingIsUnderWay
<1>9. composing' => \E c \in DOMAIN calls' : calls'[c].way = "compose" /\ calls'[c].heard
  BY <1>4 DEF ChatInv, SendingIsUnderWay
<1>10. /\ UNCHANGED <<chatRows, thread, chatFeed>> /\ chatLoads' \in Seq(ThreadLoads)
       /\ \A l \in DOMAIN chatLoads' : ListOK(chatLoads'[l].list, Len(chatRows))
  BY <1>1, <1>4 DEF ChatInv, ListsInv
<1>11. composing' \in BOOLEAN BY <1>2, <1>4
<1>12. CallsInv' /\ CoordinatorAnswers'
  BY <1>4 DEF ChatInv, CallsInv, CoordinatorAnswers, ChatIds
<1>13. calls' \in Seq(ChatCalls) /\ chatCards' \in Seq(ChatCardSet) BY <1>1, <1>4, <1>5
<1> QED BY <1>6, <1>7, <1>8, <1>9, <1>10, <1>11, <1>12, <1>13, CardsKeep

LEMMA ComposeKeeps ==
  ASSUME ChatInv, Compose
  PROVE  ChatInv'
<1>1. /\ chatCards \in Seq(ChatCardSet) /\ chatLoads \in Seq(ThreadLoads)
  BY DEF ChatInv, ChatTypeInv
<1>2. /\ ChatRequest(0, Coord, "compose") /\ composing' = TRUE
      /\ UNCHANGED <<chatRows, chatCards, thread, chatLoads, chatFeed>>
  BY DEF Compose
<1>3. Coord \in Convs /\ 0 \in Int BY DEF Convs
<1>4. /\ calls' \in Seq(ChatCalls) /\ CallsInv' /\ CoordinatorAnswers'
      /\ DOMAIN calls \subseteq DOMAIN calls' /\ \A c \in DOMAIN calls : calls'[c] = calls[c]
      /\ \A c \in DOMAIN calls' : calls'[c].row # 0 => c \in DOMAIN calls
      /\ \E c \in DOMAIN calls' : calls'[c].temp = 0 /\ calls'[c].way = "compose" /\ calls'[c].heard
  BY <1>2, <1>3, RequestFacts
<1>5. \A c \in DOMAIN calls' : calls'[c].way = "retry" /\ calls'[c].row # 0 => OnceIn(chatCards', calls'[c].row)
  BY <1>2, <1>4 DEF ChatInv, RetriedInv
<1>6. \A k \in DOMAIN chatCards' : chatCards'[k].state = "sending" =>
           \E c \in DOMAIN calls' : calls'[c].temp = chatCards'[k].id /\ calls'[c].heard
  BY <1>2, <1>4 DEF ChatInv, SendingIsUnderWay
<1>7. composing' => \E c \in DOMAIN calls' : calls'[c].way = "compose" /\ calls'[c].heard
  BY <1>4
<1>8. /\ UNCHANGED <<chatRows, thread, chatFeed>> /\ chatLoads' \in Seq(ThreadLoads)
      /\ \A l \in DOMAIN chatLoads' : ListOK(chatLoads'[l].list, Len(chatRows))
  BY <1>1, <1>2 DEF ChatInv, ListsInv
<1>9. composing' \in BOOLEAN BY <1>2
<1>10. \A k \in DOMAIN chatCards' : CardOK(chatCards'[k], Len(chatRows)) BY <1>2 DEF ChatInv, ListsInv
<1>11. calls' \in Seq(ChatCalls) /\ CallsInv' /\ CoordinatorAnswers' /\ chatCards' \in Seq(ChatCardSet)
  BY <1>1, <1>2, <1>4
<1> QED BY <1>5, <1>6, <1>7, <1>8, <1>9, <1>10, <1>11, CardsKeep

\* A list replaces the cards: all are stored.
LEMMA LoadArrivesKeeps ==
  ASSUME ChatInv, NEW l \in DOMAIN chatLoads, LoadArrives(l)
  PROVE  ChatInv'
<1> DEFINE n == Len(chatRows)
           list == chatLoads[l].list
           load == [chatLoads[l] EXCEPT !.at = "over", !.list = <<>>]
<1>1. /\ chatLoads' = [chatLoads EXCEPT ![l] = load]
      /\ chatCards' = [k \in DOMAIN list |-> StoredCard(list[k])]
      /\ UNCHANGED <<chatRows, calls, thread, chatFeed, composing>>
  BY DEF LoadArrives
<1>2. /\ chatLoads \in Seq(ThreadLoads) /\ calls \in Seq(ChatCalls) /\ chatLoads[l] \in ThreadLoads
  BY DEF ChatInv, ChatTypeInv
<1>3. composing \in BOOLEAN BY DEF ChatInv, ChatTypeInv
<1>4. list \in Seq(Nat) BY <1>2 DEF ThreadLoads
<1>5. ListOK(list, n) BY DEF ChatInv, ListsInv
<1>6. load \in ThreadLoads /\ ListOK(load.list, n)
  <2>1. <<>> \in Seq(Nat) /\ DOMAIN <<>> = {} BY EmptySeq
  <2>2. load.list = <<>> /\ load \in ThreadLoads BY <2>1, <1>2 DEF ThreadLoads
  <2> QED BY <2>1, <2>2 DEF ListOK
<1> HIDE DEF load, list, n
<1>7. /\ chatLoads' \in Seq(ThreadLoads) /\ DOMAIN chatLoads' = DOMAIN chatLoads
      /\ \A k \in DOMAIN chatLoads : chatLoads'[k] = IF k = l THEN load ELSE chatLoads[k]
  BY <1>1, <1>2, <1>6
<1>8. \A k \in DOMAIN chatLoads' : ListOK(chatLoads'[k].list, Len(chatRows))
  BY <1>6, <1>7 DEF ChatInv, ListsInv, n
<1>9. ASSUME NEW k \in DOMAIN list
      PROVE  /\ chatCards'[k] \in ChatCardSet /\ chatCards'[k].id = list[k]
             /\ chatCards'[k].state = "stored" /\ list[k] \in 1..n
  <2>1. list[k] \in 1..Len(chatRows) BY <1>5 DEF ListOK, n
  <2>2. chatCards'[k] = StoredCard(list[k]) BY <1>1
  <2>3. /\ StoredCard(list[k]) \in ChatCardSet /\ StoredCard(list[k]).id = list[k]
        /\ StoredCard(list[k]).state = "stored"
    BY <2>1, StoredFacts
  <2> QED BY <2>1, <2>2, <2>3 DEF n
<1>10. DOMAIN chatCards' = DOMAIN list BY <1>1
<1>11. chatCards' \in Seq(ChatCardSet)
  <2>1. DOMAIN list = 1..Len(list) /\ Len(list) \in Nat BY <1>4
  <2>2. chatCards' = [k \in DOMAIN chatCards' |-> chatCards'[k]] BY <1>1
  <2>3. chatCards' \in [1..Len(list) -> ChatCardSet] BY <1>9, <1>10, <2>1, <2>2
  <2> QED BY <2>1, <2>3
<1>12. \A k \in DOMAIN chatCards' : CardOK(chatCards'[k], Len(chatRows)) BY <1>9, <1>10 DEF CardOK, n
<1>13. \A c \in DOMAIN calls' : calls'[c].way = "retry" /\ calls'[c].row # 0 => OnceIn(chatCards', calls'[c].row)
  <2>1. \A j, k \in DOMAIN list : list[j] = list[k] => j = k BY <1>5 DEF ListOK
  <2> QED BY <2>1, <1>9, <1>10 DEF OnceIn
<1>14. \A k \in DOMAIN chatCards' : chatCards'[k].state # "sending" BY <1>9, <1>10
<1>15. composing' => \E c \in DOMAIN calls' : calls'[c].way = "compose" /\ calls'[c].heard
  BY <1>1 DEF ChatInv, SendingIsUnderWay
<1>16. CallsInv' /\ CoordinatorAnswers'
  BY <1>1 DEF ChatInv, CallsInv, CoordinatorAnswers, ChatIds
<1>17. /\ UNCHANGED <<chatRows, thread, chatFeed>> /\ chatLoads' \in Seq(ThreadLoads)
       /\ calls' \in Seq(ChatCalls) /\ composing' \in BOOLEAN
  BY <1>1, <1>2, <1>3, <1>7
<1>18. \A k \in DOMAIN chatCards' : chatCards'[k].state = "sending" =>
           \E c \in DOMAIN calls' : calls'[c].temp = chatCards'[k].id /\ calls'[c].heard
  BY <1>14
<1> QED BY <1>8, <1>11, <1>12, <1>13, <1>15, <1>16, <1>17, <1>18, CardsKeep

\* An event adds a stored card, unless there is one.
LEMMA EventKeeps ==
  ASSUME ChatInv, EventArrives
  PROVE  ChatInv'
<1> DEFINE id0 == Head(chatFeed)
           card == StoredCard(id0)
           n == Len(chatRows)
<1>1. /\ chatFeed # <<>> /\ chatFeed' = Tail(chatFeed) /\ chatCards' = AddChatMessage(card)
      /\ UNCHANGED <<chatRows, calls, thread, chatLoads, composing>>
  BY DEF EventArrives
<1>2. /\ chatFeed \in Seq(Nat) /\ calls \in Seq(ChatCalls) /\ chatLoads \in Seq(ThreadLoads)
      /\ chatRows \in Seq(ChatTable)
  BY DEF ChatInv, ChatTypeInv
<1>3. \A k \in DOMAIN chatFeed : chatFeed[k] \in 1..n BY DEF ChatInv, ListsInv
<1> HIDE DEF n
<1>4. id0 \in 1..n /\ chatFeed' \in Seq(Nat) /\ \A k \in DOMAIN chatFeed' : chatFeed'[k] \in 1..n
  <2>1. 1 \in DOMAIN chatFeed /\ Head(chatFeed) = chatFeed[1] BY <1>1, <1>2
  <2>2. chatFeed' \in Seq(Nat) /\ \A k \in DOMAIN chatFeed' : k + 1 \in DOMAIN chatFeed /\ chatFeed'[k] = chatFeed[k + 1]
    BY <1>1, <1>2
  <2> QED BY <1>3, <2>1, <2>2
<1>5. card \in ChatCardSet /\ card.id = id0 /\ card.state = "stored"
  BY <1>4, StoredFacts DEF n
<1> HIDE DEF card, id0
<1>6. CardOK(card, n) BY <1>4, <1>5 DEF CardOK
<1>7. /\ chatCards' \in Seq(ChatCardSet)
      /\ \A k \in DOMAIN chatCards' : chatCards'[k] = card \/ (k \in DOMAIN chatCards /\ chatCards'[k] = chatCards[k])
      /\ \A id \in Nat : id > 0 /\ OnceIn(chatCards, id) => OnceIn(chatCards', id)
  BY <1>1, <1>5, AddFacts
<1>8. \A k \in DOMAIN chatCards' : CardOK(chatCards'[k], n)
  BY <1>6, <1>7 DEF ChatInv, ListsInv, n
<1>9. \A c \in DOMAIN calls' : calls'[c].way = "retry" /\ calls'[c].row # 0 => OnceIn(chatCards', calls'[c].row)
  <2>1. \A c \in DOMAIN calls' : calls'[c].row # 0 =>
           c \in DOMAIN calls /\ calls'[c].row = calls[c].row /\ calls'[c].way = calls[c].way
    BY <1>1
  <2>2. \A id \in Nat : id > 0 /\ OnceIn(chatCards, id) => OnceIn(chatCards', id) BY <1>7
  <2> QED BY <2>1, <2>2, RetriedKeeps
<1>10. ChatTypeInv' BY <1>1, <1>4, <1>7 DEF ChatInv, ChatTypeInv
<1>11. ListsInv' BY <1>1, <1>4, <1>8 DEF ChatInv, ListsInv, n
<1>12. RetriedInv' BY <1>9 DEF RetriedInv
<1>13. SendingIsUnderWay' BY <1>1, <1>5, <1>7 DEF ChatInv, SendingIsUnderWay
<1>14. CallsInv' /\ CoordinatorAnswers'
  BY <1>1 DEF ChatInv, CallsInv, CoordinatorAnswers, ChatIds
<1> QED BY <1>10, <1>11, <1>12, <1>13, <1>14 DEF ChatInv
---------------------------------------------------------------------------
(* The end of a request in the browser.                                    *)

\* Its card is no longer on its way, and the others are as before.
LEMMA EndKeeps ==
  ASSUME ChatInv, NEW c \in DOMAIN calls, Heard(c),
         UNCHANGED <<chatRows, thread, chatFeed, chatLoads>>,
         composing' = (composing /\ calls[c].way # "compose"),
         chatCards' \in Seq(ChatCardSet), \A k \in DOMAIN chatCards' : CardOK(chatCards'[k], Len(chatRows)),
         \A b \in DOMAIN calls : calls[b].way = "retry" /\ calls[b].row # 0 => OnceIn(chatCards', calls[b].row),
         \A k \in DOMAIN chatCards' : chatCards'[k].state = "sending" =>
           /\ chatCards'[k].id # calls[c].temp
           /\ \E j \in DOMAIN chatCards : chatCards[j].state = "sending" /\ chatCards[j].id = chatCards'[k].id
  PROVE  ChatInv'
<1> DEFINE call == [calls[c] EXCEPT !.heard = FALSE]
<1>1. calls \in Seq(ChatCalls) /\ calls[c] \in ChatCalls /\ chatLoads \in Seq(ThreadLoads)
  BY DEF ChatInv, ChatTypeInv
<1>2. composing \in BOOLEAN BY DEF ChatInv, ChatTypeInv
<1>3. calls' = [calls EXCEPT ![c] = call] BY DEF Heard
<1>4. /\ call \in ChatCalls /\ call.temp = calls[c].temp /\ call.in = calls[c].in
      /\ call.way = calls[c].way /\ call.at = calls[c].at /\ call.row = calls[c].row
  BY <1>1 DEF ChatCalls
<1> HIDE DEF call
<1>5. /\ calls' \in Seq(ChatCalls) /\ DOMAIN calls' = DOMAIN calls /\ calls'[c] = call
      /\ \A b \in DOMAIN calls : b # c => calls'[b] = calls[b]
  BY <1>1, <1>3, <1>4
<1>6. \A b \in DOMAIN calls :
        /\ calls'[b].temp = calls[b].temp /\ calls'[b].in = calls[b].in
        /\ calls'[b].way = calls[b].way /\ calls'[b].at = calls[b].at /\ calls'[b].row = calls[b].row
  BY <1>4, <1>5
<1>7. CallsInv' /\ CoordinatorAnswers' BY <1>5, <1>6, BrowserCalls
<1>8. \A b \in DOMAIN calls' : calls'[b].way = "retry" /\ calls'[b].row # 0 => OnceIn(chatCards', calls'[b].row)
  BY <1>5, <1>6
<1>9. \A k \in DOMAIN chatCards' : chatCards'[k].state = "sending" =>
           \E b \in DOMAIN calls' : calls'[b].temp = chatCards'[k].id /\ calls'[b].heard
  <2> SUFFICES ASSUME NEW k \in DOMAIN chatCards', chatCards'[k].state = "sending"
               PROVE  \E b \in DOMAIN calls' : calls'[b].temp = chatCards'[k].id /\ calls'[b].heard
    OBVIOUS
  <2>1. PICK j \in DOMAIN chatCards : chatCards[j].state = "sending" /\ chatCards[j].id = chatCards'[k].id
    OBVIOUS
  <2>2. PICK b \in DOMAIN calls : calls[b].temp = chatCards'[k].id /\ calls[b].heard
    BY <2>1 DEF ChatInv, SendingIsUnderWay
  <2>3. b # c BY <2>2
  <2> QED BY <2>2, <2>3, <1>5
<1>10. composing' => \E b \in DOMAIN calls' : calls'[b].way = "compose" /\ calls'[b].heard
  <2> SUFFICES ASSUME composing, calls[c].way # "compose"
               PROVE  \E b \in DOMAIN calls' : calls'[b].way = "compose" /\ calls'[b].heard
    OBVIOUS
  <2>1. PICK b \in DOMAIN calls : calls[b].way = "compose" /\ calls[b].heard
    BY DEF ChatInv, SendingIsUnderWay
  <2> QED BY <2>1, <1>5
<1>11. composing' \in BOOLEAN OBVIOUS
<1>12. /\ chatLoads' \in Seq(ThreadLoads)
       /\ \A l \in DOMAIN chatLoads' : ListOK(chatLoads'[l].list, Len(chatRows))
  BY <1>1 DEF ChatInv, ListsInv
<1>13. calls' \in Seq(ChatCalls) BY <1>5
<1> QED BY <1>7, <1>8, <1>9, <1>10, <1>11, <1>12, <1>13, CardsKeep

\* No card has the number of a request whose card may not exist.
LEMMA TempFacts ==
  ASSUME ChatInv, NEW c \in DOMAIN calls
  PROVE  /\ calls[c] \in ChatCalls /\ calls[c].temp \in Int /\ calls[c].temp <= 0
         /\ calls[c].way # "compose" => calls[c].temp < 0
         /\ calls[c].way = "compose" => \A k \in DOMAIN chatCards : chatCards[k].id # calls[c].temp
<1>1. calls[c] \in ChatCalls /\ chatCards \in Seq(ChatCardSet) BY DEF ChatInv, ChatTypeInv
<1>2. calls[c].temp \in Int BY <1>1 DEF ChatCalls
<1>3. CallOK(calls[c], Len(chatRows)) BY DEF ChatInv, CallsInv
<1>4. calls[c].temp <= 0 /\ (calls[c].way # "compose" => calls[c].temp < 0)
      /\ (calls[c].way = "compose" => calls[c].temp = 0)
  BY <1>2, <1>3 DEF CallOK
<1>5. \A k \in DOMAIN chatCards : chatCards[k].id # 0
  <2>1. \A k \in DOMAIN chatCards : CardOK(chatCards[k], Len(chatRows)) BY DEF ChatInv, ListsInv
  <2>2. ~(0 < 0) /\ ~(0 \in 1..Len(chatRows)) OBVIOUS
  <2> QED BY <2>1, <2>2 DEF CardOK
<1> QED BY <1>1, <1>2, <1>4, <1>5

LEMMA FailedKeeps ==
  ASSUME ChatInv, NEW c \in DOMAIN calls, Failed(c)
  PROVE  ChatInv'
<1> DEFINE temp == calls[c].temp
<1>1. /\ Heard(c) /\ chatCards' = Marked(temp, "failed")
      /\ composing' = (composing /\ calls[c].way # "compose")
      /\ UNCHANGED <<chatRows, thread, chatLoads, chatFeed>>
  BY DEF Failed
<1>2. temp \in Int /\ temp <= 0 BY TempFacts
<1> HIDE DEF temp
<1>3. /\ chatCards' \in Seq(ChatCardSet)
      /\ DOMAIN chatCards' = DOMAIN chatCards
      /\ \A k \in DOMAIN chatCards :
              /\ CardOK(chatCards'[k], Len(chatRows))
              /\ chatCards'[k].id = chatCards[k].id
              /\ IF chatCards[k].id = temp THEN chatCards'[k].state = "failed"
                 ELSE chatCards'[k] = chatCards[k]
      /\ \A id \in Nat : id > 0 /\ OnceIn(chatCards, id) => OnceIn(chatCards', id)
  BY <1>1, <1>2, MarkedFacts
<1>4. \A k \in DOMAIN chatCards' : CardOK(chatCards'[k], Len(chatRows)) BY <1>3
<1>5. \A b \in DOMAIN calls : calls[b].way = "retry" /\ calls[b].row # 0 => OnceIn(chatCards', calls[b].row)
  <2> SUFFICES ASSUME NEW b \in DOMAIN calls, calls[b].way = "retry", calls[b].row # 0
               PROVE  OnceIn(chatCards', calls[b].row)
    OBVIOUS
  <2>1. calls[b] \in ChatCalls BY TempFacts
  <2>2. calls[b].row \in Nat /\ calls[b].row > 0 BY <2>1 DEF ChatCalls
  <2>3. OnceIn(chatCards, calls[b].row) BY DEF ChatInv, RetriedInv
  <2> QED BY <1>3, <2>2, <2>3
<1>6. \A k \in DOMAIN chatCards' : chatCards'[k].state = "sending" =>
           /\ chatCards'[k].id # temp
           /\ \E j \in DOMAIN chatCards : chatCards[j].state = "sending" /\ chatCards[j].id = chatCards'[k].id
  <2> SUFFICES ASSUME NEW k \in DOMAIN chatCards, chatCards'[k].state = "sending"
               PROVE  chatCards'[k].id # temp /\ chatCards[k].state = "sending" /\ chatCards[k].id = chatCards'[k].id
    BY <1>3
  <2> QED BY <1>3
<1>7. \A k \in DOMAIN chatCards' : chatCards'[k].state = "sending" =>
           /\ chatCards'[k].id # calls[c].temp
           /\ \E j \in DOMAIN chatCards : chatCards[j].state = "sending" /\ chatCards[j].id = chatCards'[k].id
  BY <1>6 DEF temp
<1>8. chatCards' \in Seq(ChatCardSet) BY <1>3
<1> QED BY <1>1, <1>4, <1>5, <1>7, <1>8, EndKeeps

\* handleSend: the row takes the place of its card.
LEMMA ReplacedFacts ==
  ASSUME ChatInv, NEW temp \in Int, temp < 0, NEW row \in 1..Len(chatRows)
  PROVE  /\ ReplacePending(temp, StoredCard(row)) \in Seq(ChatCardSet)
         /\ DOMAIN ReplacePending(temp, StoredCard(row)) = DOMAIN chatCards
         /\ \A k \in DOMAIN chatCards :
              /\ CardOK(ReplacePending(temp, StoredCard(row))[k], Len(chatRows))
              /\ IF chatCards[k].id = temp
                 THEN ReplacePending(temp, StoredCard(row))[k].id = row /\ ReplacePending(temp, StoredCard(row))[k].state = "stored"
                 ELSE ReplacePending(temp, StoredCard(row))[k] = chatCards[k]
<1> DEFINE card == StoredCard(row)
           ds == ReplacePending(temp, card)
           n == Len(chatRows)
<1>1. chatCards \in Seq(ChatCardSet) BY DEF ChatInv, ChatTypeInv
<1>2. DOMAIN ds = DOMAIN chatCards /\ Len(chatCards) \in Nat /\ DOMAIN chatCards = 1..Len(chatCards)
  BY <1>1 DEF ReplacePending
<1>3. card \in ChatCardSet /\ card.id = row /\ card.state = "stored" BY StoredFacts
<1> HIDE DEF card
<1>4. CardOK(card, n) BY <1>3 DEF CardOK
<1>5. ASSUME NEW k \in DOMAIN chatCards
      PROVE  /\ ds[k] \in ChatCardSet /\ CardOK(ds[k], n)
             /\ IF chatCards[k].id = temp THEN ds[k].id = row /\ ds[k].state = "stored" ELSE ds[k] = chatCards[k]
  <2>1. chatCards[k] \in ChatCardSet BY <1>1
  <2>2. CardOK(chatCards[k], n) BY DEF ChatInv, ListsInv
  <2>3. ds[k] = IF chatCards[k].id = temp THEN card ELSE chatCards[k] BY DEF ReplacePending
  <2> HIDE DEF ds, n
  <2> QED BY <1>3, <1>4, <2>1, <2>2, <2>3
<1>6. ds \in Seq(ChatCardSet)
  <2>1. ds = [k \in DOMAIN chatCards |-> ds[k]] BY DEF ReplacePending
  <2> HIDE DEF ds
  <2>2. ds \in [1..Len(chatCards) -> ChatCardSet] BY <1>2, <1>5, <2>1
  <2> QED BY <2>2, <1>2
<1> HIDE DEF ds, n
<1> QED BY <1>2, <1>5, <1>6 DEF ds, n, card
\* A request that was answered has its row, and nobody else has it.
LEMMA AnsweredRow ==
  ASSUME ChatInv, NEW c \in DOMAIN calls, calls[c].at = "answered"
  PROVE  /\ calls[c].row \in 1..Len(chatRows)
         /\ \A b \in DOMAIN calls : b # c => calls[b].row # calls[c].row
<1>1. CallOK(calls[c], Len(chatRows)) BY DEF ChatInv, CallsInv
<1>2. calls[c].row \in 1..Len(chatRows) BY <1>1 DEF CallOK
<1>3. calls[c].row # 0 BY <1>2
<1> QED BY <1>2, <1>3 DEF ChatInv, CallsInv

LEMMA SendAnswerKeeps ==
  ASSUME ChatInv, NEW c \in DOMAIN calls, AnswerArrives(c), calls[c].way = "send"
  PROVE  ChatInv'
<1> DEFINE temp == calls[c].temp
           row == calls[c].row
<1>1. /\ Heard(c) /\ calls[c].at = "answered" /\ chatCards' = ReplacePending(temp, StoredCard(row))
      /\ composing' = (composing /\ calls[c].way # "compose")
      /\ UNCHANGED <<chatRows, thread, chatLoads, chatFeed>>
  BY DEF AnswerArrives
<1>2. temp \in Int /\ temp < 0 BY TempFacts
<1>3. row \in 1..Len(chatRows) /\ \A b \in DOMAIN calls : b # c => calls[b].row # row
  BY <1>1, AnsweredRow
<1> HIDE DEF temp, row
<1>4. /\ chatCards' \in Seq(ChatCardSet) /\ DOMAIN chatCards' = DOMAIN chatCards
      /\ \A k \in DOMAIN chatCards :
           /\ CardOK(chatCards'[k], Len(chatRows))
           /\ IF chatCards[k].id = temp
              THEN chatCards'[k].id = row /\ chatCards'[k].state = "stored"
              ELSE chatCards'[k] = chatCards[k]
  BY <1>1, <1>2, <1>3, ReplacedFacts
<1>5. \A k \in DOMAIN chatCards' : CardOK(chatCards'[k], Len(chatRows)) BY <1>4
<1>6. \A b \in DOMAIN calls : calls[b].way = "retry" /\ calls[b].row # 0 => OnceIn(chatCards', calls[b].row)
  <2> SUFFICES ASSUME NEW b \in DOMAIN calls, calls[b].way = "retry", calls[b].row # 0
               PROVE  OnceIn(chatCards', calls[b].row)
    OBVIOUS
  <2>1. OnceIn(chatCards, calls[b].row) BY DEF ChatInv, RetriedInv
  <2>2. b # c OBVIOUS
  <2>3. calls[b].row # row BY <1>3, <2>2
  <2>4. \A k \in DOMAIN chatCards : chatCards'[k].id = calls[b].row => chatCards[k].id = calls[b].row
    BY <1>4, <2>3
  <2> QED BY <1>4, <2>1, <2>4 DEF OnceIn
<1>7. \A k \in DOMAIN chatCards' : chatCards'[k].state = "sending" =>
           /\ chatCards'[k].id # temp
           /\ \E j \in DOMAIN chatCards : chatCards[j].state = "sending" /\ chatCards[j].id = chatCards'[k].id
  <2> SUFFICES ASSUME NEW k \in DOMAIN chatCards, chatCards'[k].state = "sending"
               PROVE  chatCards'[k].id # temp /\ chatCards[k].state = "sending" /\ chatCards[k].id = chatCards'[k].id
    BY <1>4
  <2> QED BY <1>4
<1>8. \A k \in DOMAIN chatCards' : chatCards'[k].state = "sending" =>
           /\ chatCards'[k].id # calls[c].temp
           /\ \E j \in DOMAIN chatCards : chatCards[j].state = "sending" /\ chatCards[j].id = chatCards'[k].id
  BY <1>7 DEF temp
<1>9. chatCards' \in Seq(ChatCardSet) BY <1>4
<1> QED BY <1>1, <1>5, <1>6, <1>8, <1>9, EndKeeps

\* handleRetry: the failed card goes, and the row comes unless it is there.
LEMMA RetryAnswerKeeps ==
  ASSUME ChatInv, NEW c \in DOMAIN calls, AnswerArrives(c), calls[c].way = "retry"
  PROVE  ChatInv'
<1> DEFINE temp == calls[c].temp
           row == calls[c].row
           left == WithoutCard(temp)
           card == StoredCard(row)
<1>1. /\ Heard(c) /\ calls[c].at = "answered"
      /\ chatCards' = IF \E i \in DOMAIN left : left[i].id = row THEN left ELSE Append(left, card)
      /\ composing' = (composing /\ calls[c].way # "compose")
      /\ UNCHANGED <<chatRows, thread, chatLoads, chatFeed>>
  BY DEF AnswerArrives
<1>2. temp \in Int BY TempFacts
<1>3. row \in 1..Len(chatRows) BY <1>1, AnsweredRow
<1>4. card \in ChatCardSet /\ card.id = row /\ card.state = "stored" BY <1>3, StoredFacts
<1>5. CardOK(card, Len(chatRows)) BY <1>3, <1>4 DEF CardOK
<1> HIDE DEF temp, row, card
<1>6. /\ left \in Seq(ChatCardSet)
      /\ \A k \in DOMAIN left :
              /\ left[k].id # temp
              /\ \E j \in DOMAIN chatCards : left[k] = chatCards[j]
      /\ \A id \in Nat : OnceIn(chatCards, id) => OnceIn(left, id)
  BY <1>2, WithoutFacts
<1> HIDE DEF left
<1>7. /\ chatCards' \in Seq(ChatCardSet)
      /\ \A k \in DOMAIN chatCards' : chatCards'[k] = card \/ (k \in DOMAIN left /\ chatCards'[k] = left[k])
      /\ \A id \in Nat : OnceIn(chatCards, id) => OnceIn(chatCards', id)
  <2>1. CASE \E i \in DOMAIN left : left[i].id = row
    <3>1. chatCards' = left BY <1>1, <2>1
    <3> QED BY <3>1, <1>6
  <2>2. CASE ~\E i \in DOMAIN left : left[i].id = row
    <3>1. chatCards' = Append(left, card) BY <1>1, <2>2
    <3>2. chatCards' \in Seq(ChatCardSet)
          /\ \A k \in DOMAIN chatCards' : chatCards'[k] = card \/ (k \in DOMAIN left /\ chatCards'[k] = left[k])
      BY <3>1, <1>4, <1>6
    <3>3. ASSUME NEW id \in Nat, OnceIn(chatCards, id)
          PROVE  OnceIn(chatCards', id)
      <4>1. OnceIn(left, id) BY <1>6, <3>3
      <4>2. card.id = id => \A k \in DOMAIN left : left[k].id # id BY <1>4, <2>2
      <4>3. left \in Seq(ChatCardSet) BY <1>6
      <4>4. OnceIn(Append(left, card), id) BY <1>4, <4>1, <4>2, <4>3, AppendOnce
      <4> QED BY <3>1, <4>4
    <3> QED BY <3>2, <3>3
  <2> QED BY <2>1, <2>2
<1>8. \A k \in DOMAIN chatCards' : CardOK(chatCards'[k], Len(chatRows))
  <2>1. \A j \in DOMAIN chatCards : CardOK(chatCards[j], Len(chatRows)) BY DEF ChatInv, ListsInv
  <2> QED BY <2>1, <1>5, <1>6, <1>7
<1>9. \A b \in DOMAIN calls : calls[b].way = "retry" /\ calls[b].row # 0 => OnceIn(chatCards', calls[b].row)
  <2> SUFFICES ASSUME NEW b \in DOMAIN calls, calls[b].way = "retry", calls[b].row # 0
               PROVE  OnceIn(chatCards', calls[b].row)
    OBVIOUS
  <2>1. calls[b] \in ChatCalls BY TempFacts
  <2>2. calls[b].row \in Nat BY <2>1 DEF ChatCalls
  <2>3. OnceIn(chatCards, calls[b].row) BY DEF ChatInv, RetriedInv
  <2> QED BY <1>7, <2>2, <2>3
<1>10. \A k \in DOMAIN chatCards' : chatCards'[k].state = "sending" =>
           /\ chatCards'[k].id # temp
           /\ \E j \in DOMAIN chatCards : chatCards[j].state = "sending" /\ chatCards[j].id = chatCards'[k].id
  <2> SUFFICES ASSUME NEW k \in DOMAIN chatCards', chatCards'[k].state = "sending"
               PROVE  /\ chatCards'[k].id # temp
                      /\ \E j \in DOMAIN chatCards : chatCards[j].state = "sending" /\ chatCards[j].id = chatCards'[k].id
    OBVIOUS
  <2>1. k \in DOMAIN left /\ chatCards'[k] = left[k] BY <1>4, <1>7
  <2> QED BY <2>1, <1>6
<1>11. \A k \in DOMAIN chatCards' : chatCards'[k].state = "sending" =>
           /\ chatCards'[k].id # calls[c].temp
           /\ \E j \in DOMAIN chatCards : chatCards[j].state = "sending" /\ chatCards[j].id = chatCards'[k].id
  BY <1>10 DEF temp
<1>12. chatCards' \in Seq(ChatCardSet) BY <1>7
<1> QED BY <1>1, <1>8, <1>9, <1>11, <1>12, EndKeeps

LEMMA ComposeAnswerKeeps ==
  ASSUME ChatInv, NEW c \in DOMAIN calls, AnswerArrives(c), calls[c].way = "compose"
  PROVE  ChatInv'
<1>1. /\ Heard(c) /\ chatCards' = chatCards
      /\ composing' = (composing /\ calls[c].way # "compose")
      /\ UNCHANGED <<chatRows, thread, chatLoads, chatFeed>>
  BY DEF AnswerArrives
<1>2. chatCards' \in Seq(ChatCardSet) BY <1>1 DEF ChatInv, ChatTypeInv
<1>3. \A k \in DOMAIN chatCards' : CardOK(chatCards'[k], Len(chatRows)) BY <1>1 DEF ChatInv, ListsInv
<1>4. \A b \in DOMAIN calls : calls[b].way = "retry" /\ calls[b].row # 0 => OnceIn(chatCards', calls[b].row)
  BY <1>1 DEF ChatInv, RetriedInv
<1>5. \A k \in DOMAIN chatCards : chatCards[k].id # calls[c].temp BY TempFacts
<1>6. \A k \in DOMAIN chatCards' : chatCards'[k].state = "sending" =>
           /\ chatCards'[k].id # calls[c].temp
           /\ \E j \in DOMAIN chatCards : chatCards[j].state = "sending" /\ chatCards[j].id = chatCards'[k].id
  BY <1>1, <1>5
<1> QED BY <1>1, <1>2, <1>3, <1>4, <1>6, EndKeeps

---------------------------------------------------------------------------
LEMMA ChatStep == ChatInv /\ [ChatNext]_chatVars => ChatInv'
<1> SUFFICES ASSUME ChatInv, [ChatNext]_chatVars PROVE ChatInv'
  OBVIOUS
<1>1. CASE HandleSend BY <1>1, SendKeeps
<1>2. CASE Compose BY <1>2, ComposeKeeps
<1>3. ASSUME NEW i \in DOMAIN chatCards, HandleRetry(i) PROVE ChatInv' BY <1>3, RetryKeeps
<1>4. ASSUME NEW i \in DOMAIN chatCards, Dismiss(i) PROVE ChatInv' BY <1>4, DismissKeeps
<1>5. ASSUME NEW conv \in Threads, SelectThread(conv) PROVE ChatInv' BY <1>5, SelectKeeps
<1>6. CASE EventArrives BY <1>6, EventKeeps
<1>7. ASSUME NEW l \in DOMAIN chatLoads, LoadAnswered(l) PROVE ChatInv' BY <1>7, LoadAnsweredKeeps
<1>8. ASSUME NEW l \in DOMAIN chatLoads, LoadArrives(l) PROVE ChatInv' BY <1>8, LoadArrivesKeeps
<1>9. ASSUME NEW c \in DOMAIN calls, Server(c) PROVE ChatInv'
  <2>1. CASE Store(c) BY <2>1, StoreKeeps
  <2>2. ASSUME NEW outcome \in {"delivered", "failed"}, NEW run \in BOOLEAN, InvokeEnds(c, outcome, run)
        PROVE  ChatInv'
    BY <2>2, InvokeEndsKeeps
  <2>3. CASE WaitEnds(c) BY <2>3, WaitEndsKeeps
  <2> QED BY <1>9, <2>1, <2>2, <2>3 DEF Server
<1>10. ASSUME NEW c \in DOMAIN calls, ChatRefuse(c) PROVE ChatInv' BY <1>10, RefuseKeeps
<1>11. ASSUME NEW c \in DOMAIN calls, AnswerArrives(c) PROVE ChatInv'
  <2>1. calls[c].way \in {"send", "retry", "compose"}
    <3>1. calls[c] \in ChatCalls BY TempFacts
    <3> QED BY <3>1 DEF ChatCalls
  <2> QED BY <1>11, <2>1, SendAnswerKeeps, RetryAnswerKeeps, ComposeAnswerKeeps
<1>12. ASSUME NEW c \in DOMAIN calls, Failed(c) PROVE ChatInv' BY <1>12, FailedKeeps
<1>13. ASSUME NEW c \in DOMAIN calls, RefusalArrives(c) \/ ChatAnswerLost(c) PROVE ChatInv'
  BY <1>12, <1>13 DEF RefusalArrives, ChatAnswerLost
<1>14. CASE UNCHANGED chatVars
  <2>1. UNCHANGED <<chatRows, calls, chatCards, thread, chatLoads, chatFeed, composing>> BY <1>14 DEF chatVars
  <2>2. ChatTypeInv' /\ CallsInv' /\ ListsInv' BY <2>1 DEF ChatInv, ChatTypeInv, CallsInv, ListsInv
  <2>3. RetriedInv' /\ SendingIsUnderWay' /\ CoordinatorAnswers'
    BY <2>1 DEF ChatInv, RetriedInv, SendingIsUnderWay, CoordinatorAnswers, ChatIds
  <2> QED BY <2>2, <2>3 DEF ChatInv
<1> QED
  BY <1>1, <1>2, <1>3, <1>4, <1>5, <1>6, <1>7, <1>8, <1>9, <1>10, <1>11, <1>13, <1>14 DEF ChatNext

\* The invariant says what the runs check.
LEMMA ChatInvSafe == ChatInv => ChatSafe
<1> SUFFICES ASSUME ChatInv PROVE RetryShowsOnce
  BY DEF ChatInv, ChatSafe
<1> SUFFICES ASSUME NEW c \in DOMAIN calls, calls[c].way = "retry", calls[c].row # 0
             PROVE  Cardinality({i \in DOMAIN chatCards : chatCards[i].id = calls[c].row}) <= 1
  BY DEF RetryShowsOnce
<1> DEFINE S == {i \in DOMAIN chatCards : chatCards[i].id = calls[c].row}
<1>1. OnceIn(chatCards, calls[c].row) BY DEF ChatInv, RetriedInv
<1>2. \A i, j \in S : i = j BY <1>1 DEF OnceIn
<1> HIDE DEF S
<1>3. CASE S = {} BY <1>3, FS_EmptySet DEF S
<1>4. CASE S # {}
  <2>1. PICK i \in S : TRUE BY <1>4
  <2>2. S = {i} BY <1>2, <2>1
  <2>3. Cardinality(S) = 1 BY <2>2, FS_Singleton
  <2> QED BY <2>3 DEF S
<1> QED BY <1>3, <1>4

\* handleSend, handleRetry, sendComposedMessage and POST /api/chat/messages:
\* for any number of conversations, requests, fetches and lost answers, a card
\* that says 'sending' and a disabled composer have a request on its way, a
\* coordinator message that was handled to the end has a visible reply, and a
\* message that was sent by a retry has one card.
THEOREM ChatCorrect == ChatSpec => []ChatSafe
<1>1. ChatInv /\ [ChatNext]_chatVars => ChatInv' BY ChatStep
<1> QED BY <1>1, ChatInitInv, ChatInvSafe, PTL DEF ChatSpec
=============================================================================
