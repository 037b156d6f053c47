------------------------------ MODULE Gateways ------------------------------
(***************************************************************************)
(* The table of gateways (app/api/gateways/route.ts) and the server-side   *)
(* health probe (gateways/health/route.ts), which reads the table once and *)
(* then waits for one gateway after the other, writing each result by id   *)
(* while the table may change under it and another probe may run.          *)
(***************************************************************************)
EXTENDS Naturals, Sequences, SequencesExt

CONSTANTS
  GwNames,       \* names a gateway may have: numbers, in the order of the names
  GwAddrs,       \* a host with a port
  BlockedAddrs,  \* those isBlockedUrl refuses to probe
  GwBodies,      \* bodies of PUT: a name, an address, the primary flag, a status
  Probers,       \* health requests that may be under way at once
  MaxGateways,   \* bound: rows ever inserted
  MaxProbes,     \* bound: health requests
  MaxEdits       \* bound: PUTs

\* What a body of PUT may hold; 0 and "no" stand for a field it leaves out.
ByHand == {"online", "maintenance"}
AllBodies == [name : GwNames \cup {0}, addr : GwAddrs \cup {0},
              primary : {"no", "set", "unset"}, status : ByHand \cup {"no"}]

ASSUME GatewaysAssumption ==
  /\ GwNames \subseteq Nat \ {0} /\ 0 \notin GwAddrs /\ BlockedAddrs \subseteq GwAddrs
  /\ GwBodies \subseteq AllBodies
  /\ MaxGateways \in Nat /\ MaxProbes \in Nat /\ MaxEdits \in Nat

VARIABLES
  gws,       \* the rows, in order of id: [name, addr, primary, status] or GoneGw
  edits,     \* PUTs so far
  probing,   \* health requests under way
  probe,     \* prober -> the rows it read and has still to visit
  probes,    \* health requests so far
  outcomes,  \* address -> statuses a probe of it came to
  addrsOf,   \* id -> addresses the row has had
  setByHand  \* id -> statuses an administrator wrote to the row

gwVars == <<gws, edits, probing, probe, probes, outcomes, addrsOf, setByHand>>

GoneGw == [name |-> 0, addr |-> 0, primary |-> FALSE, status |-> "gone"]
GwIds == 1..Len(gws)
LiveGws == {i \in GwIds : gws[i] # GoneGw}
Taken(n) == \E i \in LiveGws : gws[i].name = n
NewGw(n, a, p) == [name |-> n, addr |-> a, primary |-> p, status |-> "unknown"]

\* UPDATE gateways SET is_primary = 0
NoneCleared == gws
Unset == [i \in GwIds |-> IF gws[i] = GoneGw THEN GoneGw ELSE [gws[i] EXCEPT !.primary = FALSE]]

Inserted(t, n, a, p) ==
  /\ gws' = Append(t, NewGw(n, a, p))
  /\ addrsOf' = [addrsOf EXCEPT ![Len(t) + 1] = @ \cup {a}]

\* GET: an empty table is seeded with a primary.
ListGateways ==
  /\ LiveGws = {}
  /\ Len(gws) < MaxGateways
  /\ \E n \in GwNames, a \in GwAddrs : Inserted(gws, n, a, TRUE)
  /\ UNCHANGED <<edits, probing, probe, probes, outcomes, setByHand>>

\* POST: the other primaries are unset before the insert, and stay unset when
\* the name turns out to be taken.
AddGateway(n, a, p) ==
  /\ Len(gws) < MaxGateways
  /\ LET cleared == IF p THEN Unset ELSE gws IN
     IF Taken(n) THEN gws' = cleared /\ UNCHANGED addrsOf ELSE Inserted(cleared, n, a, p)
  /\ UNCHANGED <<edits, probing, probe, probes, outcomes, setByHand>>

\* PUT takes whatever the body holds. Again the other primaries are unset first,
\* and a taken name fails the update that follows.
Updated(r, u) ==
  [name    |-> IF u.name = 0 THEN r.name ELSE u.name,
   addr    |-> IF u.addr = 0 THEN r.addr ELSE u.addr,
   primary |-> IF u.primary = "no" THEN r.primary ELSE u.primary = "set",
   status  |-> IF u.status = "no" THEN r.status ELSE u.status]
UpdateGateway(i, u) ==
  /\ i \in LiveGws
  /\ edits < MaxEdits
  /\ edits' = edits + 1
  /\ LET cleared == IF u.primary = "set" THEN Unset ELSE gws IN
     IF u.name # 0 /\ u.name # gws[i].name /\ Taken(u.name)
     THEN gws' = cleared /\ UNCHANGED <<addrsOf, setByHand>>
     ELSE /\ gws' = [cleared EXCEPT ![i] = Updated(cleared[i], u)]
          /\ addrsOf' = [addrsOf EXCEPT ![i] = @ \cup ({u.addr} \ {0})]
          /\ setByHand' = [setByHand EXCEPT ![i] = @ \cup ({u.status} \ {"no"})]
  /\ UNCHANGED <<probing, probe, probes, outcomes>>

\* DELETE refuses the primary.
RemoveGateway(i) ==
  /\ i \in LiveGws
  /\ ~gws[i].primary
  /\ gws' = [gws EXCEPT ![i] = GoneGw]
  /\ UNCHANGED <<edits, probing, probe, probes, outcomes, addrsOf, setByHand>>

\* POST health: the list as it is now, to be visited primaries first, then by name.
RowRead(i) == [id |-> i, name |-> gws[i].name, addr |-> gws[i].addr, primary |-> gws[i].primary]
StartProbe(p) ==
  /\ p \notin probing
  /\ probes < MaxProbes
  /\ probes' = probes + 1
  /\ probing' = probing \cup {p}
  /\ probe' = [probe EXCEPT ![p] = {RowRead(i) : i \in LiveGws}]
  /\ UNCHANGED <<gws, edits, outcomes, addrsOf, setByHand>>

ProbedBefore(g, h) ==
  \/ g.primary /\ ~h.primary
  \/ g.primary = h.primary /\ g.name < h.name
NextToProbe(p) == {g \in probe[p] : \A h \in probe[p] \ {g} : ProbedBefore(g, h)}

\* One fetch comes back, fails or runs into its 5 s: the result goes to the
\* row with that id, if it is still there. A blocked address is reported and
\* nothing written.
WrittenInOrder(i, s) ==
  LET here == SetToSortSeq(LiveGws, <) IN
  IF Len(here) = 0 THEN gws ELSE [gws EXCEPT ![here[1]].status = s]
WriteStatus(i, s) == IF i \in LiveGws THEN [gws EXCEPT ![i].status = s] ELSE gws
ProbeStatuses == {"online", "error", "offline"}
ProbeOne(p) ==
  /\ \E g \in NextToProbe(p) :
       /\ probe' = [probe EXCEPT ![p] = @ \ {g}]
       /\ IF g.addr \in BlockedAddrs
          THEN UNCHANGED <<gws, outcomes>>
          ELSE \E s \in ProbeStatuses :
                 /\ gws' = WriteStatus(g.id, s)
                 /\ outcomes' = [outcomes EXCEPT ![g.addr] = @ \cup {s}]
  /\ UNCHANGED <<edits, probing, probes, addrsOf, setByHand>>

EndProbe(p) ==
  /\ p \in probing
  /\ probe[p] = {}
  /\ probing' = probing \ {p}
  /\ UNCHANGED <<gws, edits, probe, probes, outcomes, addrsOf, setByHand>>

GwInit ==
  /\ gws = <<>> /\ edits = 0
  /\ probing = {} /\ probe = [p \in Probers |-> {}] /\ probes = 0
  /\ outcomes = [a \in GwAddrs |-> {}]
  /\ addrsOf = [i \in 1..MaxGateways |-> {}]
  /\ setByHand = [i \in 1..MaxGateways |-> {}]

GwNext ==
  \/ ListGateways
  \/ \E n \in GwNames, a \in GwAddrs, p \in BOOLEAN : AddGateway(n, a, p)
  \/ \E i \in GwIds : RemoveGateway(i) \/ \E u \in GwBodies : UpdateGateway(i, u)
  \/ \E p \in Probers : StartProbe(p) \/ ProbeOne(p) \/ EndProbe(p)

GwSpec == GwInit /\ [][GwNext]_gwVars

-----------------------------------------------------------------------------
\* At most one gateway is primary, whatever is added, set or removed.
OnePrimary == \A i, j \in LiveGws : gws[i].primary /\ gws[j].primary => i = j

\* The status of a gateway was written to it by an administrator, or is what a
\* probe came to at an address that is or was this gateway's own: gateways
\* added, moved and removed while a probe waits do not get each other's results.
ItsOwn(i, s) ==
  \/ s \in setByHand[i] \cup {"unknown"}
  \/ \E a \in addrsOf[i] : s \in outcomes[a]
StatusIsItsOwn == \A i \in LiveGws : ItsOwn(i, gws[i].status)

\* The table says of each gateway what is true of it.
GatewaysSafe == OnePrimary /\ StatusIsItsOwn
=============================================================================
