--------------------------- MODULE Notifications ---------------------------
(***************************************************************************)
(* Notifications for agents: the rows, POST /api/notifications/deliver     *)
(* that sends them to agent sessions through OpenClaw, the daemon script   *)
(* that calls it every minute, and the handlers under api/notifications.   *)
(*                                                                         *)
(* A delivery reads a batch once, joined with the session keys, and then   *)
(* suspends in every send.  Rows are ordered by created_at; ids stand for  *)
(* that order.  Texts, read marks and the activity log are left out.       *)
(***************************************************************************)
EXTENDS Naturals, FiniteSets

CONSTANTS
    Recipients,      \* names of agents
    MaxNotes,        \* bound on notifications
    BatchLimit,      \* limit of a delivery
    Callers,         \* delivery requests that can be under way
    MaxSendFaults,   \* bound on failed sends, crashes and stops of the daemon
    DaemonAuthorized \* the daemon's requests pass the proxy

VARIABLES
    notes,       \* rows by id
    lastNote,
    keyed,       \* agents with a session key
    delivery,    \* delivery requests
    received,    \* how often an agent's session got a notification
    pulled,      \* notifications handed out by mark-delivered
    daemon,      \* the script: "stopped", "sleeping" or the request it waits for
    disturbed,   \* deliveries overlapped, or a send had an unknown outcome
    sendFaults

noteVars == <<notes, lastNote, keyed, delivery, received, pulled, daemon,
              disturbed, sendFaults>>

ASSUME NotificationsAssumption ==
    /\ MaxNotes \in Nat /\ BatchLimit \in Nat \ {0} /\ MaxSendFaults \in Nat
    /\ DaemonAuthorized \in BOOLEAN
---------------------------------------------------------------------------
NoDelivery == [pc |-> "idle", batch |-> {}, dry |-> FALSE]
Undelivered == {n \in DOMAIN notes : ~notes[n].delivered}

\* Fault: recipients without a session are put first.
BatchKeylessFirst(S) ==
    LET keyless == {n \in S : notes[n].to \notin keyed}
        before(n) == IF n \in keyless THEN {m \in keyless : m < n}
                     ELSE keyless \cup {m \in S : m < n}
    IN  {n \in S : Cardinality(before(n)) < BatchLimit}

\* The oldest undelivered rows, each with the key its agent has now.
Batch(S) == {n \in S : Cardinality({m \in S : m < n}) < BatchLimit}
WithKeys(batch) == {[id |-> n, key |-> notes[n].to \in keyed] : n \in batch}

Running(c) == delivery[c].pc # "idle"
Overlaps(c) == \E d \in Callers \ {c} : Running(d) /\ ~delivery[d].dry

\* The handler up to its query; filter is agent_filter.  Requests differ in
\* nothing else, so that any free place stands for a new one.
Free == {c \in Callers : ~Running(c) /\ daemon # c}
NewCall == CHOOSE c \in Free : TRUE
StartDelivery(c, filter, dry) ==
    /\ LET batch == Batch({n \in Undelivered : notes[n].to \in filter}) IN
         /\ batch # {}
         /\ delivery' = [delivery EXCEPT ![c] =
              [pc |-> "next", batch |-> WithKeys(batch), dry |-> dry]]
    /\ disturbed' = (disturbed \/ (~dry /\ Overlaps(c)))
    /\ UNCHANGED <<notes, lastNote, keyed, received, pulled, sendFaults>>

\* The row of the batch whose turn it is: the oldest.
Head1(c) == CHOOSE r \in delivery[c].batch : \A x \in delivery[c].batch : r.id <= x.id
Advance(c) ==
    LET rest == delivery[c].batch \ {Head1(c)} IN
    IF rest = {} THEN NoDelivery
    ELSE [delivery[c] EXCEPT !.pc = "next", !.batch = rest]

\* No session key, or a dry run: nothing is sent and nothing is marked.
SkipNote(c) ==
    /\ delivery[c].pc = "next" /\ (~Head1(c).key \/ delivery[c].dry)
    /\ delivery' = [delivery EXCEPT ![c] = Advance(c)]
    /\ UNCHANGED <<notes, lastNote, keyed, received, pulled, daemon, disturbed, sendFaults>>

SendNote(c) ==
    /\ delivery[c].pc = "next" /\ Head1(c).key /\ ~delivery[c].dry
    /\ delivery' = [delivery EXCEPT ![c].pc = "sending"]
    /\ UNCHANGED <<notes, lastNote, keyed, received, pulled, daemon, disturbed, sendFaults>>

Mark(S) == [n \in DOMAIN notes |->
              IF n \in S THEN [notes[n] EXCEPT !.delivered = TRUE] ELSE notes[n]]

\* Fault: the row is not marked.
MarkNothing(id) == notes
MarkSent(id) == Mark({id})

\* The command ends well: the row is marked, if it is still there.
SendEnds(c) ==
    /\ delivery[c].pc = "sending"
    /\ received' = [received EXCEPT ![Head1(c).id] = @ + 1]
    /\ notes' = MarkSent(Head1(c).id)
    /\ delivery' = [delivery EXCEPT ![c] = Advance(c)]
    /\ UNCHANGED <<lastNote, keyed, pulled, daemon, disturbed, sendFaults>>

\* Fault: errors on stderr are not looked at.
MarkDespite(id) == Mark({id})
MarkFailed(id) == notes

\* It fails, is killed after ten seconds, or writes an error: the message may
\* have reached the session all the same.  The row is tried again later.
SendFails(c) ==
    /\ delivery[c].pc = "sending" /\ sendFaults < MaxSendFaults
    /\ sendFaults' = sendFaults + 1
    /\ notes' = MarkFailed(Head1(c).id)
    /\ \E arrived \in BOOLEAN :
         /\ received' = IF arrived THEN [received EXCEPT ![Head1(c).id] = @ + 1]
                        ELSE received
         /\ disturbed' = (disturbed \/ arrived)
    /\ delivery' = [delivery EXCEPT ![c] = Advance(c)]
    /\ UNCHANGED <<lastNote, keyed, pulled, daemon>>

\* The server stops; commands it had started may still arrive.
ServerStops ==
    /\ \E c \in Callers : Running(c)
    /\ sendFaults < MaxSendFaults /\ sendFaults' = sendFaults + 1
    /\ \E arrived \in SUBSET {Head1(c).id : c \in {d \in Callers : delivery[d].pc = "sending"}} :
         /\ received' = [n \in DOMAIN received |->
                           IF n \in arrived THEN received[n] + 1 ELSE received[n]]
         /\ disturbed' = (disturbed \/ arrived # {})
    /\ delivery' = [c \in Callers |-> NoDelivery]
    /\ UNCHANGED <<notes, lastNote, keyed, pulled, daemon>>
---------------------------------------------------------------------------
(* The daemon.                                                             *)

\* check_daemon lets one daemon run; a stale pid file does not stop it.
StartDaemon ==
    /\ daemon = "stopped" /\ daemon' = "sleeping"
    /\ UNCHANGED <<notes, lastNote, keyed, delivery, received, pulled, disturbed, sendFaults>>

\* The request it waits for goes on in the server.
StopDaemon ==
    /\ daemon # "stopped" /\ sendFaults < MaxSendFaults
    /\ sendFaults' = sendFaults + 1
    /\ daemon' = "stopped"
    /\ UNCHANGED <<notes, lastNote, keyed, delivery, received, pulled, disturbed>>

\* A cycle of the loop: deliver_notifications with its limit and no filter.
\* Without credentials the proxy answers 401 and nothing happens.
DaemonCycle ==
    /\ daemon = "sleeping" /\ DaemonAuthorized
    /\ Free # {} /\ StartDelivery(NewCall, Recipients, FALSE)
    /\ daemon' = NewCall

\* curl returns: with the answer, or because the server has gone.
DaemonAnswered ==
    /\ daemon \in Callers /\ ~Running(daemon)
    /\ daemon' = "sleeping"
    /\ UNCHANGED <<notes, lastNote, keyed, delivery, received, pulled, disturbed, sendFaults>>

\* An operator or a script with an API key asks for a delivery.  One of the
\* places for requests stays free for the daemon.
OperatorDelivers(filter, dry) ==
    /\ Cardinality({c \in Callers : ~Running(c)}) > 1
    /\ StartDelivery(NewCall, filter, dry)
    /\ UNCHANGED daemon
---------------------------------------------------------------------------
(* The other handlers.                                                     *)

CreateNotification(to) ==
    /\ lastNote < MaxNotes /\ lastNote' = lastNote + 1
    /\ notes' = [n \in DOMAIN notes \cup {lastNote + 1} |->
                   IF n \in DOMAIN notes THEN notes[n]
                   ELSE [to |-> to, delivered |-> FALSE]]
    /\ UNCHANGED <<keyed, delivery, received, pulled, daemon, disturbed, sendFaults>>

\* DELETE with ids, or older than a time for one recipient.  What happened to
\* a deleted row is not observed any more.
DeleteNotes(S) ==
    /\ S # {}
    /\ notes' = [n \in DOMAIN notes \ S |-> notes[n]]
    /\ received' = [n \in DOMAIN received |-> IF n \in S THEN 0 ELSE received[n]]
    /\ pulled' = pulled \ S
    /\ UNCHANGED <<lastNote, keyed, delivery, daemon, disturbed, sendFaults>>

\* POST mark-delivered: an agent fetches what is waiting for it.
MarkDelivered(to) ==
    /\ LET waiting == {n \in Undelivered : notes[n].to = to} IN
         /\ waiting # {}
         /\ notes' = Mark(waiting) /\ pulled' = pulled \cup waiting
    /\ UNCHANGED <<lastNote, keyed, delivery, received, daemon, disturbed, sendFaults>>

\* An agent gets a session key.
GainKey(a) ==
    /\ a \notin keyed /\ keyed' = keyed \cup {a}
    /\ UNCHANGED <<notes, lastNote, delivery, received, pulled, daemon, disturbed, sendFaults>>
---------------------------------------------------------------------------
NoteInit ==
    /\ notes = <<>> /\ lastNote = 0 /\ keyed = {}
    /\ delivery = [c \in Callers |-> NoDelivery]
    /\ received = [n \in 1..MaxNotes |-> 0] /\ pulled = {}
    /\ daemon = "stopped"
    /\ disturbed = FALSE /\ sendFaults = 0

DeliveryStep(c) == SkipNote(c) \/ SendNote(c) \/ SendEnds(c)
DaemonStep == StartDaemon \/ DaemonCycle \/ DaemonAnswered

NoteNext ==
    \/ \E filter \in {Recipients} \cup {{a} : a \in Recipients}, dry \in BOOLEAN :
         OperatorDelivers(filter, dry)
    \/ \E c \in Callers : DeliveryStep(c) \/ SendFails(c)
    \/ ServerStops
    \/ DaemonStep \/ StopDaemon
    \/ \E a \in Recipients : CreateNotification(a) \/ MarkDelivered(a) \/ GainKey(a)
    \/ \E S \in {{n} : n \in DOMAIN notes}
              \cup {{n \in DOMAIN notes : notes[n].to = a} : a \in Recipients} :
         DeleteNotes(S)

NoteSpec == NoteInit /\ [][NoteNext]_noteVars

\* The daemon is kept running (it is a service), its loop goes on, and every
\* command ends: runOpenClaw kills it after ten seconds.
NoteFairness ==
    /\ WF_noteVars(DaemonStep)
    /\ \A c \in Callers : WF_noteVars(DeliveryStep(c))
NoteFairSpec == NoteSpec /\ NoteFairness
---------------------------------------------------------------------------
(* Properties.                                                             *)

\* A row is marked as delivered only when the session got the message or the
\* agent fetched it itself: a failed command, a server that stops between
\* send and mark, and a second delivery of the same row never lose one.
DeliveredMeansReceived ==
    \A n \in DOMAIN notes : notes[n].delivered => received[n] > 0 \/ n \in pulled

\* An agent is told twice only if two deliveries overlapped or a command had
\* an unknown outcome; batches of the daemon alone repeat nothing, and a dry
\* run sends nothing.
ToldOnce == ~disturbed => \A n \in DOMAIN received : received[n] <= 1

\* A row whose agent has a session is delivered, fetched or deleted, unless a
\* whole batch of older rows has no session to go to: those are never marked
\* and are read again by every batch.
Blocked(n) ==
    Cardinality({m \in Undelivered : m < n /\ notes[m].to \notin keyed}) >= BatchLimit
Waiting(n) == n \in Undelivered /\ notes[n].to \in keyed
WaitingIsDelivered == \A n \in 1..MaxNotes : Waiting(n) ~> (~Waiting(n) \/ Blocked(n))

\* Deliveries lose nothing and, left alone, repeat nothing.
DeliverySafe == DeliveredMeansReceived /\ ToldOnce
============================================================================
