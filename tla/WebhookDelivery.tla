-------------------------- MODULE WebhookDelivery --------------------------
(***************************************************************************)
(* Outbound webhooks: events fire deliveries, failed ones are retried by   *)
(* the scheduler's webhook_retry task with growing delays, and a webhook   *)
(* whose retries are exhausted is disabled by the circuit breaker.         *)
(*                                                                         *)
(* deliverWebhook suspends in fetch and then does all its bookkeeping in   *)
(* one go.  Deliveries of events run concurrently, those of a retry batch  *)
(* one after the other.  Time is abstracted: when the retry task runs, any *)
(* set of scheduled deliveries may have become due.                        *)
(***************************************************************************)
EXTENDS Naturals, FiniteSets

CONSTANTS
    Webhooks,      \* AUTOINCREMENT ids of the webhooks table
    Events,        \* occurrences of events on the server's event bus
    Matching,      \* pairs <<webhook, event>> the events column subscribes to
    MaxRetries,    \* MAX_RETRIES
    Keep,          \* rows kept per webhook, 200 in the code
    MaxRows,       \* bound on delivery attempts
    MaxAdminOps,   \* bound on operations of administrators
    MaxHookCrashes     \* bound on terminations of the server

ASSUME WebhooksAssumption ==
    /\ Matching \subseteq Webhooks \X Events
    /\ MaxRetries \in Nat \ {0} /\ Keep \in Nat \ {0}
    /\ MaxRows \in Nat /\ MaxAdminOps \in Nat /\ MaxHookCrashes \in Nat

VARIABLES
    webhook,   \* rows of webhooks: state, enabled, consecutive_failures
    deliveries, \* webhook_deliveries
    lastId,    \* id of the newest delivery row ever inserted
    flights,   \* suspended deliverWebhook calls
    batch,     \* rows the running retry task has still to send, as it read them
    fired,     \* events that were published
    promisedTo, \* pairs of an enabled, matching webhook and a published event
    adminOps, hookCrashes

hookVars == <<webhook, deliveries, lastId, flights, batch, fired, promisedTo, adminOps, hookCrashes>>

\* origin says who called deliverWebhook; only "event" and "batch" pass
\* allowRetry.  parent is the delivery that is retried, 0 for none.
Origins == {"event", "batch", "manual"}
Flight(w, e, attempt, parent, origin) ==
    [webhook |-> w, event |-> e, attempt |-> attempt, parent |-> parent,
     origin |-> origin]
Flights == [webhook : Webhooks, event : Events \cup {"test_ping"}, attempt : Nat,
            parent : Nat, origin : Origins]
DeliveryRows == [id : Nat, webhook : Webhooks, event : Events \cup {"test_ping"},
         attempt : Nat, parent : Nat, origin : Origins, ok : BOOLEAN,
         scheduled : BOOLEAN]

HookInit ==
    /\ webhook = [w \in Webhooks |-> [state |-> "none", enabled |-> FALSE,
                                      failures |-> 0]]
    /\ deliveries = {} /\ lastId = 0 /\ flights = {} /\ batch = {}
    /\ fired = {} /\ promisedTo = {} /\ adminOps = 0 /\ hookCrashes = 0

HookExists(w) == webhook[w].state = "exists"
Sending == \E f \in flights : f.origin = "batch"
AdminOp == adminOps < MaxAdminOps /\ adminOps' = adminOps + 1
---------------------------------------------------------------------------
(* /api/webhooks.                                                          *)

CreateWebhook(w) ==
    /\ webhook[w].state = "none"
    /\ webhook' = [webhook EXCEPT ![w] = [state |-> "exists", enabled |-> TRUE,
                                          failures |-> 0]]
    /\ UNCHANGED <<deliveries, lastId, flights, batch, fired, promisedTo, adminOps, hookCrashes>>

\* PUT with enabled and PUT with reset_circuit; the last SET of enabled wins.
UpdateWebhook(w, enabled, resetCircuit) ==
    /\ HookExists(w) /\ AdminOp
    /\ webhook' = [webhook EXCEPT
          ![w].enabled = enabled \/ resetCircuit,
          ![w].failures = IF resetCircuit THEN 0 ELSE @]
    /\ UNCHANGED <<deliveries, lastId, flights, batch, fired, promisedTo, hookCrashes>>

DeleteWebhook(w) ==
    /\ HookExists(w) /\ AdminOp
    /\ webhook' = [webhook EXCEPT ![w] = [state |-> "deleted", enabled |-> FALSE,
                                          failures |-> 0]]
    /\ deliveries' = {d \in deliveries : d.webhook # w}
    /\ UNCHANGED <<lastId, flights, batch, fired, promisedTo, hookCrashes>>
---------------------------------------------------------------------------
(* Sending.                                                                *)

\* fireWebhooksAsync: one delivery for every enabled webhook that matches.
Fire(e) ==
    /\ e \notin fired
    /\ fired' = fired \cup {e}
    /\ LET targets == {w \in Webhooks :
                         HookExists(w) /\ webhook[w].enabled /\ <<w, e>> \in Matching}
       IN  /\ flights' = flights \cup {Flight(w, e, 0, 0, "event") : w \in targets}
           /\ promisedTo' = promisedTo \cup {<<w, e>> : w \in targets}
    /\ UNCHANGED <<webhook, deliveries, lastId, batch, adminOps, hookCrashes>>

\* POST /api/webhooks/test and /retry: any webhook, any delivery of one.
TestWebhook(w) ==
    /\ HookExists(w) /\ AdminOp
    /\ flights' = flights \cup {Flight(w, "test_ping", 0, 0, "manual")}
    /\ UNCHANGED <<webhook, deliveries, lastId, batch, fired, promisedTo, hookCrashes>>

RetryManually(d) ==
    /\ d \in deliveries /\ AdminOp
    /\ flights' = flights \cup
         {Flight(d.webhook, d.event, d.attempt + 1, d.id, "manual")}
    /\ UNCHANGED <<webhook, deliveries, lastId, batch, fired, promisedTo, hookCrashes>>

RetryOf(d) == Flight(d.webhook, d.event, d.attempt + 1, d.id, "batch")

\* Fault: next_retry_at is cleared only once the retry was delivered.
ClearLater(due) == deliveries

ClearScheduled(due) ==
    {IF d \in due THEN [d EXCEPT !.scheduled = FALSE] ELSE d : d \in deliveries}

\* processWebhookRetries: rows of enabled webhooks that are due, at most 50,
\* are unscheduled, one is sent and the others wait for it, in the order of no
\* ORDER BY.  The scheduler starts the task only when its last run has ended.
ProcessWebhookRetries(due) ==
    /\ ~Sending
    /\ due # {}
    /\ \A d \in due : d.scheduled /\ webhook[d.webhook].enabled
    /\ deliveries' = ClearScheduled(due)
    /\ \E d \in due : /\ flights' = flights \cup {RetryOf(d)}
                      /\ batch' = due \ {d}
    /\ UNCHANGED <<webhook, lastId, fired, promisedTo, adminOps, hookCrashes>>
---------------------------------------------------------------------------
(* What deliverWebhook does once fetch has settled.                        *)

\* Faults: every attempt is followed by another, only the first one is.
RescheduleAlways(f, ok) == ~ok /\ f.origin # "manual"
RescheduleFirst(f, ok) == ~ok /\ f.origin # "manual" /\ f.attempt = 0

Reschedules(f, ok) ==
    ~ok /\ f.origin # "manual" /\ f.attempt < MaxRetries - 1

\* Fault: rows are inserted without the foreign key.
InsertRegardless(f) == TRUE

\* foreign_keys = ON refuses a row of a webhook that is gone, and with it
\* all that follows.
Inserts(f) == HookExists(f.webhook)

\* The newest rows of a webhook; one second holds one delivery.
Newest(w, rs) ==
    {d \in rs : Cardinality({x \in rs : x.webhook = w /\ x.id > d.id}) < Keep}

PruneDeliveries(w, rs) == {d \in rs : d.webhook # w \/ d \in Newest(w, rs)}

\* Fault: a success takes one failure off instead of all of them.
CountedDown(w, f, ok) ==
    [w EXCEPT !.failures = IF ok THEN @ - 1 ELSE @ + 1]

\* Circuit breaker: a success resets the count, a failure raises it, and the
\* last attempt of a chain disables a webhook whose count has got that far.
Counted(w, f, ok) ==
    IF f.origin = "manual" THEN w
    ELSE IF ok THEN [w EXCEPT !.failures = 0]
    ELSE [w EXCEPT !.failures = @ + 1,
                   !.enabled = @ /\ (\/ f.attempt < MaxRetries - 1
                                     \/ w.failures + 1 < MaxRetries)]

Record(f, ok) ==
    /\ Inserts(f)
    /\ lastId < MaxRows
    /\ lastId' = lastId + 1
    /\ deliveries' = PruneDeliveries(f.webhook, deliveries \cup
         {[id |-> lastId + 1, webhook |-> f.webhook, event |-> f.event,
           attempt |-> f.attempt, parent |-> f.parent, origin |-> f.origin,
           ok |-> ok, scheduled |-> Reschedules(f, ok)]})
    /\ webhook' = [webhook EXCEPT ![f.webhook] = Counted(@, f, ok)]

\* The call returns; the retry task goes on with the next row of its batch.
Settle(f, ok) ==
    /\ f \in flights
    /\ \/ Record(f, ok)
       \/ ~Inserts(f) /\ UNCHANGED <<deliveries, lastId, webhook>>
    /\ IF f.origin = "batch" /\ batch # {}
       THEN \E d \in batch : /\ flights' = (flights \ {f}) \cup {RetryOf(d)}
                             /\ batch' = batch \ {d}
       ELSE /\ flights' = flights \ {f}
            /\ UNCHANGED batch
    /\ UNCHANGED <<fired, promisedTo, adminOps, hookCrashes>>

HookServerCrash ==
    /\ hookCrashes < MaxHookCrashes
    /\ hookCrashes' = hookCrashes + 1
    /\ flights' = {} /\ batch' = {}
    /\ UNCHANGED <<webhook, deliveries, lastId, fired, promisedTo, adminOps>>
---------------------------------------------------------------------------
Admin == \E w \in Webhooks :
    \/ CreateWebhook(w) \/ DeleteWebhook(w) \/ TestWebhook(w)
    \/ \E enabled, reset \in BOOLEAN : UpdateWebhook(w, enabled, reset)

HookNext ==
    \/ Admin
    \/ \E d \in deliveries : RetryManually(d)
    \/ \E e \in Events : Fire(e)
    \/ \E due \in SUBSET deliveries : ProcessWebhookRetries(due)
    \/ \E f \in flights, ok \in BOOLEAN : Settle(f, ok)
    \/ HookServerCrash

\* The receiver's headers come within the 10 s of the abort timer and its
\* body, which no timer bounds, ends; the retry task runs every minute and
\* sooner or later finds every scheduled row due.
HookFairness ==
    /\ WF_hookVars(\E f \in flights, ok \in BOOLEAN : Settle(f, ok))
    /\ WF_hookVars(ProcessWebhookRetries(
         {d \in deliveries : d.scheduled /\ webhook[d.webhook].enabled}))

HookSpec == HookInit /\ [][HookNext]_hookVars
HookFairSpec == HookSpec /\ HookFairness
---------------------------------------------------------------------------
(* Properties.                                                             *)

\* DeliveryRows, suspended calls and counters keep their types.
HookTypeOK ==
    /\ webhook \in [Webhooks -> [state : {"none", "exists", "deleted"},
                                 enabled : BOOLEAN, failures : Nat]]
    /\ deliveries \subseteq DeliveryRows /\ lastId \in 0..MaxRows
    /\ flights \subseteq Flights /\ batch \subseteq DeliveryRows
    /\ fired \subseteq Events /\ promisedTo \subseteq Matching
    /\ adminOps \in 0..MaxAdminOps /\ hookCrashes \in 0..MaxHookCrashes

Automatic == {"event", "batch"}

\* "Clear next_retry_at immediately to prevent double-processing": a delivery
\* is retried automatically at most once, and is not scheduled while its
\* retry waits, is under way or is done.
RetriedOnce ==
    \A d \in deliveries :
        LET sent == {x \in deliveries : x.parent = d.id /\ x.origin = "batch"}
            going == {f \in flights : f.parent = d.id /\ f.origin = "batch"}
            waiting == {b \in batch : b.id = d.id}
        IN  Cardinality(sent) + Cardinality(going) + Cardinality(waiting)
              <= IF d.scheduled THEN 0 ELSE 1

\* A chain of automatic retries ends: it has at most MAX_RETRIES attempts,
\* however long the list of backoff delays.
ChainEnds == \A d \in deliveries : d.origin \in Automatic => d.attempt < MaxRetries

\* No delivery row belongs to a webhook that is gone, although deliveries
\* under way when it was deleted end after that.
NoOrphanRows == \A d \in deliveries : HookExists(d.webhook)

\* A crash forgets the retries of a batch, and pruning may delete a scheduled
\* one; nothing is pruned until a webhook has more than Keep deliveries.
Undisturbed == hookCrashes = 0 /\ lastId <= Keep

\* While the server stays up and nothing is pruned, no event is forgotten:
\* for every webhook it was due to, it is under way, delivered, waits for a
\* retry, or its last attempt failed.
Underway(w, e) ==
    \/ \E f \in flights : f.webhook = w /\ f.event = e /\ f.origin \in Automatic
    \/ \E b \in batch : b.webhook = w /\ b.event = e
    \/ \E d \in deliveries : d.webhook = w /\ d.event = e /\ d.scheduled
EventFinished(w, e) == \E d \in deliveries :
    /\ d.webhook = w /\ d.event = e /\ d.origin \in Automatic
    /\ d.ok \/ d.attempt = MaxRetries - 1
EventNotForgotten ==
    Undisturbed =>
    \A p \in promisedTo : HookExists(p[1]) => Underway(p[1], p[2]) \/ EventFinished(p[1], p[2])

\* Every event is in the end delivered to a webhook it was due to, or its
\* retries are exhausted, unless the webhook is disabled or deleted or the
\* server crashes or prunes.
EventSettles ==
    \A p \in Matching :
        (p \in promisedTo) ~> (EventFinished(p[1], p[2]) \/ ~webhook[p[1]].enabled \/ ~Undisturbed)

\* Deliveries through failures, retries, deletions and crashes: each retried
\* once, none without end, none forgotten, none without its webhook.
HookSafe == HookTypeOK /\ RetriedOnce /\ ChainEnds /\ NoOrphanRows /\ EventNotForgotten
============================================================================
