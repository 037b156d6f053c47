---------------------------- MODULE RateLimiter ----------------------------
(***************************************************************************)
(* lib/rate-limit.ts: the fixed-window counters in front of the handlers.  *)
(* A client reaches the server through proxies; each appends the address   *)
(* it was called from to x-forwarded-for, whose beginning the client may   *)
(* have filled in itself.                                                  *)
(***************************************************************************)
EXTENDS Naturals, Sequences, FiniteSets, FiniteSetsExt

CONSTANTS
    Clients,       \* addresses of clients
    TrustedProxies,\* MC_TRUSTED_PROXIES
    WindowMs,      \* length of a window
    MaxRequests,   \* requests of a window
    MaxNow         \* bound on the clock

VARIABLES
    clock,         \* Date.now()
    store,         \* entries by key
    passed,        \* the times of the requests let through, by client (observation)
    lastReply      \* the last request and its answer (observation)

rlVars == <<clock, store, passed, lastReply>>

ASSUME RateLimiterAssumption ==
    /\ WindowMs \in Nat /\ MaxRequests \in Nat \ {0} /\ MaxNow \in Nat
    /\ Clients \cap TrustedProxies = {}
---------------------------------------------------------------------------
NoReply == [client |-> "none", ok |-> TRUE]
NoEntry == [count |-> 0, resetAt |-> 0]
Keys == Clients \cup TrustedProxies \cup {"unknown"}

\* What arrives: a forged beginning, the client, the proxies behind the first.
Chains(c) == {<<c>>} \cup {<<f, c>> : f \in Clients}
             \cup {<<c, p>> : p \in TrustedProxies}

\* The rightmost address that is not a trusted proxy, where any is trusted;
\* otherwise x-real-ip, which the modelled proxies do not set.
ExtractClientIp(chain) ==
    LET untrusted == {i \in DOMAIN chain : chain[i] \notin TrustedProxies}
    IN  IF TrustedProxies # {} /\ untrusted # {} THEN chain[Max(untrusted)] ELSE "unknown"

\* The critical limiter of the login is never switched off.
Pass(c) == /\ passed' = [passed EXCEPT ![c] = Append(@, clock)]
           /\ lastReply' = [client |-> c, ok |-> TRUE]

\* Fault: a window that has just ended is counted on.
NewWindowLate(key) == store[key] = NoEntry \/ clock > store[key].resetAt + 1
NewWindow(key) == store[key] = NoEntry \/ clock > store[key].resetAt

\* Refusals of a window are not counted: the count stops at MaxRequests + 1.
CheckRateLimit(c, chain) ==
    /\ LET key == ExtractClientIp(chain) IN
         IF NewWindow(key)
         THEN /\ store' = [store EXCEPT ![key] =
                             [count |-> 1, resetAt |-> clock + WindowMs]]
              /\ Pass(c)
         ELSE /\ store' = [store EXCEPT ![key].count = Min({@, MaxRequests}) + 1]
              /\ IF store[key].count + 1 > MaxRequests
                 THEN /\ lastReply' = [client |-> c, ok |-> FALSE]
                      /\ UNCHANGED passed
                 ELSE Pass(c)
    /\ UNCHANGED clock

\* Fault: the cleanup empties the map.
ForgetAll == [k \in Keys |-> NoEntry]
Swept == [k \in Keys |-> IF clock > store[k].resetAt THEN NoEntry ELSE store[k]]

\* The interval of a minute, at any time relative to the windows.
Cleanup ==
    /\ store' = Swept /\ store' # store
    /\ lastReply' = NoReply
    /\ UNCHANGED <<clock, passed>>

ClockTick ==
    /\ clock < MaxNow /\ clock' = clock + 1
    /\ lastReply' = NoReply
    /\ UNCHANGED <<store, passed>>

RlInit ==
    /\ clock = 0
    /\ store = [k \in Keys |-> NoEntry]
    /\ passed = [c \in Clients |-> <<>>]
    /\ lastReply = NoReply

RlNext ==
    \/ \E c \in Clients : \E chain \in Chains(c) : CheckRateLimit(c, chain)
    \/ Cleanup
    \/ ClockTick

RlSpec == RlInit /\ [][RlNext]_rlVars
---------------------------------------------------------------------------
(* Properties.                                                             *)

PassedIn(c, from, to) == {i \in DOMAIN passed[c] : from <= passed[c][i] /\ passed[c][i] <= to}
Within(c, from, to) == Cardinality(PassedIn(c, from, to))

\* Whatever a client writes into x-forwarded-for and whenever the cleanup
\* runs, a stretch as long as a window lets at most two windows' worth of its
\* requests through (a fixed window admits a burst at each side of its edge).
RateBounded ==
    \A c \in Clients, t \in 0..MaxNow : Within(c, t, t + WindowMs) <= 2 * MaxRequests

\* Behind trusted proxies a client is refused only when it has itself used up a
\* window: requests of other clients, and its own of more than a window ago, do
\* not count.  Without them all clients are "unknown" and share a window.
RefusedForItsOwn ==
    TrustedProxies # {} /\ ~lastReply.ok => \E from \in 0..clock :
        /\ from + WindowMs >= clock
        /\ Within(lastReply.client, from, clock) >= MaxRequests

\* The limiter counts neither too little nor too much.
RateLimitSafe == RateBounded /\ RefusedForItsOwn
============================================================================
