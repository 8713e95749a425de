----------------------------- MODULE RateLimiter -----------------------------
(***************************************************************************)
(* internal/server/ratelimit.go: the request limiter behind login,         *)
(* registration and sending, keyed by client address.  Allow runs under    *)
(* the limiter's mutex and reads the clock inside, so a call is one step.  *)
(*                                                                         *)
(* It counts in fixed windows: the first request after a window has ended  *)
(* opens the next one.                                                     *)
(***************************************************************************)
EXTENDS Naturals, FiniteSets

CONSTANTS
    Keys,      \* client addresses
    Limits,    \* the limits the five limiters may be configured with
    Window,    \* rateLimiter.window, in ticks of the clock
    LastTick,  \* bound: the last tick
    MaxCount,  \* bound: calls counted in one window
    NoEntry    \* counters has no entry for the key

ASSUME LimitsAssumption == Limits \subseteq Nat
ASSUME WindowAssumption == Window \in Nat /\ LastTick \in Nat /\ MaxCount \in Nat

\* rateEntry
Entry == [count : Nat \ {0}, reset : Nat]

ASSUME NoEntryAssumption == NoEntry \notin Entry

VARIABLES
    limit,     \* rateLimiter.limit
    counters,  \* rateLimiter.counters: key -> rateEntry or NoEntry
    now,       \* the clock
    reply,     \* the last call: its key and what Allow returned
    granted,   \* history: requests of the key allowed since its last window opened
    log        \* history: one element <<key, time, number in window>> per allowed request

limiterVars == <<limit, counters, now, reply, granted, log>>

-----------------------------------------------------------------------------
LimiterInit ==
    /\ limit \in Limits
    /\ counters = [k \in Keys |-> NoEntry]
    /\ now = 0
    /\ reply \in [key : Keys, ok : {TRUE}]
    /\ granted = [k \in Keys |-> 0]
    /\ log = {}

\* Mutant: the window ends one tick early.
ExpiredAtReset(e) == now >= e.reset

\* now.After(e.reset)
Expired(e) == now > e.reset

\* The key has an entry whose window is not over.
Open(k) == counters[k] # NoEntry /\ ~Expired(counters[k])

\* limit == 0 switches the guarded operation off.
Disabled(k) ==
    /\ limit = 0
    /\ reply' = [key |-> k, ok |-> FALSE]
    /\ UNCHANGED <<limit, counters, now, granted, log>>

\* No entry, or its window is over: drop every entry whose window is over, open a new
\* window for k and allow the request.
OpenWindow(k) ==
    /\ limit # 0
    /\ ~Open(k)
    /\ counters' = [j \in Keys |-> IF j = k THEN [count |-> 1, reset |-> now + Window]
                                   ELSE IF Open(j) THEN counters[j] ELSE NoEntry]
    /\ reply' = [key |-> k, ok |-> TRUE]
    /\ granted' = [granted EXCEPT ![k] = 1]
    /\ log' = log \cup {<<k, now, 1>>}
    /\ UNCHANGED <<limit, now>>

\* Mutant: one request too many.
WithinLimitPlusOne(n) == n <= limit + 1

\* Mutant: one request too few.
BelowLimit(n) == n < limit

\* entry.count <= rl.limit, after the increment.
WithinLimit(n) == n <= limit

\* entry.count++
Counted(k) == [count |-> counters[k].count + 1, reset |-> counters[k].reset]

\* The window is open: count the request, refused ones too, and compare.
CountRequest(k) ==
    /\ limit # 0
    /\ Open(k)
    /\ counters[k].count < MaxCount
    /\ counters' = [counters EXCEPT ![k] = Counted(k)]
    /\ LET ok == WithinLimit(counters[k].count + 1)
       IN  /\ reply' = [key |-> k, ok |-> ok]
           /\ granted' = [granted EXCEPT ![k] = IF ok THEN @ + 1 ELSE @]
           /\ log' = IF ok THEN log \cup {<<k, now, granted[k] + 1>>} ELSE log
    /\ UNCHANGED <<limit, now>>

Allow(k) == Disabled(k) \/ OpenWindow(k) \/ CountRequest(k)

Elapse ==
    /\ now < LastTick
    /\ now' = now + 1
    /\ UNCHANGED <<limit, counters, reply, granted, log>>

LimiterNext == Elapse \/ \E k \in Keys : Allow(k)

LimiterSpec == LimiterInit /\ [][LimiterNext]_limiterVars

-----------------------------------------------------------------------------
(* Properties.                                                             *)

\* Types of the limiter's fields.
LimiterTypeOK ==
    /\ limit \in Limits
    /\ counters \in [Keys -> Entry \cup {NoEntry}]
    /\ now \in Nat
    /\ reply \in [key : Keys, ok : BOOLEAN]
    /\ granted \in [Keys -> Nat]

\* A window never lets more than limit requests through, however the calls of other
\* addresses, which clean the map up, fall in between.
WindowQuota == \A k \in Keys : granted[k] <= limit

\* A request is refused only if its address has used the whole limit in the window that
\* is still open: counting refused requests costs nobody a request.
RefusedOnlyAtQuota == ~reply.ok => granted[reply.key] = limit

\* An open window is neither forgotten by the cleanup that another address triggers nor
\* extended by further requests: a refused client is served again once it is over.
OpenWindowKept ==
    [][\A k \in Keys :
          counters[k] # NoEntry /\ now <= counters[k].reset =>
              counters'[k] # NoEntry /\ counters'[k].reset = counters[k].reset]_limiterVars

\* Requests of k that were allowed from time t until Window ticks later.
AllowedFrom(k, t) == {g \in log : g[1] = k /\ g[2] >= t /\ g[2] <= t + Window}

\* Fixed windows do not bound every interval by limit, but by twice that: an interval of
\* the length of a window meets two of them.
TwiceLimitInAnyInterval ==
    \A k \in Keys : \A t \in 0 .. LastTick : Cardinality(AllowedFrom(k, t)) <= 2 * limit

==============================================================================
