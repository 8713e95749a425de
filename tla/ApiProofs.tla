----------------------------- MODULE ApiProofs ------------------------------
(***************************************************************************)
(* What the HTTP API promises its callers, of two components it uses: the  *)
(* limiter's quota for every limit, window length and number of addresses, *)
(* and how far the pages of a conversation can be wrong, for tables, limits *)
(* and conversations of any size.                                          *)
(***************************************************************************)
EXTENDS RateLimiter, History, FiniteSetTheorems, TLAPS

-----------------------------------------------------------------------------
(***************************************************************************)
(* RateLimiter.                                                            *)
(***************************************************************************)

\* While an entry exists, its count tells how many requests were allowed: all of them up
\* to the limit. WindowQuota alone does not say how count and history are related.
CountInv ==
    \A k \in Keys :
        counters[k] # NoEntry =>
            granted[k] = IF counters[k].count <= limit THEN counters[k].count ELSE limit

LimiterInv == LimiterTypeOK /\ WindowQuota /\ RefusedOnlyAtQuota /\ CountInv

LEMMA LimiterInvInit == LimiterInit => LimiterInv
<1> SUFFICES ASSUME LimiterInit
             PROVE  LimiterInv
  OBVIOUS
<1>1. LimiterTypeOK /\ CountInv
  BY DEF LimiterInit, LimiterTypeOK, CountInv
<1>2. WindowQuota
  BY LimitsAssumption DEF LimiterInit, WindowQuota
<1>3. RefusedOnlyAtQuota
  BY DEF LimiterInit, RefusedOnlyAtQuota
<1> QED
  BY <1>1, <1>2, <1>3 DEF LimiterInv

LEMMA DisabledStep ==
    ASSUME LimiterInv, NEW k \in Keys, Disabled(k)
    PROVE  LimiterInv'
BY LimitsAssumption DEF Disabled, LimiterInv, LimiterTypeOK, WindowQuota, RefusedOnlyAtQuota, CountInv

LEMMA OpenWindowStep ==
    ASSUME LimiterInv, NEW k \in Keys, OpenWindow(k)
    PROVE  LimiterInv'
<1> DEFINE e == [count |-> 1, reset |-> now + Window]
<1>1. e \in Entry
  BY WindowAssumption DEF Entry, LimiterInv, LimiterTypeOK
<1>2. LimiterTypeOK'
  BY <1>1 DEF OpenWindow, LimiterInv, LimiterTypeOK
<1>3. limit \in Nat /\ limit >= 1
  BY LimitsAssumption DEF OpenWindow, LimiterInv, LimiterTypeOK
<1>4. WindowQuota' /\ RefusedOnlyAtQuota'
  BY <1>3 DEF OpenWindow, LimiterInv, LimiterTypeOK, WindowQuota, RefusedOnlyAtQuota
<1>5. CountInv'
  BY <1>3 DEF OpenWindow, Open, LimiterInv, LimiterTypeOK, CountInv
<1> QED
  BY <1>2, <1>4, <1>5 DEF LimiterInv

LEMMA CountRequestStep ==
    ASSUME LimiterInv, NEW k \in Keys, CountRequest(k)
    PROVE  LimiterInv'
<1> DEFINE n == counters[k].count
<1>1. counters[k] \in Entry /\ n \in Nat \ {0} /\ limit \in Nat /\ granted[k] \in Nat
  BY LimitsAssumption DEF CountRequest, Open, LimiterInv, LimiterTypeOK, Entry
<1>2. granted[k] = IF n <= limit THEN n ELSE limit
  BY DEF CountRequest, Open, LimiterInv, CountInv
<1>3. Counted(k) \in Entry /\ Counted(k).count = n + 1
  BY <1>1 DEF Counted, Entry
<1> DEFINE ok == WithinLimit(n + 1)
<1>4. /\ counters' = [counters EXCEPT ![k] = Counted(k)]
      /\ reply' = [key |-> k, ok |-> ok]
      /\ granted' = [granted EXCEPT ![k] = IF ok THEN granted[k] + 1 ELSE granted[k]]
      /\ UNCHANGED <<limit, now>>
  BY DEF CountRequest
<1>5. /\ reply'.key = k /\ reply'.ok = ok
      /\ reply' \in [key : Keys, ok : BOOLEAN]
  BY <1>4 DEF WithinLimit
<1>6. granted'[k] = IF n + 1 <= limit THEN n + 1 ELSE limit
  BY <1>1, <1>2, <1>4 DEF WithinLimit, LimiterInv, LimiterTypeOK
<1>7. \A j \in Keys \ {k} : granted'[j] = granted[j] /\ counters'[j] = counters[j]
  BY <1>4 DEF LimiterInv, LimiterTypeOK
<1>8. LimiterTypeOK'
  BY <1>1, <1>3, <1>4, <1>5 DEF LimiterInv, LimiterTypeOK
<1>9. WindowQuota'
  BY <1>1, <1>4, <1>6, <1>7 DEF LimiterInv, WindowQuota
<1>10. RefusedOnlyAtQuota'
  BY <1>1, <1>4, <1>5, <1>6 DEF RefusedOnlyAtQuota, WithinLimit
<1>11. CountInv'
  BY <1>1, <1>3, <1>4, <1>6, <1>7 DEF LimiterInv, LimiterTypeOK, CountInv
<1> QED
  BY <1>8, <1>9, <1>10, <1>11 DEF LimiterInv

LEMMA LimiterInvStep == LimiterInv /\ [LimiterNext]_limiterVars => LimiterInv'
<1> SUFFICES ASSUME LimiterInv, [LimiterNext]_limiterVars
             PROVE  LimiterInv'
  OBVIOUS
<1>1. CASE Elapse
  BY <1>1 DEF Elapse, LimiterInv, LimiterTypeOK, WindowQuota, RefusedOnlyAtQuota, CountInv
<1>2. CASE UNCHANGED limiterVars
  BY <1>2 DEF limiterVars, LimiterInv, LimiterTypeOK, WindowQuota, RefusedOnlyAtQuota, CountInv
<1> QED
  BY <1>1, <1>2, DisabledStep, OpenWindowStep, CountRequestStep DEF LimiterNext, Allow

\* For every limit and window: no window lets more than limit requests of an address
\* through, and none is refused before the limit is used up.
THEOREM Quota == LimiterSpec => [](WindowQuota /\ RefusedOnlyAtQuota)
<1>1. LimiterInv => WindowQuota /\ RefusedOnlyAtQuota
  BY DEF LimiterInv
<1> QED
  BY <1>1, LimiterInvInit, LimiterInvStep, PTL DEF LimiterSpec

\* No call, of whichever address, forgets or prolongs a window that is still open.
THEOREM WindowKept == LimiterSpec => OpenWindowKept
<1> DEFINE Kept == \A k \in Keys :
                      counters[k] # NoEntry /\ now <= counters[k].reset =>
                          counters'[k] # NoEntry /\ counters'[k].reset = counters[k].reset
<1>1. LimiterInv /\ [LimiterNext]_limiterVars => [Kept]_limiterVars
  <2> SUFFICES ASSUME LimiterInv, LimiterNext
               PROVE  Kept
    BY DEF limiterVars
  <2>1. \A k \in Keys : counters[k] # NoEntry => counters[k].reset \in Nat /\ now \in Nat
    BY DEF LimiterInv, LimiterTypeOK, Entry
  <2>2. CASE Elapse
    BY <2>2 DEF Elapse
  <2>3. ASSUME NEW k \in Keys, Disabled(k)
        PROVE  Kept
    BY <2>3 DEF Disabled
  <2>4. ASSUME NEW k \in Keys, OpenWindow(k)
        PROVE  Kept
    BY <2>1, <2>4 DEF OpenWindow, Open, Expired
  <2>5. ASSUME NEW k \in Keys, CountRequest(k)
        PROVE  Kept
    <3>1. Counted(k) # NoEntry /\ Counted(k).reset = counters[k].reset
      BY <2>5, NoEntryAssumption DEF CountRequest, Open, Counted, LimiterInv, LimiterTypeOK, Entry
    <3> QED
      BY <2>5, <3>1 DEF CountRequest, LimiterInv, LimiterTypeOK
  <2> QED
    BY <2>2, <2>3, <2>4, <2>5 DEF LimiterNext, Allow
<1> QED
  BY <1>1, LimiterInvInit, LimiterInvStep, PTL DEF LimiterSpec, OpenWindowKept

-----------------------------------------------------------------------------
(* Two windows in any interval.                                            *)

\* The windows that k has opened, by the time of their first request.
Starts(k) == {s \in Nat : <<k, s, 1>> \in log}

\* The request g was allowed in the window that began at s.
In(g, s) == s <= g[2] /\ g[2] <= s + Window

\* Every allowed request of k is in a window of k, where its number is its own.
LogInv ==
    /\ log \subseteq Keys \X Nat \X Nat
    /\ \A g \in log : g[3] >= 1 /\ g[3] <= limit /\ \E s \in Starts(g[1]) : In(g, s)
    /\ \A k \in Keys : \A r, s \in Starts(k) : r < s => r + Window < s
    /\ \A g, h \in log : g[1] = h[1] /\ g[3] = h[3] =>
          \A s \in Starts(g[1]) : In(g, s) /\ In(h, s) => g = h

\* The entry of k is its newest window, and granted the last number given out in it; without
\* an entry every window of k is over.
EntryInv ==
    \A k \in Keys :
        IF counters[k] = NoEntry
        THEN \A s \in Starts(k) : s + Window < now
        ELSE \E s \in Starts(k) :
                /\ counters[k].reset = s + Window
                /\ s <= now
                /\ \A r \in Starts(k) : r <= s
                /\ \A g \in log : g[1] = k /\ In(g, s) => g[3] <= granted[k]

IntervalInv == LimiterInv /\ LogInv /\ EntryInv

LEMMA IntervalInit == LimiterInit => IntervalInv
BY LimiterInvInit DEF LimiterInit, IntervalInv, LogInv, EntryInv, Starts

\* What the invariants say of a window of k whose entry is there.
LEMMA NewestWindow ==
    ASSUME IntervalInv, NEW k \in Keys, counters[k] # NoEntry
    PROVE  /\ counters[k].reset \in Nat /\ now \in Nat /\ Window \in Nat
           /\ ~Open(k) => \A s \in Starts(k) : s + Window < now
<1>1. counters[k] \in Entry /\ now \in Nat /\ Window \in Nat
  BY WindowAssumption DEF IntervalInv, LimiterInv, LimiterTypeOK
<1>2. counters[k].reset \in Nat
  BY <1>1 DEF Entry
<1>3. PICK s \in Starts(k) : counters[k].reset = s + Window /\ \A r \in Starts(k) : r <= s
  BY DEF IntervalInv, EntryInv
<1>4. \A r \in Starts(k) : r \in Nat
  BY DEF Starts
<1>5. ~Open(k) => now > counters[k].reset
  BY DEF Open, Expired
<1> QED
  BY <1>1, <1>2, <1>3, <1>4, <1>5

\* A window is opened when the earlier ones of its address are over.
LEMMA OpenWindowLog ==
    ASSUME IntervalInv, NEW k \in Keys, OpenWindow(k)
    PROVE  LogInv' /\ EntryInv'
<1> DEFINE e == [count |-> 1, reset |-> now + Window]
           new == <<k, now, 1>>
<1>1. now \in Nat /\ Window \in Nat /\ limit \in Nat /\ limit >= 1
  BY LimitsAssumption, WindowAssumption DEF IntervalInv, LimiterInv, LimiterTypeOK, OpenWindow
<1>2. /\ counters' = [j \in Keys |-> IF j = k THEN e ELSE IF Open(j) THEN counters[j] ELSE NoEntry]
      /\ granted' = [granted EXCEPT ![k] = 1]
      /\ log' = log \cup {new}
      /\ limit' = limit /\ now' = now
  BY DEF OpenWindow
<1>3. e \in Entry /\ e # NoEntry /\ e.reset = now + Window
  BY <1>1, NoEntryAssumption DEF Entry
<1>4. new[1] = k /\ new[2] = now /\ new[3] = 1 /\ new \in Keys \X Nat \X Nat
  BY <1>1
<1> HIDE DEF e, new
<1>5. \A j \in Keys : ~Open(j) => \A s \in Starts(j) : s + Window < now
  BY NewestWindow DEF Open, IntervalInv, EntryInv
<1>6. Starts(k)' = Starts(k) \cup {now} /\ \A j \in Keys \ {k} : Starts(j)' = Starts(j)
  BY <1>1, <1>2 DEF Starts, new
<1>7. \A s \in Starts(k) : s \in Nat /\ s + Window < now
  BY <1>5 DEF OpenWindow, Starts
<1>8. ASSUME NEW g \in log, g[1] = k
      PROVE  ~In(g, now)
  <2>1. PICK s \in Starts(k) : In(g, s)
    BY <1>8 DEF IntervalInv, LogInv
  <2> QED
    BY <1>1, <1>7, <2>1 DEF In, IntervalInv, LogInv
<1>9. In(new, now) /\ \A s \in Starts(k) : ~In(new, s)
  BY <1>1, <1>4, <1>7 DEF In
<1>10. LogInv'
  <2>1. (log \subseteq Keys \X Nat \X Nat)'
    BY <1>2, <1>4 DEF IntervalInv, LogInv
  <2>2. (\A g \in log : g[3] >= 1 /\ g[3] <= limit /\ \E s \in Starts(g[1]) : In(g, s))'
    <3>1. ASSUME NEW g \in log
          PROVE  g[3] >= 1 /\ g[3] <= limit /\ \E s \in Starts(g[1])' : In(g, s)
      <4>1. g[1] \in Keys /\ Starts(g[1]) \subseteq Starts(g[1])'
        BY <1>6 DEF IntervalInv, LogInv
      <4> QED
        BY <4>1 DEF IntervalInv, LogInv
    <3>2. new[3] >= 1 /\ new[3] <= limit /\ \E s \in Starts(k)' : In(new, s)
      BY <1>1, <1>4, <1>6, <1>9
    <3>3. ASSUME NEW g \in log'
          PROVE  g[3] >= 1 /\ g[3] <= limit /\ \E s \in Starts(g[1])' : In(g, s)
      BY <1>2, <1>4, <3>1, <3>2
    <3> QED
      BY <1>2, <3>3 DEF In
  <2>3. (\A j \in Keys : \A r, s \in Starts(j) : r < s => r + Window < s)'
    <3>1. \A r, s \in Starts(k)' : r < s => r + Window < s
      BY <1>1, <1>6, <1>7 DEF IntervalInv, LogInv
    <3> QED
      BY <1>6, <3>1 DEF IntervalInv, LogInv
  <2>4. (\A g, h \in log : g[1] = h[1] /\ g[3] = h[3] =>
           \A s \in Starts(g[1]) : In(g, s) /\ In(h, s) => g = h)'
    <3> SUFFICES ASSUME NEW g \in log', NEW h \in log', g[1] = h[1], g[3] = h[3],
                        NEW s \in Starts(g[1])', In(g, s), In(h, s)
                 PROVE  g = h
      BY DEF In
    <3>1. CASE g \in log /\ h \in log
      <4>1. s \in Starts(g[1])
        BY <1>6, <1>8, <3>1 DEF IntervalInv, LogInv
      <4> QED
        BY <3>1, <4>1 DEF IntervalInv, LogInv
    <3>2. CASE g = new /\ h \in log
      BY <1>4, <1>6, <1>8, <1>9, <3>2
    <3>3. CASE h = new /\ g \in log
      BY <1>4, <1>6, <1>8, <1>9, <3>3
    <3> QED
      BY <1>2, <3>1, <3>2, <3>3
  <2> QED
    BY <2>1, <2>2, <2>3, <2>4 DEF LogInv
<1>11. EntryInv'
  <2> SUFFICES ASSUME NEW j \in Keys
               PROVE  IF counters'[j] = NoEntry
                      THEN \A s \in Starts(j)' : s + Window < now
                      ELSE \E s \in Starts(j)' :
                              /\ counters'[j].reset = s + Window
                              /\ s <= now
                              /\ \A r \in Starts(j)' : r <= s
                              /\ \A g \in log' : g[1] = j /\ In(g, s) => g[3] <= granted'[j]
    BY <1>2 DEF EntryInv, In
  <2>1. CASE j = k
    <3>1. counters'[j] = e /\ granted'[j] = 1
      BY <1>2, <2>1 DEF IntervalInv, LimiterInv, LimiterTypeOK
    <3>2. \A r \in Starts(j)' : r <= now
      BY <1>1, <1>6, <1>7, <2>1
    <3>3. \A g \in log' : g[1] = j /\ In(g, now) => g[3] <= 1
      BY <1>2, <1>4, <1>8, <2>1
    <3> QED
      BY <1>1, <1>3, <1>6, <2>1, <3>1, <3>2, <3>3
  <2>2. CASE j # k /\ ~Open(j)
    BY <1>2, <1>5, <1>6, <2>2
  <2>3. CASE j # k /\ Open(j)
    <3>1. counters'[j] = counters[j] /\ counters[j] # NoEntry /\ granted'[j] = granted[j]
      BY <1>2, <2>3 DEF Open, IntervalInv, LimiterInv, LimiterTypeOK
    <3> QED
      BY <1>2, <1>4, <1>6, <2>3, <3>1 DEF IntervalInv, EntryInv
  <2> QED
    BY <2>1, <2>2, <2>3
<1> QED
  BY <1>10, <1>11

\* A further request is in the newest window, and its number is the next one there.
LEMMA CountRequestLog ==
    ASSUME IntervalInv, NEW k \in Keys, CountRequest(k)
    PROVE  LogInv' /\ EntryInv'
<1> DEFINE n == counters[k].count
           m == granted[k] + 1
           new == <<k, now, m>>
<1>1. /\ counters[k] \in Entry /\ n \in Nat \ {0} /\ counters[k].reset \in Nat
      /\ limit \in Nat /\ granted[k] \in Nat /\ now \in Nat /\ Window \in Nat
  BY LimitsAssumption, WindowAssumption DEF CountRequest, Open, IntervalInv, LimiterInv, LimiterTypeOK, Entry
<1>2. /\ counters' = [counters EXCEPT ![k] = Counted(k)]
      /\ limit' = limit /\ now' = now
      /\ \/ n + 1 <= limit /\ log' = log \cup {new} /\ granted' = [granted EXCEPT ![k] = m]
         \/ log' = log /\ granted' = granted
  <2>1. granted = [granted EXCEPT ![k] = granted[k]]
    BY DEF IntervalInv, LimiterInv, LimiterTypeOK
  <2> QED
    BY <2>1 DEF CountRequest, WithinLimit
<1>3. /\ Counted(k) # NoEntry /\ Counted(k).reset = counters[k].reset
      /\ counters[k] # NoEntry /\ now <= counters[k].reset
  BY <1>1, NoEntryAssumption DEF Counted, Entry, CountRequest, Open, Expired
<1>4. PICK s \in Starts(k) :
        /\ counters[k].reset = s + Window
        /\ s <= now
        /\ \A r \in Starts(k) : r <= s
        /\ \A g \in log : g[1] = k /\ In(g, s) => g[3] <= granted[k]
  BY <1>3 DEF IntervalInv, EntryInv
<1>5. s \in Nat /\ \A r \in Starts(k) : r \in Nat /\ (r = s \/ r + Window < s)
  BY <1>1, <1>4 DEF Starts, IntervalInv, LogInv
<1>6. \A j \in Keys \ {k} : counters'[j] = counters[j] /\ granted'[j] = granted[j]
  BY <1>2 DEF IntervalInv, LimiterInv, LimiterTypeOK
<1>7. counters'[k] = Counted(k)
  BY <1>2 DEF IntervalInv, LimiterInv, LimiterTypeOK
<1>8. CASE log' = log /\ granted' = granted
  <2>1. \A j \in Keys : Starts(j)' = Starts(j)
    BY <1>8 DEF Starts
  <2>2. LogInv'
    BY <1>2, <1>8, <2>1 DEF IntervalInv, LogInv, In, Starts
  <2>3. \A j \in Keys : /\ counters'[j] = NoEntry <=> counters[j] = NoEntry
                        /\ counters[j] # NoEntry => counters'[j].reset = counters[j].reset
    BY <1>3, <1>6, <1>7
  <2> QED
    BY <1>2, <1>8, <2>1, <2>2, <2>3 DEF IntervalInv, EntryInv, In
<1>9. CASE n + 1 <= limit /\ log' = log \cup {new} /\ granted' = [granted EXCEPT ![k] = m]
  <2>1. granted[k] = n /\ m \in Nat /\ m # 1 /\ m >= 1 /\ m <= limit
    BY <1>1, <1>3, <1>9 DEF IntervalInv, LimiterInv, CountInv
  <2>2. new[1] = k /\ new[2] = now /\ new[3] = m /\ new \in Keys \X Nat \X Nat
    BY <1>1, <2>1
  <2>3. granted'[k] = m
    BY <1>9 DEF IntervalInv, LimiterInv, LimiterTypeOK
  <2>4. \A j \in Keys : Starts(j)' = Starts(j)
    BY <1>9, <2>1 DEF Starts
  <2> HIDE DEF new, m
  <2>5. In(new, s) /\ \A r \in Starts(k) : In(new, r) => r = s
    BY <1>1, <1>3, <1>4, <1>5, <2>2 DEF In
  <2>6. LogInv'
    <3>1. log' \subseteq Keys \X Nat \X Nat
      BY <1>9, <2>2 DEF IntervalInv, LogInv
    <3>2. ASSUME NEW g \in log'
          PROVE  g[3] >= 1 /\ g[3] <= limit /\ \E r \in Starts(g[1])' : In(g, r)
      <4>1. CASE g \in log
        BY <2>4, <4>1 DEF IntervalInv, LogInv
      <4>2. CASE g = new
        BY <2>1, <2>2, <2>4, <2>5, <4>2
      <4> QED
        BY <1>9, <4>1, <4>2
    <3>3. \A j \in Keys : \A q, r \in Starts(j)' : q < r => q + Window < r
      BY <2>4 DEF IntervalInv, LogInv
    <3>4. ASSUME NEW g \in log', NEW h \in log', g[1] = h[1], g[3] = h[3],
                 NEW r \in Starts(g[1])', In(g, r), In(h, r)
          PROVE  g = h
      <4>1. g[1] \in Keys /\ r \in Starts(g[1])
        BY <2>4, <3>1, <3>4
      <4>2. CASE g \in log /\ h \in log
        BY <3>4, <4>1, <4>2 DEF IntervalInv, LogInv
      <4>3. ASSUME NEW x \in log, x[1] = k, x[3] = m, In(x, r), In(new, r), r \in Starts(k)
            PROVE  FALSE
        BY <1>1, <1>4, <2>5, <4>3 DEF m
      <4> QED
        BY <1>9, <2>2, <3>4, <4>1, <4>2, <4>3
    <3> QED
      BY <1>2, <3>1, <3>2, <3>3, <3>4 DEF LogInv, In
  <2>7. EntryInv'
    <3> SUFFICES ASSUME NEW j \in Keys
                 PROVE  IF counters'[j] = NoEntry
                        THEN \A r \in Starts(j) : r + Window < now
                        ELSE \E r \in Starts(j) :
                                /\ counters'[j].reset = r + Window
                                /\ r <= now
                                /\ \A q \in Starts(j) : q <= r
                                /\ \A g \in log' : g[1] = j /\ In(g, r) => g[3] <= granted'[j]
      BY <1>2, <2>4 DEF EntryInv, In
    <3>1. CASE j = k
      <4>1. \A g \in log' : g[1] = k /\ In(g, s) => g[3] <= m
        <5>1. \A g \in log : g[3] \in Nat
          BY DEF IntervalInv, LogInv
        <5> QED
          BY <1>1, <1>4, <1>9, <2>1, <2>2, <5>1 DEF m
      <4> QED
        BY <1>3, <1>4, <1>7, <2>3, <3>1, <4>1
    <3>2. CASE j # k
      BY <1>6, <1>9, <2>2, <3>2 DEF IntervalInv, EntryInv
    <3> QED
      BY <3>1, <3>2
  <2> QED
    BY <2>6, <2>7
<1> QED
  BY <1>2, <1>8, <1>9

LEMMA IntervalStep == IntervalInv /\ [LimiterNext]_limiterVars => IntervalInv'
<1> SUFFICES ASSUME IntervalInv, [LimiterNext]_limiterVars
             PROVE  LogInv' /\ EntryInv'
  BY LimiterInvStep DEF IntervalInv
<1>1. CASE Elapse
  <2>1. now \in Nat /\ Window \in Nat /\ \A k \in Keys : Starts(k) \subseteq Nat
    BY WindowAssumption DEF IntervalInv, LimiterInv, LimiterTypeOK, Starts
  <2>2. LogInv'
    BY <1>1 DEF Elapse, IntervalInv, LogInv, In, Starts
  <2>3. \A k \in Keys : Starts(k)' = Starts(k)
    BY <1>1 DEF Elapse, Starts
  <2>4. \A k \in Keys : \A s \in Starts(k) :
          (s + Window < now => s + Window < now + 1) /\ (s <= now => s <= now + 1)
    BY <2>1
  <2> QED
    BY <1>1, <2>2, <2>3, <2>4 DEF Elapse, IntervalInv, EntryInv, In
<1>2. ASSUME NEW k \in Keys, Disabled(k)
      PROVE  LogInv' /\ EntryInv'
  BY <1>2 DEF Disabled, IntervalInv, LogInv, EntryInv, In, Starts
<1>3. CASE UNCHANGED limiterVars
  BY <1>3 DEF limiterVars, IntervalInv, LogInv, EntryInv, In, Starts
<1> QED
  BY <1>1, <1>2, <1>3, OpenWindowLog, CountRequestLog DEF LimiterNext, Allow

\* One window lets at most limit requests through: their numbers differ.
LEMMA WindowHoldsLimit ==
    ASSUME IntervalInv, NEW k \in Keys, NEW s \in Starts(k),
           NEW G, G \subseteq {g \in log : g[1] = k /\ In(g, s)}
    PROVE  IsFiniteSet(G) /\ Cardinality(G) \in Nat /\ Cardinality(G) <= limit
<1> DEFINE f == [g \in G |-> g[3]]
<1>1. limit \in Nat
  BY LimitsAssumption DEF IntervalInv, LimiterInv, LimiterTypeOK
<1>2. \A g \in G : g[3] \in 1 .. limit
  BY <1>1 DEF IntervalInv, LogInv
<1>3. \A g, h \in G : g[3] = h[3] => g = h
  BY DEF IntervalInv, LogInv
<1>4. f \in Injection(G, 1 .. limit)
  BY <1>2, <1>3 DEF Injection, IsInjective
<1>5. IsFiniteSet(1 .. limit) /\ Cardinality(1 .. limit) = limit
  BY <1>1, FS_Interval
<1>6. IsFiniteSet(G) /\ Cardinality(G) <= limit
  BY <1>4, <1>5, FS_Injection
<1> QED
  BY <1>6, FS_CardinalityType

\* An interval as long as a window meets two windows at most: of three, the outer ones are
\* further apart.
LEMMA TwoWindows ==
    ASSUME IntervalInv, NEW k \in Keys, NEW t \in Nat,
           NEW g \in AllowedFrom(k, t), NEW h \in AllowedFrom(k, t), NEW i \in AllowedFrom(k, t),
           NEW r \in Starts(k), NEW s \in Starts(k), r # s,
           In(g, r), In(h, s)
    PROVE  In(i, r) \/ In(i, s)
<1>1. /\ g[2] \in Nat /\ h[2] \in Nat /\ i[2] \in Nat /\ i \in log /\ i[1] = k
      /\ t <= g[2] /\ g[2] <= t + Window
      /\ t <= h[2] /\ h[2] <= t + Window
      /\ t <= i[2] /\ i[2] <= t + Window
  BY DEF AllowedFrom, IntervalInv, LogInv
<1>2. PICK q \in Starts(k) : In(i, q)
  BY <1>1 DEF IntervalInv, LogInv
<1>3. q \in Nat /\ r \in Nat /\ s \in Nat /\ Window \in Nat
  BY WindowAssumption DEF Starts
<1>4. \A a, b \in {q, r, s} : a < b => a + Window < b
  BY DEF IntervalInv, LogInv
<1> QED
  BY <1>1, <1>2, <1>3, <1>4 DEF In

LEMMA IntervalMeetsTwo == IntervalInv => TwiceLimitInAnyInterval
<1> SUFFICES ASSUME IntervalInv, NEW k \in Keys, NEW t \in 0 .. LastTick
             PROVE  Cardinality(AllowedFrom(k, t)) <= 2 * limit
  BY DEF TwiceLimitInAnyInterval
<1> DEFINE G == AllowedFrom(k, t)
           W(s) == {g \in G : In(g, s)}
<1>1. limit \in Nat /\ t \in Nat
  BY LimitsAssumption, WindowAssumption DEF IntervalInv, LimiterInv, LimiterTypeOK
<1>2. \A g \in G : \E s \in Starts(k) : In(g, s)
  BY DEF AllowedFrom, IntervalInv, LogInv
<1>3. \A s \in Starts(k) : W(s) \subseteq {g \in log : g[1] = k /\ In(g, s)}
  BY DEF AllowedFrom
<1>4. CASE G = {}
  BY <1>1, <1>4, FS_EmptySet
<1>5. CASE \E s \in Starts(k) : G \subseteq W(s)
  <2>1. PICK s \in Starts(k) : G \subseteq W(s)
    BY <1>5
  <2>2. Cardinality(G) \in Nat /\ Cardinality(G) <= limit
    BY <1>3, <2>1, WindowHoldsLimit
  <2> QED
    BY <1>1, <2>2
<1>6. ASSUME G # {}, \A s \in Starts(k) : ~(G \subseteq W(s))
      PROVE  Cardinality(G) <= 2 * limit
  <2>1. PICK g \in G, r \in Starts(k) : In(g, r)
    BY <1>2, <1>6
  <2>2. PICK h \in G : ~In(h, r)
    BY <1>6
  <2>3. PICK s \in Starts(k) : In(h, s)
    BY <1>2
  <2>4. \A i \in G : In(i, r) \/ In(i, s)
    BY <1>1, <2>1, <2>2, <2>3, TwoWindows
  <2>5. G = W(r) \cup W(s)
    BY <2>4
  <2>6. /\ IsFiniteSet(W(r)) /\ Cardinality(W(r)) \in Nat /\ Cardinality(W(r)) <= limit
        /\ IsFiniteSet(W(s)) /\ Cardinality(W(s)) \in Nat /\ Cardinality(W(s)) <= limit
    BY <1>3, WindowHoldsLimit
  <2>7. /\ Cardinality(G) = Cardinality(W(r)) + Cardinality(W(s)) - Cardinality(W(r) \cap W(s))
        /\ Cardinality(W(r) \cap W(s)) \in Nat
    BY <2>5, <2>6, FS_Union, FS_Intersection, FS_CardinalityType
  <2> QED
    BY <1>1, <2>6, <2>7
<1> QED
  BY <1>4, <1>5, <1>6

\* For every limit, window length and schedule of requests: an address gets at most twice its
\* limit through in any interval as long as a window, wherever the interval begins.
THEOREM TwiceLimit == LimiterSpec => []TwiceLimitInAnyInterval
BY IntervalInit, IntervalStep, IntervalMeetsTwo, PTL DEF LimiterSpec

-----------------------------------------------------------------------------
(***************************************************************************)
(* History.                                                                *)
(***************************************************************************)

\* Ids and times grow together, because a row gets both when it is inserted.
TableInv ==
    /\ \A i, j \in 1 .. saved : i <= j => time[i] <= time[j]
    /\ \A i \in 1 .. saved : time[i] <= clock
    /\ conv \subseteq 1 .. saved

\* What the reader has got comes from the table, and its cursor is the oldest of it.
CursorInv ==
    /\ shown \subseteq conv /\ repeated \subseteq shown
    /\ top <= saved
    /\ IF before = 0 THEN shown = {} ELSE before \in shown
    /\ before # 0 => \A i \in shown : time[before] <= time[i]

PagingInv == TypeOK /\ TableInv /\ CursorInv /\ SkippedOnlyInTies /\ RepeatedOnlyInTies

LEMMA PagingInit == Init => PagingInv
<1> SUFFICES ASSUME Init
             PROVE  PagingInv
  OBVIOUS
<1>1. 0 \in 0 .. MaxTime /\ 0 \in 0 .. MaxRows
  BY HistoryAssumption
<1>2. TypeOK
  BY <1>1 DEF Init, TypeOK
<1>3. TableInv /\ CursorInv
  BY DEF Init, TableInv, CursorInv
<1> QED
  BY <1>2, <1>3 DEF Init, PagingInv, SkippedOnlyInTies, RepeatedOnlyInTies

\* A new row is younger than all others and has a larger id, so that no tie is broken.
LEMMA SaveStep ==
    ASSUME PagingInv, NEW mine \in BOOLEAN, SaveMessage(mine)
    PROVE  PagingInv'
<1> USE HistoryAssumption DEF PagingInv, SaveMessage
<1>1. saved + 1 \in Ids /\ conv' \subseteq 1 .. saved'
  BY DEF TypeOK, TableInv, Ids
<1>2. TypeOK'
  BY <1>1 DEF TypeOK, Ids
<1>3. \A i \in 1 .. saved : time'[i] = time[i]
  BY <1>1 DEF TypeOK, Ids
<1>4. time'[saved + 1] = clock
  BY <1>1 DEF TypeOK
<1>5. TableInv'
  BY <1>1, <1>3, <1>4 DEF TableInv, TypeOK, Ids
<1>6. CursorInv'
  BY <1>3 DEF CursorInv, TableInv, TypeOK, Ids
<1>7. \A i \in conv' \ conv : ~(i <= top)
  BY DEF CursorInv, TypeOK
<1>8. SkippedOnlyInTies'
  BY <1>3, <1>7 DEF SkippedOnlyInTies, CursorInv, TableInv
<1>9. RepeatedOnlyInTies'
  BY <1>3 DEF RepeatedOnlyInTies, CursorInv, TableInv
<1> QED
  BY <1>2, <1>5, <1>6, <1>8, <1>9

\* The rows of a page are below the cursor, hence no younger than it; and what the page leaves
\* out is no younger than its last row.
LEMMA PageFacts ==
    ASSUME PagingInv, NEW raw \in RawLimits, NEW page \in SUBSET conv, NEW last \in page,
           GetMessages(raw, page, last)
    PROVE  /\ last \in conv /\ last \in Nat \ {0}
           /\ \A i \in page : before # 0 => i < before /\ time[i] <= time[before]
           /\ \A i \in page : time[last] <= time[i]
           /\ \A i \in conv \ page : before = 0 \/ i < before => time[i] <= time[last]
<1> USE DEF PagingInv
<1>1. page \subseteq Candidates /\ InOrder(page, Candidates \ page)
  BY DEF GetMessages, IsPage
<1>2. \A i \in page : before # 0 => i < before
  BY <1>1 DEF Candidates
<1>3. \A i \in page : before # 0 => time[i] <= time[before]
  BY <1>2 DEF CursorInv, TableInv, TypeOK, Ids
<1>4. \A i \in page : time[last] <= time[i]
  BY DEF GetMessages, IsLast
<1>5. \A i \in conv \ page : before = 0 \/ i < before => time[i] <= time[last]
  BY <1>1 DEF InOrder, Candidates
<1> QED
  BY <1>2, <1>3, <1>4, <1>5 DEF TableInv, TypeOK, Ids

LEMMA ReadStep ==
    ASSUME PagingInv, NEW raw \in RawLimits, NEW page \in SUBSET conv, NEW last \in page,
           GetMessages(raw, page, last)
    PROVE  PagingInv'
<1> USE DEF PagingInv
<1>1. /\ UNCHANGED <<clock, saved, time, conv, done>>
      /\ before' = last
      /\ shown' = shown \cup page
      /\ repeated' = repeated \cup (shown \cap page)
      /\ top' = IF before = 0 THEN saved ELSE top
  BY DEF GetMessages
<1>2. TypeOK'
  BY <1>1 DEF TypeOK, Ids
<1>3. TableInv'
  BY <1>1 DEF TableInv
<1>4. \A i \in shown' : time[last] <= time[i]
  <2>1. before # 0 => \A i \in shown : time[last] <= time[i]
    <3> SUFFICES ASSUME before # 0, NEW i \in shown
                 PROVE  time[last] <= time[i]
      OBVIOUS
    <3>1. time[last] <= time[before] /\ time[before] <= time[i]
      BY PageFacts DEF CursorInv
    <3>2. {last, before, i} \subseteq Ids
      BY PageFacts DEF CursorInv, TypeOK
    <3>3. time[last] \in Nat /\ time[before] \in Nat /\ time[i] \in Nat
      BY <3>2, HistoryAssumption DEF TypeOK
    <3> QED
      BY <3>1, <3>3
  <2> QED
    BY <1>1, <2>1, PageFacts DEF CursorInv
<1>5. CursorInv'
  BY <1>1, <1>4, PageFacts DEF CursorInv, TypeOK
<1>6. SkippedOnlyInTies'
  <2> SUFFICES ASSUME NEW i \in conv, last <= i, i <= top', i \notin shown, i \notin page
               PROVE  \E j \in shown \cup page : time[j] = time[i]
    BY <1>1 DEF SkippedOnlyInTies
  <2>1. CASE before # 0 /\ before <= i
    BY <2>1, <1>1 DEF SkippedOnlyInTies
  <2>2. CASE before = 0 \/ i < before
    <3>1. time[i] <= time[last]
      BY <2>2, PageFacts
    <3>2. time[last] <= time[i]
      BY PageFacts DEF TableInv, TypeOK, Ids
    <3> QED
      BY <3>1, <3>2, PageFacts DEF TableInv, TypeOK, Ids
  <2> QED
    BY <2>1, <2>2 DEF TypeOK, TableInv, Ids
<1>7. RepeatedOnlyInTies'
  <2>1. ASSUME NEW i \in shown, i \in page
        PROVE  \E j \in shown \ {i} : time[j] = time[i]
    <3>1. before # 0 /\ before \in shown /\ time[before] <= time[i]
      BY <2>1 DEF CursorInv
    <3>2. i < before /\ time[i] <= time[before]
      BY <2>1, <3>1, PageFacts
    <3>3. before # i /\ time[before] = time[i]
      BY <3>1, <3>2 DEF TypeOK, TableInv, CursorInv, Ids
    <3> QED
      BY <3>1, <3>3
  <2> QED
    BY <1>1, <2>1 DEF RepeatedOnlyInTies
<1> QED
  BY <1>2, <1>3, <1>5, <1>6, <1>7

LEMMA PagingStep == PagingInv /\ [Next]_vars => PagingInv'
<1> SUFFICES ASSUME PagingInv, [Next]_vars
             PROVE  PagingInv'
  OBVIOUS
<1>1. CASE Tick
  BY <1>1, HistoryAssumption
     DEF Tick, PagingInv, TypeOK, TableInv, CursorInv, SkippedOnlyInTies, RepeatedOnlyInTies, Ids
<1>2. CASE GetNothing \/ UNCHANGED vars
  BY <1>2
     DEF GetNothing, vars, PagingInv, TypeOK, TableInv, CursorInv, SkippedOnlyInTies,
         RepeatedOnlyInTies
<1> QED
  BY <1>1, <1>2, SaveStep, ReadStep DEF Next, Read

\* For every table, limit and conversation, and whatever is saved while somebody reads: pages
\* that are cut by id and ordered by time skip or repeat a message only if another one was
\* written in the same second.
THEOREM Paging == Spec => [](SkippedOnlyInTies /\ RepeatedOnlyInTies)
<1>1. PagingInv => SkippedOnlyInTies /\ RepeatedOnlyInTies
  BY DEF PagingInv
<1> QED
  BY <1>1, PagingInit, PagingStep, PTL DEF Spec
=============================================================================
