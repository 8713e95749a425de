------------------------ MODULE RedisSessionsProofs ------------------------
(* Proofs about RedisSessions for any tokens, names, requests and times to  *)
(* live.                                                                    *)
EXTENDS RedisSessions, TLAPS

\* How long a key may be stored for whose Create was called with n.
Fits(n, ttl) == IF n = 0 THEN ttl = 0 ELSE ttl \in 1 .. Longest(n)

\* What a request between its TTL and its SET holds fits the session.
HeldFits ==
    \A r \in Requests : req[r].pc = "set" => Fits(life[req[r].token], req[r].ttl)

\* Nothing is known of a token before Create has returned it.
OnlyIssued ==
    /\ \A t \in Tokens : user[t] # None => t \in issued
    /\ \A r \in Requests : req[r].pc # "idle" => req[r].token \in issued

\* LogoutUndoneOnlyByRace, and no request is about to bring the key back.
LogoutHolds ==
    \A t \in loggedOut \ raced : t \in issued /\ user[t] = None /\ ~Updating(t)

IInv == TypeOK /\ LifeAsCreated /\ HeldFits /\ OnlyIssued /\ LogoutHolds

-----------------------------------------------------------------------------
\* Rounding to seconds: never above Longest, whatever has gone by since.
LEMMA RoundedBelow ==
    ASSUME NEW n \in Nat, NEW m \in 1 .. Longest(n)
    PROVE  Rounded(m) \in 0 .. Longest(n)
  BY DEF Longest, Rounded, TicksPerSecond

LEMMA LongestNat ==
    ASSUME NEW n \in Nat
    PROVE  Longest(n) \in Nat /\ n <= Longest(n)
  BY DEF Longest, Rounded, TicksPerSecond

LEMMA LifeNat == TypeOK => \A t \in Tokens : life[t] \in Nat
  BY TTLAssumption DEF TypeOK

\* What UpdateUsername stores a key with fits its session, as the key did.
LEMMA WithTTLFits ==
    ASSUME TypeOK, LifeAsCreated, NEW t \in Tokens,
           NEW ttl \in {TTL(t), 0}, NEW x \in WithTTL(ttl)
    PROVE  user[t] # None /\ x \in Nat /\ Fits(life[t], x)
  <1>1. life[t] \in Nat /\ left[t] \in Nat \cup {Forever}
    BY LifeNat DEF TypeOK
  <1>2. ttl = TTL(t) /\ ((ttl > 0 /\ x = ttl) \/ (ttl = Forever /\ x = 0))
    <2>1. CASE ttl > 0
      BY <2>1 DEF WithTTL
    <2>2. CASE ~(ttl > 0)
      <3>1. ttl = Forever /\ x = 0
        BY <2>2 DEF WithTTL
      <3>. QED  BY <3>1 DEF Forever
    <2>. QED  BY <2>1, <2>2
  <1>3. user[t] # None
    BY <1>2 DEF TTL, NoKey, Forever
  <1>4. CASE life[t] = 0
    <2>1. left[t] = Forever
      BY <1>3, <1>4 DEF LifeAsCreated
    <2>2. ttl = Forever
      BY <1>2, <1>3, <2>1 DEF TTL
    <2>. QED  BY <1>2, <1>3, <1>4, <2>2 DEF Fits, Forever
  <1>5. CASE life[t] # 0
    <2>1. left[t] \in 1 .. Longest(life[t])
      BY <1>3, <1>5 DEF LifeAsCreated
    <2>2. left[t] # Forever
      BY <1>1, <2>1, LongestNat DEF Forever
    <2>3. ttl = Rounded(left[t])
      BY <1>2, <1>3, <2>2 DEF TTL
    <2>4. ttl \in 0 .. Longest(life[t])
      BY <1>1, <2>1, <2>3, RoundedBelow
    <2>5. ttl > 0 /\ x = ttl
      BY <1>1, <1>2, <2>4, LongestNat DEF Forever
    <2>. QED  BY <1>1, <1>3, <1>5, <2>4, <2>5, LongestNat DEF Fits
  <1>. QED  BY <1>4, <1>5

LEMMA TypeStep == TypeOK /\ OnlyIssued /\ [Next]_vars => TypeOK'
  <1> SUFFICES ASSUME TypeOK, OnlyIssued, [Next]_vars PROVE TypeOK'
    OBVIOUS
  <1>1. ASSUME NEW t \in Tokens, NEW u \in Usernames, NEW ttl \in TTLs, Create(t, u, ttl)
        PROVE  TypeOK'
    BY <1>1, TTLAssumption DEF TypeOK, Create, Expiry, Forever
  <1>2. ASSUME NEW r \in Requests, NEW t \in Tokens, NEW name \in Usernames,
               GetUsername(r, t, name)
        PROVE  TypeOK'
    BY <1>2 DEF TypeOK, GetUsername, Idle
  <1>3. ASSUME NEW r \in Requests, ReadTTL(r)
        PROVE  TypeOK'
    <2>1. req[r].token \in Tokens
      BY <1>3 DEF TypeOK, OnlyIssued, ReadTTL
    <2>2. CASE req' = [req EXCEPT ![r] = Idle]
      BY <1>3, <2>2 DEF TypeOK, ReadTTL, Idle
    <2>3. ASSUME NEW ttl \in {TTL(req[r].token), 0}, NEW x \in WithTTL(ttl),
                 req' = [req EXCEPT ![r] = [@ EXCEPT !.pc = "set", !.ttl = x]]
          PROVE  TypeOK'
      <3>1. x \in Nat
        <4>1. ttl \in Int
          BY <2>1 DEF TypeOK, TTL, Rounded, TicksPerSecond, Forever, NoKey
        <4>. QED  BY <4>1 DEF WithTTL
      <3>. QED  BY <1>3, <2>3, <3>1 DEF TypeOK, ReadTTL
    <2>. QED  BY <1>3, <2>2, <2>3 DEF ReadTTL
  <1>4. ASSUME NEW r \in Requests, SetName(r)
        PROVE  TypeOK'
    BY <1>4 DEF TypeOK, SetName, Idle, Expiry, Forever
  <1>5. ASSUME NEW t \in Tokens, Delete(t)
        PROVE  TypeOK'
    BY <1>5 DEF TypeOK, Delete
  <1>6. CASE Tick
    BY <1>6 DEF TypeOK, Tick, Forever
  <1>7. CASE UNCHANGED vars
    BY <1>7 DEF TypeOK, vars
  <1>. QED  BY <1>1, <1>2, <1>3, <1>4, <1>5, <1>6, <1>7 DEF Next

LEMMA InvInit == Init => IInv
  BY DEF Init, IInv, TypeOK, LifeAsCreated, HeldFits, OnlyIssued, LogoutHolds, Idle

-----------------------------------------------------------------------------
LEMMA InvCreate ==
    ASSUME IInv, TypeOK', NEW t \in Tokens, NEW u \in Usernames, NEW ttl \in TTLs,
           Create(t, u, ttl)
    PROVE  IInv'
  <1>1. ttl \in Nat /\ t \notin issued
    BY TTLAssumption DEF Create
  <1>2. LifeAsCreated'
    <2>1. ttl <= Longest(ttl) /\ Longest(ttl) \in Nat
      BY <1>1, LongestNat
    <2>. QED
      BY <1>1, <2>1 DEF IInv, TypeOK, LifeAsCreated, Create, Expiry, Forever
  <1>3. HeldFits'
    <2>1. \A r \in Requests : req[r].pc = "set" => req[r].token # t
      BY <1>1 DEF IInv, OnlyIssued
    <2>. QED  BY <2>1 DEF IInv, TypeOK, HeldFits, Create
  <1>4. OnlyIssued'
    BY DEF IInv, TypeOK, OnlyIssued, Create
  <1>5. LogoutHolds'
    BY <1>1 DEF IInv, TypeOK, LogoutHolds, Updating, Create
  <1>. QED  BY <1>2, <1>3, <1>4, <1>5 DEF IInv

LEMMA InvGetUsername ==
    ASSUME IInv, TypeOK', NEW r \in Requests, NEW t \in Tokens, NEW name \in Usernames,
           GetUsername(r, t, name)
    PROVE  IInv'
  <1>1. req' = [req EXCEPT ![r] = [pc |-> "ttl", token |-> t, name |-> name, ttl |-> 0]]
    BY DEF GetUsername, Idle
  <1>2. HeldFits' /\ OnlyIssued' /\ LifeAsCreated'
    BY <1>1 DEF IInv, TypeOK, HeldFits, OnlyIssued, LifeAsCreated, GetUsername
  <1>3. LogoutHolds'
    BY <1>1 DEF IInv, TypeOK, LogoutHolds, Updating, GetUsername
  <1>. QED  BY <1>2, <1>3 DEF IInv

LEMMA InvReadTTL ==
    ASSUME IInv, TypeOK', NEW r \in Requests, ReadTTL(r)
    PROVE  IInv'
  <1>1. req[r].token \in Tokens
    BY DEF IInv, TypeOK, OnlyIssued, ReadTTL
  <1>u. UNCHANGED <<user, left, issued, life, loggedOut, raced>>
    BY DEF ReadTTL
  <1>2. CASE req' = [req EXCEPT ![r] = Idle]
    <2>1. req'[r].pc = "idle" /\ \A q \in Requests \ {r} : req'[q] = req[q]
      BY <1>2 DEF IInv, TypeOK, Idle
    <2>2. HeldFits' /\ OnlyIssued' /\ LifeAsCreated'
      BY <1>u, <2>1 DEF IInv, HeldFits, OnlyIssued, LifeAsCreated
    <2>3. LogoutHolds'
      BY <1>u, <2>1 DEF IInv, LogoutHolds, Updating
    <2>. QED  BY <2>2, <2>3 DEF IInv
  <1>3. ASSUME NEW ttl \in {TTL(req[r].token), 0}, NEW x \in WithTTL(ttl),
               req' = [req EXCEPT ![r] = [@ EXCEPT !.pc = "set", !.ttl = x]]
        PROVE  IInv'
    <2>1. user[req[r].token] # None /\ Fits(life[req[r].token], x)
      BY <1>1, WithTTLFits DEF IInv
    <2>a. /\ req'[r].pc = "set" /\ req'[r].token = req[r].token /\ req'[r].ttl = x
          /\ \A q \in Requests \ {r} : req'[q] = req[q]
      BY <1>3 DEF IInv, TypeOK
    <2>b. req[r].token \in issued
      BY DEF IInv, OnlyIssued, ReadTTL
    <2>2. HeldFits' /\ OnlyIssued' /\ LifeAsCreated'
      BY <1>u, <2>1, <2>a, <2>b DEF IInv, HeldFits, OnlyIssued, LifeAsCreated
    <2>3. LogoutHolds'
      BY <1>u, <2>1, <2>a DEF IInv, LogoutHolds, Updating
    <2>. QED  BY <2>2, <2>3 DEF IInv
  <1>. QED  BY <1>2, <1>3 DEF ReadTTL

LEMMA InvSetName ==
    ASSUME IInv, TypeOK', NEW r \in Requests, SetName(r)
    PROVE  IInv'
  <1>1. req[r].token \in Tokens /\ req[r].token \in issued
    BY DEF IInv, TypeOK, OnlyIssued, SetName
  <1>2. req' = [req EXCEPT ![r] = [pc |-> "idle", token |-> None, name |-> None, ttl |-> 0]]
    BY DEF SetName, Idle
  <1>3. Fits(life[req[r].token], req[r].ttl) /\ life[req[r].token] \in Nat
    BY <1>1, LifeNat DEF IInv, HeldFits, SetName
  <1>4. LifeAsCreated'
    <2>1. CASE UNCHANGED <<user, left>>
      BY <2>1 DEF IInv, LifeAsCreated, SetName
    <2>2. CASE left' = [left EXCEPT ![req[r].token] = Expiry(req[r].ttl)]
               /\ user' = [user EXCEPT ![req[r].token] = req[r].name]
      BY <1>1, <1>3, <2>2, LongestNat DEF IInv, TypeOK, LifeAsCreated, SetName, Expiry, Fits, Forever
    <2>. QED  BY <2>1, <2>2 DEF SetName
  <1>5. HeldFits' /\ OnlyIssued'
    BY <1>1, <1>2 DEF IInv, TypeOK, HeldFits, OnlyIssued, SetName
  <1>6. LogoutHolds'
    <2>1. req[r].token \notin loggedOut \ raced
      BY DEF IInv, LogoutHolds, Updating, SetName
    <2>. QED  BY <1>1, <1>2, <2>1 DEF IInv, TypeOK, LogoutHolds, Updating, SetName
  <1>. QED  BY <1>4, <1>5, <1>6 DEF IInv

LEMMA InvDelete ==
    ASSUME IInv, TypeOK', NEW t \in Tokens, Delete(t)
    PROVE  IInv'
  <1>1. LifeAsCreated' /\ HeldFits' /\ OnlyIssued'
    BY DEF IInv, TypeOK, LifeAsCreated, HeldFits, OnlyIssued, Delete
  <1>2. LogoutHolds'
    BY DEF IInv, TypeOK, LogoutHolds, Updating, Delete
  <1>. QED  BY <1>1, <1>2 DEF IInv

LEMMA InvTick ==
    ASSUME IInv, TypeOK', Tick
    PROVE  IInv'
  <1>1. LifeAsCreated'
    BY LifeNat, LongestNat DEF IInv, TypeOK, LifeAsCreated, Tick, Forever
  <1>2. HeldFits' /\ OnlyIssued'
    BY DEF IInv, TypeOK, HeldFits, OnlyIssued, Tick
  <1>3. LogoutHolds'
    BY DEF IInv, TypeOK, LogoutHolds, Updating, Tick
  <1>. QED  BY <1>1, <1>2, <1>3 DEF IInv

\* Type correctness and both safety properties of the Redis store: renames that read the
\* TTL and write the key in two commands keep its expiry in bounds, and undo a logout only
\* in the race that raced records.
THEOREM RedisSafety == Spec => [](TypeOK /\ LifeAsCreated /\ LogoutUndoneOnlyByRace)
  <1>1. IInv /\ [Next]_vars => IInv'
    <2> SUFFICES ASSUME IInv, [Next]_vars PROVE IInv'
      OBVIOUS
    <2>1. TypeOK'
      BY TypeStep DEF IInv
    <2>2. CASE UNCHANGED vars
      BY <2>2 DEF IInv, TypeOK, LifeAsCreated, HeldFits, OnlyIssued, LogoutHolds, Updating, vars
    <2>. QED
      BY <2>1, <2>2, InvCreate, InvGetUsername, InvReadTTL, InvSetName, InvDelete, InvTick
         DEF Next
  <1>2. IInv => TypeOK /\ LifeAsCreated /\ LogoutUndoneOnlyByRace
    BY DEF IInv, LogoutHolds, LogoutUndoneOnlyByRace
  <1>. QED  BY InvInit, <1>1, <1>2, PTL DEF Spec
=============================================================================
