------------------------ MODULE MemorySessionsProofs ------------------------
(***************************************************************************)
(* MemorySessions implements Sessions, for any set of tokens, any time to  *)
(* live and however long the clock runs.                                   *)
(***************************************************************************)
EXTENDS MemorySessions, TLAPS

\* The cleaner never works with a time that has not come yet; without this the sweep
\* could be taken to remove sessions that are still valid.
Inv == TypeOK /\ (cutoff # None => cutoff <= now)

LEMMA InvInit == Init => Inv
BY DEF Init, Inv, TypeOK

LEMMA InvStep == Inv /\ [Next]_vars => Inv'
<1> SUFFICES ASSUME Inv, [Next]_vars
             PROVE  Inv'
  OBVIOUS
<1> USE ClockAssumption, NoneAssumption, NoneIsNoSession DEF Inv, TypeOK
<1>1. ASSUME NEW t \in Tokens, NEW u \in Usernames, Create(t, u)
      PROVE  Inv'
  BY <1>1 DEF Create, Session
<1>2. ASSUME NEW t \in Tokens, NEW u \in Usernames, UpdateUsername(t, u)
      PROVE  Inv'
  BY <1>2 DEF UpdateUsername, Renamed, Session
<1>3. ASSUME NEW t \in Tokens, GetUsername(t)
      PROVE  Inv'
  BY <1>3 DEF GetUsername, Session
<1>4. ASSUME NEW t \in Tokens, GetNothing(t)
      PROVE  Inv'
  BY <1>4 DEF GetNothing
<1>5. ASSUME NEW t \in Tokens, Delete(t)
      PROVE  Inv'
  BY <1>5 DEF Delete
<1>6. CASE CleanupDue
  BY <1>6 DEF CleanupDue
<1>7. CASE Cleanup
  BY <1>7 DEF Cleanup
<1>8. CASE Tick
  BY <1>8 DEF Tick
<1>9. CASE UNCHANGED vars
  BY <1>9 DEF vars
<1> QED
  BY <1>1, <1>2, <1>3, <1>4, <1>5, <1>6, <1>7, <1>8, <1>9 DEF Next

LEMMA RefineInit == Init => Abstract!Init
BY DEF Init, Abstract!Init, valid

\* Every step is a step of the abstract store or invisible to it.
LEMMA RefineStep == Inv /\ [Next]_vars => [Abstract!Next]_Abstract!vars
<1> SUFFICES ASSUME Inv, [Next]_vars
             PROVE  Abstract!Next \/ UNCHANGED Abstract!vars
  OBVIOUS
<1> USE ClockAssumption, NoneAssumption, NoneIsNoSession DEF Inv, TypeOK
<1>0. \A t \in Tokens :
        tokens[t] # None => tokens[t] \in Session /\ tokens[t].exp \in Nat
  BY DEF Session
<1>1. ASSUME NEW t \in Tokens, NEW u \in Usernames, Create(t, u)
      PROVE  Abstract!Create(t, u)
  <2> DEFINE e == [user |-> u, exp |-> now + TTL]
  <2>1. e \in Session /\ e # None /\ e.exp = now + TTL
    BY DEF Session
  <2> HIDE DEF e
  <2>2. tokens' = [tokens EXCEPT ![t] = e] /\ now' = now
    BY <1>1 DEF Create, e
  <2>3. valid'[t] = e
    BY <2>1, <2>2 DEF valid, IsExpired
  <2>4. \A x \in Tokens \ {t} : valid'[x] = valid[x]
    BY <1>0, <2>2 DEF valid, IsExpired
  <2>5. valid' = [valid EXCEPT ![t] = e]
    BY <2>3, <2>4 DEF valid
  <2> QED
    BY <1>1, <2>5 DEF Create, Abstract!Create, e
<1>2. ASSUME NEW t \in Tokens, NEW u \in Usernames, UpdateUsername(t, u)
      PROVE  Abstract!UpdateUsername(t, u) \/ UNCHANGED Abstract!vars
  <2>1. Renamed(t, u) \in Session /\ Renamed(t, u) # None /\ Renamed(t, u).exp = tokens[t].exp
    BY <1>0, <1>2 DEF UpdateUsername, Renamed, Session
  <2>2. CASE IsExpired(t)
    <3>1. valid' = valid
      BY <1>0, <1>2, <2>1, <2>2 DEF UpdateUsername, valid, IsExpired
    <3> QED
      BY <1>2, <3>1 DEF UpdateUsername, Abstract!vars
  <2>3. CASE ~IsExpired(t)
    <3>1. valid[t] = tokens[t] /\ valid[t] # None
      BY <1>2, <2>3 DEF UpdateUsername, valid
    <3>2. Renamed(t, u) = [valid[t] EXCEPT !.user = u]
      BY <1>0, <1>2, <3>1 DEF UpdateUsername, Renamed, Session
    <3>3. valid' = [valid EXCEPT ![t] = Renamed(t, u)]
      BY <1>0, <1>2, <2>1, <2>3 DEF UpdateUsername, valid, IsExpired
    <3> QED
      BY <1>2, <3>1, <3>2, <3>3 DEF UpdateUsername, Abstract!UpdateUsername
  <2> QED
    BY <2>2, <2>3
<1>3. ASSUME NEW t \in Tokens, GetUsername(t)
      PROVE  Abstract!GetUsername(t)
  BY <1>0, <1>3 DEF GetUsername, Abstract!GetUsername, Abstract!UserOf, valid, IsExpired
<1>4. ASSUME NEW t \in Tokens, GetNothing(t)
      PROVE  Abstract!GetUsername(t)
  <2>1. valid' = valid /\ valid[t] = None
    BY <1>0, <1>4 DEF GetNothing, valid, IsExpired
  <2> QED
    BY <1>4, <2>1 DEF GetNothing, Abstract!GetUsername, Abstract!UserOf
<1>5. ASSUME NEW t \in Tokens, Delete(t)
      PROVE  Abstract!Delete(t)
  BY <1>0, <1>5 DEF Delete, Abstract!Delete, valid, IsExpired
<1>6. CASE CleanupDue
  BY <1>6 DEF CleanupDue, Abstract!vars, valid, IsExpired
<1>7. CASE Cleanup
  <2>1. valid' = valid
    BY <1>0, <1>7 DEF Cleanup, Over, valid, IsExpired
  <2> QED
    BY <1>7, <2>1 DEF Cleanup, Abstract!vars
<1>8. CASE Tick
  <2>1. ASSUME NEW t \in Tokens
        PROVE  valid'[t] = IF valid[t] # None /\ now' > valid[t].exp THEN None ELSE valid[t]
    BY <1>0, <1>8 DEF Tick, valid, IsExpired
  <2>2. valid' = [t \in Tokens |->
                    IF valid[t] # None /\ now' > valid[t].exp THEN None ELSE valid[t]]
    BY <2>1 DEF valid
  <2> QED
    BY <1>8, <2>2 DEF Tick, Abstract!Tick, Abstract!Next
<1>9. CASE UNCHANGED vars
  BY <1>9 DEF vars, Abstract!vars, valid, IsExpired
<1> QED
  BY <1>1, <1>2, <1>3, <1>4, <1>5, <1>6, <1>7, <1>8, <1>9 DEF Next, Abstract!Next

\* The in-memory store answers like a store in which a session ends at the instant its
\* time is over or it is deleted, and never comes back.
THEOREM Refinement == Spec => ImplementsSessions
BY InvInit, InvStep, RefineInit, RefineStep, PTL DEF Spec, ImplementsSessions, Abstract!Spec
=============================================================================
