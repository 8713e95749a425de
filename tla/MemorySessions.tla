--------------------------- MODULE MemorySessions ---------------------------
(***************************************************************************)
(* MemorySessionStore of internal/server/bus.go with the cleanup goroutine *)
(* of internal/server/server.go. Every method runs under the store's lock. *)
(* The clock goes on without anybody looking: an expired session stays in  *)
(* the map until GetUsername meets it or the cleaner sweeps, and the       *)
(* cleaner takes the time before it takes the lock.                        *)
(***************************************************************************)
EXTENDS Naturals

CONSTANTS Tokens, Usernames, TTL, MaxTime, None

ASSUME ClockAssumption == TTL \in Nat /\ MaxTime \in Nat
ASSUME NoneAssumption == None \notin Usernames

VARIABLES
    tokens,     \* MemorySessionStore.tokens: token -> Session, None when absent
    issued,     \* tokens that Create has returned
    now,        \* time.Now()
    cutoff,     \* the argument of the Cleanup call that is under way, None if none is
    answer      \* the last GetUsername: the token and the user, None for "false"

vars == <<tokens, issued, now, cutoff, answer>>

\* model.Session; CreatedAt is written and never read.
Session == [user : Usernames, exp : Nat]

ASSUME NoneIsNoSession == None \notin Session /\ None \notin Nat

-----------------------------------------------------------------------------
\* Session.IsExpired: time.Now().After(s.ExpiresAt)
IsExpired(t) == now > tokens[t].exp

Init ==
    /\ tokens = [t \in Tokens |-> None]
    /\ issued = {}
    /\ now = 0
    /\ cutoff = None
    /\ answer \in [token : Tokens, user : {None}]

\* Create takes time.Now() before the lock; nobody knows the token before it returns, so it
\* is one step.
Create(t, u) ==
    /\ t \notin issued
    /\ tokens' = [tokens EXCEPT ![t] = [user |-> u, exp |-> now + TTL]]
    /\ issued' = issued \cup {t}
    /\ UNCHANGED <<now, cutoff, answer>>

\* GetUsername on a session that is still valid. ExpiresAt is not touched.
GetUsername(t) ==
    /\ tokens[t] # None
    /\ ~IsExpired(t)
    /\ answer' = [token |-> t, user |-> tokens[t].user]
    /\ UNCHANGED <<tokens, issued, now, cutoff>>

\* GetUsername on an unknown token, or on an expired session, which it deletes.
GetNothing(t) ==
    /\ tokens[t] # None => IsExpired(t)
    /\ tokens' = [tokens EXCEPT ![t] = None]
    /\ answer' = [token |-> t, user |-> None]
    /\ UNCHANGED <<issued, now, cutoff>>

\* Mutant: renaming starts the session's time again.
RenamedAfresh(t, u) == [user |-> u, exp |-> now + TTL]

Renamed(t, u) == [user |-> u, exp |-> tokens[t].exp]

\* UpdateUsername, of an expired session too while it is in the map.
UpdateUsername(t, u) ==
    /\ tokens[t] # None
    /\ tokens' = [tokens EXCEPT ![t] = Renamed(t, u)]
    /\ UNCHANGED <<issued, now, cutoff, answer>>

Delete(t) ==
    /\ tokens' = [tokens EXCEPT ![t] = None]
    /\ UNCHANGED <<issued, now, cutoff, answer>>

\* cleanupSessions: the ticker fires and time.Now() is taken ...
CleanupDue ==
    /\ cutoff = None
    /\ cutoff' = now
    /\ UNCHANGED <<tokens, issued, now, answer>>

\* Mutant: the two times of After are swapped.
OverSwapped(t) == tokens[t].exp > cutoff

\* expiredBefore.After(sess.ExpiresAt)
Over(t) == cutoff > tokens[t].exp

\* ... and Cleanup sweeps under the lock.
Cleanup ==
    /\ cutoff # None
    /\ tokens' = [t \in Tokens |-> IF tokens[t] # None /\ Over(t) THEN None ELSE tokens[t]]
    /\ cutoff' = None
    /\ UNCHANGED <<issued, now, answer>>

Tick ==
    /\ now < MaxTime
    /\ now' = now + 1
    /\ UNCHANGED <<tokens, issued, cutoff, answer>>

Next ==
    \/ \E t \in Tokens, u \in Usernames : Create(t, u) \/ UpdateUsername(t, u)
    \/ \E t \in Tokens : GetUsername(t) \/ GetNothing(t) \/ Delete(t)
    \/ CleanupDue
    \/ Cleanup
    \/ Tick

Spec == Init /\ [][Next]_vars

\* The cleanup goroutine runs until the server shuts down.
FairSpec == Spec /\ WF_vars(CleanupDue) /\ WF_vars(Cleanup)

-----------------------------------------------------------------------------
(* Properties.                                                             *)

\* Types of the store.
TypeOK ==
    /\ tokens \in [Tokens -> Session \cup {None}]
    /\ issued \subseteq Tokens
    /\ now \in Nat
    /\ cutoff \in Nat \cup {None}
    /\ answer \in [token : Tokens, user : Usernames \cup {None}]

\* A token stands for a user while it is in the map and not expired.
valid == [t \in Tokens |-> IF tokens[t] # None /\ ~IsExpired(t) THEN tokens[t] ELSE None]

Abstract == INSTANCE Sessions WITH session <- valid

\* The store keeps the promise of SessionStore: with lazy deletion, a cleaner that works
\* with an old time and renames of sessions that are already over, every answer is
\* the one a store gives that ends a session at the instant it expires.
ImplementsSessions == Abstract!Spec

\* README.md: "every access renews the expiry time". A look-up that succeeds gives the session
\* its whole time to live again. The code does not do this: see the run session_renewal.
AccessRenews == [][\A t \in Tokens : GetUsername(t) => tokens'[t].exp = now + TTL]_vars

\* An expired session does not stay in memory, even if its token is never used again.
ExpiredIsSwept == \A t \in Tokens : (tokens[t] # None /\ IsExpired(t)) ~> tokens[t] = None

=============================================================================
