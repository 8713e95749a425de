------------------------------ MODULE Sessions ------------------------------
(***************************************************************************)
(* What the interface SessionStore (internal/server/bus.go) promises: a    *)
(* token stands for a user from Create until Delete or until its time to   *)
(* live is over, whichever comes first, and then never again.              *)
(*                                                                         *)
(* The time to live counts from Create: this is what the implementations   *)
(* of the interface do. The repository's README promises more, that every  *)
(* access renews it; AccessRenews in MemorySessions states that, and its   *)
(* run shows that the code does not do it.                                 *)
(***************************************************************************)
EXTENDS Naturals

CONSTANTS
    Tokens,     \* session tokens
    Usernames,
    TTL,        \* the time to live that Server.CreateSession passes
    MaxTime,    \* bound: the last tick of the clock
    None

VARIABLES
    session,    \* token -> [user, exp], None when the token stands for nobody
    issued,     \* tokens that Create has returned; they are random and never come again
    now,        \* the clock
    answer      \* the last GetUsername: the token and the user, None for "false"

vars == <<session, issued, now, answer>>

UserOf(t) == IF session[t] = None THEN None ELSE session[t].user

Init ==
    /\ session = [t \in Tokens |-> None]
    /\ issued = {}
    /\ now = 0
    /\ answer \in [token : Tokens, user : {None}]

Create(t, u) ==
    /\ t \notin issued
    /\ session' = [session EXCEPT ![t] = [user |-> u, exp |-> now + TTL]]
    /\ issued' = issued \cup {t}
    /\ UNCHANGED <<now, answer>>

\* A look-up changes nothing.
GetUsername(t) ==
    /\ answer' = [token |-> t, user |-> UserOf(t)]
    /\ UNCHANGED <<session, issued, now>>

UpdateUsername(t, u) ==
    /\ session[t] # None
    /\ session' = [session EXCEPT ![t].user = u]
    /\ UNCHANGED <<issued, now, answer>>

Delete(t) ==
    /\ session' = [session EXCEPT ![t] = None]
    /\ UNCHANGED <<issued, now, answer>>

\* Time passes, and every session that is over ends at that instant.
Tick ==
    /\ now < MaxTime
    /\ now' = now + 1
    /\ session' = [t \in Tokens |->
           IF session[t] # None /\ now' > session[t].exp THEN None ELSE session[t]]
    /\ UNCHANGED <<issued, answer>>

Next ==
    \/ \E t \in Tokens, u \in Usernames : Create(t, u) \/ UpdateUsername(t, u)
    \/ \E t \in Tokens : GetUsername(t) \/ Delete(t)
    \/ Tick

Spec == Init /\ [][Next]_vars
=============================================================================
