--------------------------- MODULE RedisSessions ---------------------------
(***************************************************************************)
(* RedisSessionStore of internal/server/redis_session.go: sessions that    *)
(* several servers share. Create, GetUsername and Delete are one Redis     *)
(* command each; UpdateUsername is two, TTL and SET, with nothing that     *)
(* holds the key in between. A command may fail, and only Create reports   *)
(* it. UpdateUsername is called by handleRename, which has looked the      *)
(* token up before.                                                        *)
(*                                                                         *)
(* Time is what a key has left, in quarters of a second: the command TTL   *)
(* answers in seconds, rounded to the nearest.                             *)
(***************************************************************************)
EXTENDS Integers

CONSTANTS
    Tokens,     \* session tokens
    Usernames,
    Requests,   \* handleRename requests, on any server
    TTLs,       \* the session_ttl of the servers, in ticks; 0 makes SET store for ever
    None

TicksPerSecond == 4

ASSUME TTLAssumption == \A ttl \in TTLs : ttl \in Nat
ASSUME NoneAssumption == None \notin Tokens \cup Usernames

VARIABLES
    user,       \* the value of the key: the user, None when there is no key
    left,       \* ticks until Redis removes the key, Forever without expiry
    req,        \* what each request has read so far
    issued,     \* tokens that Create has returned; they are random and never come again
    life,       \* history: the ttl that Create stored the token with
    loggedOut,  \* history: tokens that Delete was called for
    raced       \* history: tokens whose DEL failed, or fell between a TTL and its SET

vars == <<user, left, req, issued, life, loggedOut, raced>>

\* What the client library makes of the answers of TTL: no expiry, and no such key.
Forever == -1
NoKey == -2

Idle == [pc |-> "idle", token |-> None, name |-> None, ttl |-> 0]

-----------------------------------------------------------------------------
\* SET with an expiration of 0 stores the key without expiry.
Expiry(ttl) == IF ttl = 0 THEN Forever ELSE ttl

\* Whole seconds, in ticks: Redis adds 500 milliseconds and divides by 1000.
Rounded(n) == TicksPerSecond * ((n + TicksPerSecond \div 2) \div TicksPerSecond)

\* The command TTL.
TTL(t) ==
    IF user[t] = None THEN NoKey
    ELSE IF left[t] = Forever THEN Forever
    ELSE Rounded(left[t])

Init ==
    /\ user = [t \in Tokens |-> None]
    /\ left = [t \in Tokens |-> 0]
    /\ req = [r \in Requests |-> Idle]
    /\ issued = {}
    /\ life = [t \in Tokens |-> 0]
    /\ loggedOut = {}
    /\ raced = {}

\* Create; when its SET fails the caller gets an error and nobody the token.
Create(t, u, ttl) ==
    /\ t \notin issued
    /\ issued' = issued \cup {t}
    /\ user' = [user EXCEPT ![t] = u]
    /\ left' = [left EXCEPT ![t] = Expiry(ttl)]
    /\ life' = [life EXCEPT ![t] = ttl]
    /\ UNCHANGED <<req, loggedOut, raced>>

\* GetUsername, at the start of handleRename: any error, or no key, ends the request.
GetUsername(r, t, name) ==
    /\ req[r] = Idle
    /\ user[t] # None
    /\ req' = [req EXCEPT ![r] = [pc |-> "ttl", token |-> t, name |-> name, ttl |-> 0]]
    /\ UNCHANGED <<user, left, issued, life, loggedOut, raced>>

\* Mutant: an answer of zero or less is taken for a key without expiry.
WithTTLZeroIsForever(ttl) == IF ttl > 0 THEN {ttl} ELSE IF ttl = NoKey THEN {} ELSE {0}

\* Mutant: a key that is gone is stored again, for as long as a new one.
WithTTLUnchecked(ttl) == IF ttl > 0 THEN {ttl} ELSE IF ttl = NoKey THEN TTLs ELSE {}

\* The two branches of UpdateUsername: the expiration SET is called with, if it is.
WithTTL(ttl) == IF ttl > 0 THEN {ttl} ELSE IF ttl = Forever THEN {0} ELSE {}

\* UpdateUsername's first command. The answer 0 stands for a key that has less than half a
\* second left and for a command that failed.
ReadTTL(r) ==
    /\ req[r].pc = "ttl"
    /\ \E ttl \in {TTL(req[r].token), 0} :
          \/ \E x \in WithTTL(ttl) :
                req' = [req EXCEPT ![r] = [@ EXCEPT !.pc = "set", !.ttl = x]]
          \/ /\ WithTTL(ttl) = {}
             /\ req' = [req EXCEPT ![r] = Idle]
    /\ UNCHANGED <<user, left, issued, life, loggedOut, raced>>

\* Its second command, whatever has become of the key; its error is not looked at.
SetName(r) ==
    /\ req[r].pc = "set"
    /\ req' = [req EXCEPT ![r] = Idle]
    /\ \/ /\ user' = [user EXCEPT ![req[r].token] = req[r].name]
          /\ left' = [left EXCEPT ![req[r].token] = Expiry(req[r].ttl)]
       \/ UNCHANGED <<user, left>>
    /\ UNCHANGED <<issued, life, loggedOut, raced>>

\* Some UpdateUsername of t has its TTL and not yet sent its SET.
Updating(t) == \E r \in Requests : req[r].pc = "set" /\ req[r].token = t

\* Delete, from handleLogout, which answers 204 whether DEL succeeded or not.
Delete(t) ==
    /\ t \in issued
    /\ loggedOut' = loggedOut \cup {t}
    /\ \/ /\ user' = [user EXCEPT ![t] = None]
          /\ left' = [left EXCEPT ![t] = 0]
          /\ raced' = IF Updating(t) THEN raced \cup {t} ELSE raced
       \/ /\ raced' = raced \cup {t}
          /\ UNCHANGED <<user, left>>
    /\ UNCHANGED <<req, issued, life>>

\* A quarter of a second passes; Redis drops the keys whose time is over.
Tick ==
    /\ left' = [t \in Tokens |-> IF left[t] > 0 THEN left[t] - 1 ELSE left[t]]
    /\ user' = [t \in Tokens |-> IF left[t] = 1 THEN None ELSE user[t]]
    /\ UNCHANGED <<req, issued, life, loggedOut, raced>>

Next ==
    \/ \E t \in Tokens, u \in Usernames, ttl \in TTLs : Create(t, u, ttl)
    \/ \E r \in Requests, t \in Tokens, name \in Usernames : GetUsername(r, t, name)
    \/ \E r \in Requests : ReadTTL(r) \/ SetName(r)
    \/ \E t \in Tokens : Delete(t)
    \/ Tick

Spec == Init /\ [][Next]_vars

-----------------------------------------------------------------------------
(* Properties.                                                             *)

\* Keys, requests and histories have the types of what they model.
TypeOK ==
    /\ user \in [Tokens -> Usernames \cup {None}]
    /\ left \in [Tokens -> Nat \cup {Forever}]
    /\ req \in [Requests -> [pc : {"idle", "ttl", "set"}, token : Tokens \cup {None},
                             name : Usernames \cup {None}, ttl : Nat]]
    /\ issued \in SUBSET Tokens
    /\ life \in [Tokens -> TTLs \cup {0}]
    /\ loggedOut \in SUBSET Tokens
    /\ raced \in SUBSET Tokens

\* The most that a key stored with n has left after any number of renames.
Longest(n) == IF Rounded(n) > n THEN Rounded(n) ELSE n

\* A rename stores the key again with a time to live that was read earlier and rounded. It
\* never makes a session last for ever that was to expire, nor the other way round, and
\* never gives it more time from then on than the login did (in whole seconds), in whatever
\* order the commands of several renames, a logout and the expiry of the key arrive.
LifeAsCreated ==
    \A t \in Tokens : user[t] # None =>
        IF life[t] = 0 THEN left[t] = Forever ELSE left[t] \in 1 .. Longest(life[t])

\* After a logout the token is refused on every server, unless its DEL failed or came
\* between the TTL and the SET of a rename.
LogoutUndoneOnlyByRace == \A t \in loggedOut : user[t] # None => t \in raced
=============================================================================
