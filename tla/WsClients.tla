------------------------------ MODULE WsClients ------------------------------
(***************************************************************************)
(* The WebSocket side of the server: internal/server/wss.go, and the HTTP  *)
(* handlers of internal/server/web.go that create, rename and delete what  *)
(* it depends on (login, logout, rename).                                  *)
(*                                                                         *)
(* Every WebSocket has a goroutine, handleWebSocket, that authenticates,   *)
(* evicts the connection that WSConns holds for the same user, stores its  *)
(* own client, reads until the connection ends and then removes, by the    *)
(* username it authenticated with, what WSConns holds at that time.        *)
(* A rename request moves a client to another name between these steps.    *)
(***************************************************************************)
EXTENDS Naturals, FiniteSets

CONSTANTS
    Clients,    \* WebSocket connections (WSClient values)
    Requests,   \* bound: rename requests
    Tokens,     \* session tokens
    Accounts,   \* usernames in the database
    Nicknames,  \* other names a rename may ask for
    None,       \* no client, no name
    Ended       \* in place of the username: the session was deleted or has expired

Names == Accounts \cup Nicknames

ASSUME NoneAssumption == {None, Ended} \cap (Names \cup Clients) = {} /\ None # Ended

VARIABLES
    WSConns,    \* Server.WSConns: name -> client, None when absent
    Name,       \* WSClient.Name, None before the client is built
    username,   \* handleWebSocket's local username
    cancelled,  \* the client's context is done
    pc,         \* handleWebSocket
    session,    \* SessionStore: token -> username, None before the login, Ended after
    rpc,        \* handleRename
    rarg,       \* handleRename's locals: the token, the old and the new name
    renamed,    \* history: clients that RenameWSClient has moved
    overwritten \* history: clients that AddWSClient stored another client over

vars == <<WSConns, Name, username, cancelled, pc, session, rpc, rarg, renamed,
          overwritten>>
renameVars == <<rpc, rarg, renamed>>

Labels == {"new", "remove", "add", "read", "exit", "end"}
RenameArgs == [token : Tokens, old : Names, new : Names]

Registered(h) == \E n \in Names : WSConns[n] = h

HasSession(t) == session[t] \in Names

\* The user of h believes to be connected: the read loop runs, the context is not done.
Live(h) == pc[h] = "read" /\ ~cancelled[h]

-----------------------------------------------------------------------------
(* WSConns, every access under wsLock.                                     *)

\* Mutant: the entry is deleted, the client's goroutines are left running.
RemoveWithoutCancel(n) ==
    /\ WSConns' = [WSConns EXCEPT ![n] = None]
    /\ UNCHANGED cancelled

\* RemoveWSClient: whichever client is stored under the name is cancelled and deleted.
RemoveWSClient(n) ==
    /\ WSConns' = [WSConns EXCEPT ![n] = None]
    /\ cancelled' = [h \in Clients |-> cancelled[h] \/ WSConns[n] = h]

\* RenameWSClient refuses a taken name and an absent client.
CanRename(old, new) == WSConns[new] = None /\ WSConns[old] # None

-----------------------------------------------------------------------------
(* handleWebSocket.                                                        *)

Init ==
    /\ WSConns = [n \in Names |-> None]
    /\ Name = [h \in Clients |-> None]
    /\ username = [h \in Clients |-> None]
    /\ cancelled = [h \in Clients |-> FALSE]
    /\ pc = [h \in Clients |-> "new"]
    /\ session = [t \in Tokens |-> None]
    /\ rpc = [q \in Requests |-> "new"]
    /\ rarg = [q \in Requests |-> None]
    /\ renamed = {}
    /\ overwritten = {}

\* The first message carries a token: GetUsernameByToken. Without a session the
\* connection is closed and leaves no trace.
Auth(h, t) ==
    /\ pc[h] = "new"
    /\ IF HasSession(t)
       THEN /\ username' = [username EXCEPT ![h] = session[t]]
            /\ pc' = [pc EXCEPT ![h] = "remove"]
       ELSE /\ pc' = [pc EXCEPT ![h] = "end"]
            /\ UNCHANGED username
    /\ UNCHANGED <<WSConns, Name, cancelled, session, renameVars, overwritten>>

\* "Remove any existing connection for this user", then GetUserByUsername: a name
\* that is no account ends the handler, and so does any error of the database.
RemoveExisting(h) ==
    /\ pc[h] = "remove"
    /\ RemoveWSClient(username[h])
    /\ \/ /\ username[h] \in Accounts
          /\ Name' = [Name EXCEPT ![h] = username[h]]
          /\ pc' = [pc EXCEPT ![h] = "add"]
       \/ /\ pc' = [pc EXCEPT ![h] = "end"]
          /\ UNCHANGED Name
    /\ UNCHANGED <<username, session, renameVars, overwritten>>

\* AddWSClient, after auth_ok has been written: stores h whatever is there by now.
AddWSClient(h) ==
    /\ pc[h] = "add"
    /\ WSConns' = [WSConns EXCEPT ![Name[h]] = h]
    /\ overwritten' = overwritten \cup ({WSConns[Name[h]]} \ {None})
    /\ pc' = [pc EXCEPT ![h] = "read"]
    /\ UNCHANGED <<Name, username, cancelled, session, renameVars>>

\* Mutant: the read loop does not look at the client's context.
ReadIgnoresContext(h) ==
    /\ pc[h] = "read"
    /\ ~cancelled[h]
    /\ cancelled' = [cancelled EXCEPT ![h] = TRUE]
    /\ pc' = [pc EXCEPT ![h] = "exit"]
    /\ UNCHANGED <<WSConns, Name, username, session, renameVars, overwritten>>

\* conn.Read fails: the peer has gone or the context is done. Then cancel().
ReadFails(h) ==
    /\ pc[h] = "read"
    /\ cancelled' = [cancelled EXCEPT ![h] = TRUE]
    /\ pc' = [pc EXCEPT ![h] = "exit"]
    /\ UNCHANGED <<WSConns, Name, username, session, renameVars, overwritten>>

\* Mutant: the handler returns without its deferred RemoveWSClient.
ExitWithoutRemove(h) ==
    /\ pc[h] = "exit"
    /\ pc' = [pc EXCEPT ![h] = "end"]
    /\ UNCHANGED <<WSConns, Name, username, cancelled, session, renameVars, overwritten>>

\* defer s.RemoveWSClient(username): the name of the login, not the client's name.
DeferredRemove(h) ==
    /\ pc[h] = "exit"
    /\ RemoveWSClient(username[h])
    /\ pc' = [pc EXCEPT ![h] = "end"]
    /\ UNCHANGED <<Name, username, session, renameVars, overwritten>>

-----------------------------------------------------------------------------
(* The HTTP handlers.                                                      *)

\* handleLogin: CreateSession for an account; tokens are random and never come again.
Login(t, n) ==
    /\ session[t] = None
    /\ session' = [session EXCEPT ![t] = n]
    /\ UNCHANGED <<WSConns, Name, username, cancelled, pc, renameVars, overwritten>>

\* handleLogout: DeleteSession. The WebSocket is left alone. Expiry has the same effect.
Logout(t) ==
    /\ HasSession(t)
    /\ session' = [session EXCEPT ![t] = Ended]
    /\ UNCHANGED <<WSConns, Name, username, cancelled, pc, renameVars, overwritten>>

\* handleRename: GetUsernameByToken.
RenameStart(q, t, new) ==
    /\ rpc[q] = "new"
    /\ HasSession(t)
    /\ rarg' = [rarg EXCEPT ![q] = [token |-> t, old |-> session[t], new |-> new]]
    /\ rpc' = [rpc EXCEPT ![q] = "check"]
    /\ UNCHANGED <<WSConns, Name, username, cancelled, pc, session, renamed, overwritten>>

\* IsNameTaken: the request is refused if WSConns has the new name, or if OnlineMap has
\* it, which is up to the TCP users. Nothing keeps the name free after this.
IsNameTaken(q) ==
    /\ rpc[q] = "check"
    /\ \E inTcp \in BOOLEAN :
           rpc' = [rpc EXCEPT ![q] =
                      IF inTcp \/ WSConns[rarg[q].new] # None THEN "end" ELSE "rename"]
    /\ UNCHANGED <<WSConns, Name, username, cancelled, pc, session, rarg, renamed, overwritten>>

\* Mutant: the client keeps its old name in WSClient.Name.
MovedKeepsName(q) == Name

\* WSClient.Name of the client that moves.
Moved(q) == [h \in Clients |-> IF WSConns[rarg[q].old] = h THEN rarg[q].new ELSE Name[h]]

\* RenameWSClient, one critical section; an error ends the request.
RenameWSClient(q) ==
    /\ rpc[q] = "rename"
    /\ LET old == rarg[q].old
           new == rarg[q].new
       IN  IF CanRename(old, new)
           THEN /\ WSConns' = [WSConns EXCEPT ![old] = None, ![new] = WSConns[old]]
                /\ Name' = Moved(q)
                /\ renamed' = renamed \cup {WSConns[old]}
                /\ rpc' = [rpc EXCEPT ![q] = "session"]
           ELSE /\ rpc' = [rpc EXCEPT ![q] = "end"]
                /\ UNCHANGED <<WSConns, Name, renamed>>
    /\ UNCHANGED <<username, cancelled, pc, session, rarg, overwritten>>

\* UpdateSessionUsername: only if the session is still there. The account in the
\* database keeps its name.
RenameSession(q) ==
    /\ rpc[q] = "session"
    /\ session' = [session EXCEPT ![rarg[q].token] = IF @ = Ended THEN @ ELSE rarg[q].new]
    /\ rpc' = [rpc EXCEPT ![q] = "end"]
    /\ UNCHANGED <<WSConns, Name, username, cancelled, pc, rarg, renamed, overwritten>>

-----------------------------------------------------------------------------
handleWebSocket(h) ==
    \/ \E t \in Tokens : Auth(h, t)
    \/ RemoveExisting(h)
    \/ AddWSClient(h)
    \/ ReadFails(h)
    \/ DeferredRemove(h)

handleRename(q) ==
    \/ \E t \in Tokens, new \in Names : RenameStart(q, t, new)
    \/ IsNameTaken(q)
    \/ RenameWSClient(q)
    \/ RenameSession(q)

Next ==
    \/ \E h \in Clients : handleWebSocket(h)
    \/ \E q \in Requests : handleRename(q)
    \/ \E t \in Tokens : Logout(t) \/ \E n \in Accounts : Login(t, n)

Spec == Init /\ [][Next]_vars

\* A handler that has started goes on; a read on a cancelled context returns.
Fairness ==
    \A h \in Clients :
        /\ WF_vars(RemoveExisting(h) \/ AddWSClient(h) \/ DeferredRemove(h))
        /\ WF_vars(cancelled[h] /\ ReadFails(h))

FairSpec == Spec /\ Fairness

-----------------------------------------------------------------------------
(* Properties.                                                             *)

\* Types of the maps, the clients and the handlers' locals.
TypeOK ==
    /\ WSConns \in [Names -> Clients \cup {None}]
    /\ Name \in [Clients -> Names \cup {None}]
    /\ username \in [Clients -> Names \cup {None}]
    /\ cancelled \in [Clients -> BOOLEAN]
    /\ pc \in [Clients -> Labels]
    /\ session \in [Tokens -> Names \cup {None, Ended}]
    /\ rpc \in [Requests -> {"new", "check", "rename", "session", "end"}]
    /\ rarg \in [Requests -> RenameArgs \cup {None}]
    /\ {renamed, overwritten} \subseteq SUBSET Clients

\* A client is stored under its WSClient.Name and no other name: what it sends (from
\* client.Name) and what it receives (by key) are the same user's, also while
\* renames, evictions and late deferred removals interleave.
KeyIsClientName == \A n \in Names : WSConns[n] # None => Name[WSConns[n]] = n

\* A handler that has returned leaves its client in WSConns only if a rename moved it
\* away from the name that the deferred RemoveWSClient looks under.
GhostOnlyAfterRename == \A h \in Clients : Registered(h) /\ pc[h] = "end" => h \in renamed

\* A client whose connection works gets its messages: it is in WSConns, unless another
\* client was stored over it between that one's eviction step and AddWSClient.
LiveIsRegistered == \A h \in Clients : Live(h) /\ h \notin overwritten => Registered(h)

\* A client that the server cancels is out of WSConns at once: one that is cancelled and
\* still registered is leaving by itself, or is the ghost of a rename.
CancelledIsLeaving ==
    \A h \in Clients : cancelled[h] /\ Registered(h) => pc[h] \in {"exit", "end"}

\* Evicting a client ends its handler.
CancelledEnds == \A h \in Clients : cancelled[h] ~> pc[h] = "end"

==============================================================================
