------------------------------ MODULE Storage ------------------------------
(***************************************************************************)
(* Groups and friendships: internal/db/db.go as handleGroup and            *)
(* handleFriend of internal/server/web.go and the group commands of the    *)
(* TCP side call it.                                                       *)
(*                                                                         *)
(* Requests run concurrently. A statement outside a transaction commits by *)
(* itself, so CreateGroup is two commits; AddFriend and RemoveFriend are   *)
(* one transaction of two statements, which holds SQLite's write lock from *)
(* the first of them. Any statement may fail, and the server may crash     *)
(* between any two. Users and groups are never deleted.                    *)
(***************************************************************************)
EXTENDS Naturals, FiniteSets

CONSTANTS
    Requests,   \* bound: requests to the server
    Users,      \* rows of users
    Groups,     \* group names
    None

ASSUME NoneAssumption == None \notin Requests \cup Users \cup {"ok", "error"}

VARIABLES
    creator,    \* table groups: name -> creator_id, None when there is no row
    members,    \* table group_members: group -> users
    friends,    \* table friends: pairs <<user_id, friend_id>>, committed
    writer,     \* the transaction that holds the write lock, None if none does
    draft,      \* the friends table as the open transaction sees it, else None
    req,        \* what each request asks for
    pc,         \* where its handler is
    answer,     \* what its client was told
    left,       \* history: pairs <<group, user>> that LeaveGroup has deleted
    torn        \* history: groups whose CreateGroup ended between its two inserts

vars == <<creator, members, friends, writer, draft, req, pc, answer, left, torn>>
groupVars == <<creator, members, left, torn>>
friendVars == <<friends, writer, draft>>

GroupOps == {"create", "join", "invite", "leave", "kick"}
FriendOps == {"add", "remove"}
Request == [op : GroupOps \cup FriendOps, me : Users, other : Users, group : Groups]
InTransaction == {"second", "commit", "rollback"}
Labels == {"new", "create", "creator", "find", "join", "leave", "first", "end"} \cup InTransaction

\* The user that joins, leaves, is invited or is kicked.
Subject(r) == IF req[r].op \in {"invite", "kick"} THEN req[r].other ELSE req[r].me

End(r, a) ==
    /\ pc' = [pc EXCEPT ![r] = "end"]
    /\ answer' = [answer EXCEPT ![r] = a]

Goto(r, l) ==
    /\ pc' = [pc EXCEPT ![r] = l]
    /\ UNCHANGED answer

-----------------------------------------------------------------------------
Init ==
    /\ creator = [g \in Groups |-> None]
    /\ members = [g \in Groups |-> {}]
    /\ friends = {}
    /\ writer = None
    /\ draft = None
    /\ req = [r \in Requests |-> None]
    /\ pc = [r \in Requests |-> "new"]
    /\ answer = [r \in Requests |-> None]
    /\ left = {}
    /\ torn = {}

\* The first statement of a request. AddFriend refuses a friendship with oneself before
\* it executes any.
Entry(q) ==
    CASE q.op = "create" -> "create"
      [] q.op \in GroupOps \ {"create"} -> "find"
      [] q.op = "add" /\ q.me = q.other -> "end"
      [] OTHER -> "first"

\* handleGroup, handleFriend and DoMessage: the caller and the other user exist.
Receive(r, q) ==
    /\ pc[r] = "new"
    /\ req' = [req EXCEPT ![r] = q]
    /\ pc' = [pc EXCEPT ![r] = Entry(q)]
    /\ answer' = [answer EXCEPT ![r] = IF Entry(q) = "end" THEN "error" ELSE None]
    /\ UNCHANGED <<groupVars, friendVars>>

-----------------------------------------------------------------------------
(* Groups.                                                                 *)

\* Mutant: INSERT OR REPLACE.
InsertGroupOrReplace(r) ==
    /\ pc[r] = "create"
    /\ writer = None
    /\ creator' = [creator EXCEPT ![req[r].group] = req[r].me]
    /\ Goto(r, "creator")
    /\ UNCHANGED <<members, left, torn, friendVars, req>>

\* CreateGroup: INSERT INTO groups, whose name is UNIQUE.
InsertGroup(r) ==
    /\ pc[r] = "create"
    /\ writer = None
    /\ IF creator[req[r].group] = None
       THEN /\ creator' = [creator EXCEPT ![req[r].group] = req[r].me]
            /\ Goto(r, "creator")
       ELSE /\ End(r, "error")
            /\ UNCHANGED creator
    /\ UNCHANGED <<members, left, torn, friendVars, req>>

\* CreateGroup: INSERT INTO group_members, which fails if the creator has become a member
\* since the first insert.
InsertCreator(r) ==
    /\ pc[r] = "creator"
    /\ writer = None
    /\ members' = [members EXCEPT ![req[r].group] = @ \cup {req[r].me}]
    /\ End(r, IF req[r].me \in members[req[r].group] THEN "error" ELSE "ok")
    /\ UNCHANGED <<creator, left, torn, friendVars, req>>

\* JoinGroup and LeaveGroup: SELECT id FROM groups. Before it, a kick looks whether the
\* caller is the creator.
FindGroup(r) ==
    /\ pc[r] = "find"
    /\ LET c == creator[req[r].group]
       IN  IF c = None \/ (req[r].op = "kick" /\ c # req[r].me)
           THEN End(r, "error")
           ELSE Goto(r, IF req[r].op \in {"join", "invite"} THEN "join" ELSE "leave")
    /\ UNCHANGED <<groupVars, friendVars, req>>

\* JoinGroup: INSERT OR IGNORE.
JoinGroup(r) ==
    /\ pc[r] = "join"
    /\ writer = None
    /\ members' = [members EXCEPT ![req[r].group] = @ \cup {Subject(r)}]
    /\ End(r, "ok")
    /\ UNCHANGED <<creator, left, torn, friendVars, req>>

\* Mutant: DELETE without "AND user_id = ?".
LeaveGroupAll(r) ==
    /\ pc[r] = "leave"
    /\ writer = None
    /\ members' = [members EXCEPT ![req[r].group] = {}]
    /\ left' = left \cup {<<req[r].group, Subject(r)>>}
    /\ End(r, "ok")
    /\ UNCHANGED <<creator, torn, friendVars, req>>

\* LeaveGroup: DELETE, and an error when no row is affected.
LeaveGroup(r) ==
    /\ pc[r] = "leave"
    /\ writer = None
    /\ LET g == req[r].group
       IN  IF Subject(r) \in members[g]
           THEN /\ members' = [members EXCEPT ![g] = @ \ {Subject(r)}]
                /\ left' = left \cup {<<g, Subject(r)>>}
                /\ End(r, "ok")
           ELSE /\ End(r, "error")
                /\ UNCHANGED <<members, left>>
    /\ UNCHANGED <<creator, torn, friendVars, req>>

-----------------------------------------------------------------------------
(* Friends.                                                                *)

\* One direction of the friendship, inserted or deleted.
Changed(table, r, pair) == IF req[r].op = "add" THEN table \cup {pair} ELSE table \ {pair}

\* RemoveFriend returns with an error, and rolls back, when a DELETE affects no row.
NoRow(table, r, pair) == req[r].op = "remove" /\ pair \notin table

\* Begin and the statement for <<userID, friendID>>, which takes the write lock.
FirstDirection(r) ==
    /\ pc[r] = "first"
    /\ writer = None
    /\ writer' = r
    /\ LET pair == <<req[r].me, req[r].other>>
       IN  /\ draft' = Changed(friends, r, pair)
           /\ Goto(r, IF NoRow(friends, r, pair) THEN "rollback" ELSE "second")
    /\ UNCHANGED <<groupVars, friends, req>>

\* Mutant: the same direction twice.
SecondDirectionAgain(r) ==
    /\ pc[r] = "second"
    /\ Goto(r, "commit")
    /\ UNCHANGED <<groupVars, friendVars, req>>

\* The statement for <<friendID, userID>>.
SecondDirection(r) ==
    /\ pc[r] = "second"
    /\ LET pair == <<req[r].other, req[r].me>>
       IN  /\ draft' = Changed(draft, r, pair)
           /\ Goto(r, IF NoRow(draft, r, pair) THEN "rollback" ELSE "commit")
    /\ UNCHANGED <<groupVars, friends, writer, req>>

Commit(r) ==
    /\ pc[r] = "commit"
    /\ friends' = draft
    /\ writer' = None
    /\ draft' = None
    /\ End(r, "ok")
    /\ UNCHANGED <<groupVars, req>>

\* The deferred tx.Rollback.
Rollback(r) ==
    /\ pc[r] = "rollback"
    /\ writer' = None
    /\ draft' = None
    /\ End(r, "error")
    /\ UNCHANGED <<groupVars, friends, req>>

-----------------------------------------------------------------------------
(* Failures.                                                               *)

\* A statement fails (the lock was not free within busy_timeout, the disk is full):
\* the handler answers with the error, from inside a transaction by way of Rollback.
Fail(r) ==
    /\ pc[r] \notin {"new", "end", "rollback"}
    /\ IF pc[r] \in InTransaction THEN Goto(r, "rollback") ELSE End(r, "error")
    /\ torn' = IF pc[r] = "creator" THEN torn \cup {req[r].group} ELSE torn
    /\ UNCHANGED <<creator, members, left, friendVars, req>>

\* The server dies and comes back: what is committed stays, nobody is answered.
Crash ==
    /\ \E r \in Requests : pc[r] \notin {"new", "end"}
    /\ pc' = [r \in Requests |-> IF pc[r] = "new" THEN "new" ELSE "end"]
    /\ writer' = None
    /\ draft' = None
    /\ torn' = torn \cup {req[r].group : r \in {x \in Requests : pc[x] = "creator"}}
    /\ UNCHANGED <<creator, members, friends, req, answer, left>>

-----------------------------------------------------------------------------
Handle(r) ==
    \/ InsertGroup(r)
    \/ InsertCreator(r)
    \/ FindGroup(r)
    \/ JoinGroup(r)
    \/ LeaveGroup(r)
    \/ FirstDirection(r)
    \/ SecondDirection(r)
    \/ Commit(r)
    \/ Rollback(r)
    \/ Fail(r)

Next ==
    \/ \E r \in Requests : Handle(r) \/ \E q \in Request : Receive(r, q)
    \/ Crash

Spec == Init /\ [][Next]_vars

-----------------------------------------------------------------------------
(* Properties.                                                             *)

\* Types of the tables and the handlers' state; a transaction is open exactly while
\* somebody holds the write lock.
TypeOK ==
    /\ creator \in [Groups -> Users \cup {None}]
    /\ members \in [Groups -> SUBSET Users]
    /\ friends \subseteq Users \X Users
    /\ writer \in Requests \cup {None}
    /\ IF writer = None THEN draft = None ELSE draft \subseteq Users \X Users
    /\ req \in [Requests -> Request \cup {None}]
    /\ pc \in [Requests -> Labels]
    /\ answer \in [Requests -> {None, "ok", "error"}]
    /\ left \subseteq Groups \X Users
    /\ torn \subseteq Groups

\* db.go calls a friendship a relation in both directions. What is committed is symmetric,
\* whichever adds and removes overlap, fail half way or are cut off by a crash. It is
\* also why RemoveFriend's error return on the second DELETE is never taken.
FriendsSymmetric ==
    \A u, v \in Users : <<u, v>> \in friends => <<v, u>> \in friends /\ u # v

\* The write lock is held by a handler that still has a statement to execute: nobody
\* waits for a request that is over or for a server that died.
WriterIsBusy == \A r \in Requests : writer = r => pc[r] \in InTransaction

\* Somebody has asked to end the membership, or the friendship, that r asked for.
Received(r, ops) == pc[r] # "new" /\ req[r].op \in ops

EndAsked(r) ==
    \E s \in Requests :
        /\ Received(s, {"leave", "kick"})
        /\ req[s].group = req[r].group /\ Subject(s) = Subject(r)

BreakAsked(r) ==
    \E s \in Requests :
        /\ Received(s, {"remove"})
        /\ \/ req[s].me = req[r].me /\ req[s].other = req[r].other
           \/ req[s].me = req[r].other /\ req[s].other = req[r].me

MembershipKept(r) ==
    req[r].op \in {"create", "join", "invite"} /\ ~EndAsked(r)
        => Subject(r) \in members[req[r].group]

FriendshipKept(r) ==
    req[r].op = "add" /\ ~BreakAsked(r) => <<req[r].me, req[r].other>> \in friends

\* A membership that was confirmed to a client is there as long as nobody has asked to end
\* it, and so is a friendship: no crash and no other request loses it.
AcknowledgedIsDurable ==
    \A r \in Requests : answer[r] = "ok" => MembershipKept(r) /\ FriendshipKept(r)

\* The creator of a group is one of its members from CreateGroup's second insert until he
\* leaves or is removed. A group without its creator otherwise is one whose creation is
\* still under way, or was cut off between the two inserts.
CreatorIsMember ==
    \A g \in Groups :
        \/ creator[g] \in members[g] \cup {None}
        \/ <<g, creator[g]>> \in left
        \/ g \in torn
        \/ \E r \in Requests : pc[r] = "creator" /\ req[r].group = g

\* Two requests that create the same group: whoever is told "ok" is the creator, so at
\* most one user is.
ToldIsCreator ==
    \A r \in Requests :
        answer[r] = "ok" /\ req[r].op = "create" => creator[req[r].group] = req[r].me

=============================================================================
