------------------------------ MODULE Delivery ------------------------------
(***************************************************************************)
(* How a message gets from its sender to the connections of one or more    *)
(* servers: broadcastPublic, broadcastToGroup, sendPrivate and the bus     *)
(* receiver of internal/server/server.go, RedisMessageBus of               *)
(* internal/server/redis_bus.go and the history of internal/db/db.go.      *)
(*                                                                         *)
(* A sender's reader loop handles one message after the other: it saves    *)
(* the message, offers it to the TCP users, then to the WebSocket clients  *)
(* of its own server, and publishes public and system messages on the bus. *)
(* Recipients of private and group messages are names, looked up when      *)
(* their turn comes. Connections come and go, load the history and change  *)
(* their names in between. Requests to /api/send do the same as a reader,  *)
(* each in a goroutine of its own.                                         *)
(***************************************************************************)
EXTENDS Naturals, FiniteSets, Sequences

CONSTANTS
    Servers,
    Conns,        \* connections (User, WSClient); each is registered at most once
    Home,         \* connection -> its server
    Tcp,          \* the connections that are TCP users; the others are WebSockets
    Names,        \* usernames, addresses and whatever else a client may rename itself to
    FirstName,    \* connection -> the name it registers under
    Lines,        \* message -> what the clients may say in it: records [from, via, mode, to]
    MaxMessages,  \* bound: messages sent
    MaxTroubles,  \* bound: drops, losses, repeated PUBLISHes and renames together
    None

Messages == 1 .. MaxMessages    \* numbered in the order in which they are said
Modes == {"public", "private", "group", "system"}
Message == [from : Conns, via : {"reader", "post", "server"}, mode : Modes, to : SUBSET Names]

ASSUME HomeAssumption == Home \in [Conns -> Servers] /\ Tcp \subseteq Conns
ASSUME NamesAssumption == FirstName \in [Conns -> Names]
ASSUME BoundsAssumption == MaxMessages \in Nat /\ MaxTroubles \in Nat
ASSUME NoneAssumption == None \notin Message

\* Public and system messages are for everybody, a private one for the name it gives, a
\* group's for the names of its members as GetGroupMembers returns them. The server
\* announces TCP users (sysOnline, sysOffline).
ASSUME LinesAssumption ==
    \A m \in Messages : \A q \in Lines[m] :
        /\ q \in Message
        /\ q.mode \in {"public", "system"} => q.to = Names
        /\ q.mode = "private" => \E n \in Names : q.to = {n}
        /\ q.mode = "group" => q.to # {}
        /\ q.mode = "system" <=> q.via = "server"
        /\ q.mode = "system" => q.from \in Tcp

VARIABLES
    conn,       \* connection: "new", "on" (in OnlineMap or WSConns), "off"
    name,       \* the key it has there
    renames,    \* renames so far
    msg,        \* message -> the line, None before it is said
    pc,         \* what the sender's handler does with it next
    left,       \* names that the handler has not looked up in WSConns yet
    saved,      \* server -> its table messages
    received,   \* connection -> what its queue accepted, in order
    dropped,    \* pairs <<message, connection>>: the queue was full
    bus,        \* server -> messages that Redis has for its subscription
    strays,     \* messages of which a PUBLISH without an answer may still get to Redis
    lost,       \* Redis has failed to take or to hand over a message
    history,    \* connection -> what it loaded while registered, None before
    own,        \* ... and whether that is the history of the name it has now
    present,    \* history: message -> its recipients that were registered when it was said,
                \* and still are
    moved,      \* history: message -> connections that were renamed while it was handled
    retried     \* history: messages that go-redis has published again

vars == <<conn, name, renames, msg, pc, left, saved, received, dropped, bus, strays, lost, history,
          own, present, moved, retried>>
connVars == <<conn, name, renames, history, own>>
busVars == <<bus, strays, lost, retried>>

Labels == {"new", "save", "tcp", "ws", "publish", "done"}

Origin(m) == Home[msg[m].from]

\* The connections that OnlineMap or WSConns of s may hold.
At(s) == {c \in Conns : Home[c] = s}

\* The message is for everybody: nobody is looked up by name.
ForAll(m) == msg[m].mode \in {"public", "system"}

UnderWay(m) == pc[m] \notin {"new", "done"}

\* What MaxTroubles bounds.
Troubles == renames + Cardinality(dropped) + Cardinality(retried) + (IF lost THEN 1 ELSE 0)

-----------------------------------------------------------------------------
Init ==
    /\ conn = [c \in Conns |-> "new"]
    /\ name = FirstName
    /\ renames = 0
    /\ msg = [m \in Messages |-> None]
    /\ pc = [m \in Messages |-> "new"]
    /\ left = [m \in Messages |-> {}]
    /\ saved = [s \in Servers |-> {}]
    /\ received = [c \in Conns |-> <<>>]
    /\ dropped = {}
    /\ bus = [s \in Servers |-> <<>>]
    /\ strays = {}
    /\ lost = FALSE
    /\ history = [c \in Conns |-> None]
    /\ own = [c \in Conns |-> FALSE]
    /\ present = [m \in Messages |-> {}]
    /\ moved = [m \in Messages |-> {}]
    /\ retried = {}

\* The map of c's kind on its server has nothing under n.
Free(c, n) ==
    \A d \in Conns : conn[d] = "on" /\ Home[d] = Home[c] /\ (d \in Tcp <=> c \in Tcp) => name[d] # n

\* Online, AddWSClient. Whoever has the name is removed first (RemoveWSClient), or loses its
\* entry to the new one, which comes to the same.
Connect(c) ==
    /\ conn[c] = "new"
    /\ Free(c, name[c])
    /\ conn' = [conn EXCEPT ![c] = "on"]
    /\ UNCHANGED <<name, renames, msg, pc, left, saved, received, dropped, history, own, present,
                   moved, busVars>>

\* Offline, RemoveWSClient. What this connection had seen goes with it, and its name.
Disconnect(c) ==
    /\ conn[c] = "on"
    /\ conn' = [conn EXCEPT ![c] = "off"]
    /\ name' = [name EXCEPT ![c] = FirstName[c]]
    /\ received' = [received EXCEPT ![c] = <<>>]
    /\ history' = [history EXCEPT ![c] = None]
    /\ own' = [own EXCEPT ![c] = FALSE]
    /\ dropped' = {d \in dropped : d[2] # c}
    /\ present' = [m \in Messages |-> present[m] \ {c}]
    /\ moved' = [m \in Messages |-> moved[m] \ {c}]
    /\ UNCHANGED <<renames, msg, pc, left, saved, busVars>>

\* RenameUser (also of a login, which replaces the address), RenameWSClient.
Rename(c, n) ==
    /\ conn[c] = "on"
    /\ Troubles < MaxTroubles
    /\ Free(c, n)
    /\ name' = [name EXCEPT ![c] = n]
    /\ renames' = renames + 1
    /\ own' = [own EXCEPT ![c] = FALSE]
    /\ moved' = [m \in Messages |-> IF UnderWay(m) /\ ~ForAll(m) THEN moved[m] \cup {c}
                                                         ELSE moved[m]]
    /\ UNCHANGED <<conn, msg, pc, left, saved, received, dropped, history, present, busVars>>

\* GetPublicMessages, GetGroupMessages, GetPrivateMessages for what was said to n; what n said
\* itself is left out. Paging is left out: one page holds more than MaxMessages.
HistoryOf(s, n) == {m \in saved[s] : n \in msg[m].to}

\* handleHistory on the connection's server, for the username n of the session, which is not
\* always the client's: handleRename changes it after the client's, or fails to. Then it is
\* another, and which one matters only to what is loaded. TCP users have no command for it.
LoadHistory(c, n) ==
    /\ conn[c] = "on" /\ c \notin Tcp
    /\ history[c] = None
    /\ history' = [history EXCEPT ![c] = HistoryOf(Home[c], n)]
    /\ own' = [own EXCEPT ![c] = name[c] = n]
    /\ UNCHANGED <<conn, name, renames, msg, pc, left, saved, received, dropped, present, moved,
                   busVars>>

\* A handler starts with the line q.
Send(m, q) ==
    /\ pc[m] = "new"
    /\ \A n \in Messages : n < m => pc[n] # "new"
    /\ msg' = [msg EXCEPT ![m] = q]
    /\ pc' = [pc EXCEPT ![m] = "save"]
    /\ present' = [present EXCEPT ![m] = {c \in Conns : conn[c] = "on" /\ name[c] \in q.to}]
    /\ UNCHANGED <<left, saved, received, dropped, moved, connVars, busVars>>

\* handleWSMessage, DoMessage: the reader of a connection handles one line after the other.
handleWSMessage(m, q) ==
    /\ q.via = "reader"
    /\ conn[q.from] = "on"
    /\ \A n \in Messages : UnderWay(n) /\ msg[n].via = "reader" => msg[n].from # q.from
    /\ Send(m, q)

\* handleSend: a request with the user's token; nothing orders requests.
handleSend(m, q) == q.via = "post" /\ Send(m, q)

\* BroadCast(sysOnline) once the user is in OnlineMap, BroadCast(sysOffline) when it has
\* been taken out, possibly by Handler while the reader is at work.
Announce(m, q) == q.via = "server" /\ conn[q.from] # "new" /\ Send(m, q)

\* broadcastToGroup and sendPrivate give up: unknown sender, recipient or group.
Reject(m) ==
    /\ pc[m] = "save"
    /\ msg[m].mode \in {"private", "group"}
    /\ pc' = [pc EXCEPT ![m] = "done"]
    /\ present' = [present EXCEPT ![m] = {}]
    /\ UNCHANGED <<msg, left, saved, received, dropped, moved, connVars, busVars>>

\* SaveMessage; an error is only logged, and broadcastPublic skips it for a sender that
\* has no account.
SaveMessage(m) ==
    /\ pc[m] = "save"
    /\ pc' = [pc EXCEPT ![m] = "tcp"]
    /\ \/ saved' = [saved EXCEPT ![Origin(m)] = @ \cup {m}]
       \/ saved' = saved
    /\ UNCHANGED <<msg, left, received, dropped, present, moved, connVars, busVars>>

\* The non-blocking sends to the registered connections of D: a full queue drops.
Offer(m, D) ==
    LET on == {c \in D : conn[c] = "on"}
    IN  \E full \in SUBSET on :
            /\ received' = [c \in Conns |-> IF c \in on \ full THEN Append(received[c], m)
                                                               ELSE received[c]]
            /\ dropped' = dropped \cup {<<m, c>> : c \in full}
            /\ full # {} => Troubles + Cardinality(full) <= MaxTroubles

\* What OnlineMap and WSConns of s have under the names N.
OnlineMap(s, N) == {c \in At(s) \cap Tcp : name[c] \in N}
WSConns(s, N) == {c \in At(s) \ Tcp : name[c] \in N}

\* fanoutTCP, deliverToGroupMembersTCP: all under one mapLock.RLock; deliverPrivateTCP.
DeliverTCP(m) ==
    /\ pc[m] = "tcp"
    /\ Offer(m, OnlineMap(Origin(m), msg[m].to))
    /\ pc' = [pc EXCEPT ![m] = "ws"]
    /\ left' = [left EXCEPT ![m] = msg[m].to]
    /\ UNCHANGED <<msg, saved, present, moved, connVars, busVars>>

\* deliverToGroupMembersWS locks wsLock for each member, the others once.
UnderOneLock(m) == IF msg[m].mode = "group" THEN {{n} : n \in left[m]} ELSE {left[m]}

\* Only broadcastPublic has the bus.
AfterWS(m) == IF ForAll(m) THEN "publish" ELSE "done"

\* Mutant: the loop over the members ends after the first.
FirstMemberOnly(m, N) == AfterWS(m)

\* The loop goes on while there are members.
LoopWS(m, N) == IF left[m] # N THEN "ws" ELSE AfterWS(m)

\* The loop over WSConns, deliverToGroupMembersWS, deliverPrivateWS. A client that is
\* cancelled between the look-up and the write is as good as gone before; one that is
\* renamed in between gets what was meant for its old name, as if it were renamed after.
DeliverWS(m) ==
    /\ pc[m] = "ws"
    /\ \E N \in UnderOneLock(m) :
           /\ Offer(m, WSConns(Origin(m), N))
           /\ left' = [left EXCEPT ![m] = @ \ N]
           /\ pc' = [pc EXCEPT ![m] = LoopWS(m, N)]
    /\ UNCHANGED <<msg, saved, present, moved, connVars, busVars>>

\* Redis passes the message to every subscriber, the sender's server too.
ToSubscribers(m) == bus' = [s \in Servers |-> Append(bus[s], m)]

\* bus.Publish. go-redis repeats a PUBLISH whose answer does not come; the first one may have
\* got to Redis, get there later or never. An error in the end is ignored.
Publish(m) ==
    /\ pc[m] = "publish"
    /\ \/ /\ ToSubscribers(m)
          /\ pc' = [pc EXCEPT ![m] = "done"]
          /\ UNCHANGED <<strays, lost, retried>>
       \/ /\ m \notin retried /\ Troubles < MaxTroubles
          /\ retried' = retried \cup {m}
          /\ strays' = strays \cup {m}
          /\ UNCHANGED <<pc, bus, lost>>
       \/ /\ lost \/ Troubles < MaxTroubles
          /\ lost' = TRUE
          /\ pc' = [pc EXCEPT ![m] = "done"]
          /\ UNCHANGED <<bus, strays, retried>>
    /\ UNCHANGED <<msg, left, saved, received, dropped, present, moved, connVars>>

\* A PUBLISH that was given up gets to Redis.
StrayArrives(m) ==
    /\ m \in strays
    /\ strays' = strays \ {m}
    /\ ToSubscribers(m)
    /\ UNCHANGED <<msg, pc, left, saved, received, dropped, lost, present, moved, retried,
                   connVars>>

\* Mutant: the OriginID is not compared.
ForeignAlways(s, m) == TRUE

\* msg.OriginID == s.serverID
Foreign(s, m) == Origin(m) # s

\* Mutant: the receiver takes the newest message first.
TakeNewest(s, m) ==
    /\ m = bus[s][Len(bus[s])]
    /\ bus' = [bus EXCEPT ![s] = SubSeq(@, 1, Len(@) - 1)]

\* Redis hands a subscription's messages over in order.
TakeNext(s, m) ==
    /\ m = Head(bus[s])
    /\ bus' = [bus EXCEPT ![s] = Tail(@)]

\* Mutant: the TCP users of the other servers are left out.
BusAudienceWS(s, m) == At(s) \ Tcp

\* deliverBusMessage: a public message to everybody, a system message to the WebSockets.
\* Its cases "private" and "group" are never reached: nobody publishes them.
BusAudience(s, m) == IF msg[m].mode = "public" THEN At(s) ELSE At(s) \ Tcp

\* startBusReceiver.
BusReceive(s) ==
    /\ bus[s] # <<>>
    /\ \E m \in Messages :
           /\ TakeNext(s, m)
           /\ Offer(m, IF Foreign(s, m) THEN BusAudience(s, m) ELSE {})
    /\ UNCHANGED <<msg, pc, left, saved, strays, lost, present, moved, retried, connVars>>

\* The connection to Redis breaks; what it had for this subscription is gone.
BusLoss(s) ==
    /\ bus[s] # <<>>
    /\ lost \/ Troubles < MaxTroubles
    /\ bus' = [bus EXCEPT ![s] = <<>>]
    /\ lost' = TRUE
    /\ UNCHANGED <<msg, pc, left, saved, received, dropped, strays, present, moved, retried,
                   connVars>>

-----------------------------------------------------------------------------
\* Mutant: the message is saved when it has been delivered.
DeliverThenSave(m) ==
    \/ pc[m] = "save" /\ SaveMessage(m) /\ UNCHANGED saved
    \/ DeliverTCP(m)
    \/ DeliverWS(m)
    \/ Publish(m)
    \/ /\ pc[m] = "done" /\ m \notin saved[Origin(m)]
       /\ saved' = [saved EXCEPT ![Origin(m)] = @ \cup {m}]
       /\ UNCHANGED <<msg, pc, left, received, dropped, present, moved, connVars, busVars>>

\* broadcastPublic, broadcastToGroup, sendPrivate.
Deliver(m) ==
    \/ Reject(m)
    \/ SaveMessage(m)
    \/ DeliverTCP(m)
    \/ DeliverWS(m)
    \/ Publish(m)

Next ==
    \/ \E c \in Conns : Connect(c) \/ Disconnect(c)
    \/ \E c \in Conns, n \in Names : Rename(c, n)
    \/ \E c \in Conns : \E n \in {name[c], FirstName[c]} : LoadHistory(c, n)
    \/ \E m \in Messages : \E q \in Lines[m] :
           handleWSMessage(m, q) \/ handleSend(m, q) \/ Announce(m, q)
    \/ \E m \in Messages : Deliver(m) \/ StrayArrives(m)
    \/ \E s \in Servers : BusReceive(s) \/ BusLoss(s)

Spec == Init /\ [][Next]_vars

-----------------------------------------------------------------------------
(* Properties.                                                             *)

\* Types; and a handler that is past its WebSocket loop has looked up every name.
TypeOK ==
    /\ conn \in [Conns -> {"new", "on", "off"}]
    /\ name \in [Conns -> Names]
    /\ renames \in Nat
    /\ msg \in [Messages -> Message \cup {None}]
    /\ pc \in [Messages -> Labels]
    /\ left \in [Messages -> SUBSET Names]
    /\ saved \in [Servers -> SUBSET Messages]
    /\ received \in [Conns -> Seq(Messages)]
    /\ dropped \subseteq Messages \X Conns
    /\ bus \in [Servers -> Seq(Messages)]
    /\ strays \subseteq retried
    /\ lost \in BOOLEAN
    /\ history \in [Conns -> (SUBSET Messages) \cup {None}]
    /\ own \in [Conns -> BOOLEAN]
    /\ present \in [Messages -> SUBSET Conns]
    /\ moved \in [Messages -> SUBSET Conns]
    /\ retried \subseteq Messages
    /\ \A m \in Messages : pc[m] # "ws" => left[m] = {}

\* A connection gets a message once, although its own server's broadcast and the bus, which
\* gives a server its own messages back, both carry it. It can come twice in two cases only:
\* a member of a group is renamed, while the loop looks the members up one by one, from a name
\* that has been served to one that has not; or another server gets a PUBLISH that was repeated.
AtMostOnce ==
    \A c \in Conns : \A i, j \in DOMAIN received[c] :
        LET m == received[c][i]
        IN  m = received[c][j] =>
                \/ i = j
                \/ msg[m].mode = "group" /\ c \in moved[m]
                \/ m \in retried /\ Home[c] # Origin(m)

\* What one connection says arrives in the order in which it was said, on its server and
\* across the bus, whatever its mode, however deliveries overlap and whatever is dropped
\* on the way. Only a PUBLISH that was given up and repeated may come later, on other servers.
\* The same user's requests to /api/send and the announcements have no order.
SenderOrder ==
    \A c \in Conns : \A i, j \in DOMAIN received[c] :
        LET m == received[c][i]
            n == received[c][j]
        IN  /\ i < j
            /\ msg[m].from = msg[n].from
            /\ msg[m].via = "reader" /\ msg[n].via = "reader"
            => m <= n \/ (n \in retried /\ Home[c] # Origin(n))

Got(c, m) == \E i \in DOMAIN received[c] : received[c][i] = m

\* A client that registers first and loads the history then has every message of its
\* server once the sender's handler is done: it was saved before the load, or came through
\* the queue. Of messages to names this holds for the name that the client had when it
\* loaded the history, with a session under the same name, and has had since.
\* Exceptions are a full queue and a failed save.
NoGap ==
    \A c \in Conns : \A m \in Messages :
        /\ conn[c] = "on" /\ history[c] # None
        /\ pc[m] = "done" /\ Origin(m) = Home[c]
        /\ ForAll(m) \/ (own[c] /\ name[c] \in msg[m].to)
        /\ m \in saved[Home[c]] /\ <<m, c>> \notin dropped
        => m \in history[c] \/ Got(c, m)

\* No subscription has m.
OffTheBus(m) == \A s \in Servers : \A i \in DOMAIN bus[s] : bus[s][i] # m

\* Who is certain to be looked up by some server: everybody for a public message; for an
\* announcement all but the TCP users of other servers; for a name, who has it at the sender's
\* server until the handler is done.
LookedUp(m, c) ==
    IF Home[c] = Origin(m) THEN ForAll(m) \/ c \notin moved[m]
                           ELSE msg[m].mode = "public" \/ (msg[m].mode = "system" /\ c \notin Tcp)

\* Once its handler is done and the bus receivers have taken it, a message has reached everybody
\* who is certain to be looked up, was registered when it was said and still is, whoever
\* comes and goes during the loop over the members of a group. Excuses are a full queue
\* and, on other servers, a failure of Redis.
AudienceReached ==
    \A m \in Messages : \A c \in present[m] :
        pc[m] = "done" /\ OffTheBus(m) /\ LookedUp(m, c) =>
            \/ Got(c, m)
            \/ <<m, c>> \in dropped
            \/ Home[c] # Origin(m) /\ lost

\* README: "messages are distributed across servers through Redis Pub/Sub", "(public, private,
\* group, system)". Without a failure, a full queue or a rename, a message reaches its
\* recipients on every server.
ReachesAllServers ==
    \A m \in Messages : \A c \in present[m] :
        pc[m] = "done" /\ OffTheBus(m) /\ ~lost /\ c \notin moved[m] =>
            Got(c, m) \/ <<m, c>> \in dropped

==============================================================================
