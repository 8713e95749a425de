------------------------------ MODULE TcpUsers ------------------------------
(***************************************************************************)
(* The TCP side of the server: internal/server/user.go and the part of     *)
(* internal/server/server.go that accepts a connection, keeps OnlineMap    *)
(* and fans messages out to the users in it.                               *)
(*                                                                         *)
(* Three goroutines run for every accepted connection c:                   *)
(*   H  Server.Handler, which waits for the reader's sign of life or for   *)
(*      the idle timer (program counter hpc[c]);                           *)
(*   R  the reader that Handler starts, which scans lines and runs         *)
(*      User.DoMessage on each (rpc[c]);                                   *)
(*   L  User.ListenMessage, which writes the queue u.C to the socket       *)
(*      (lpc[c]).                                                          *)
(* User.Offline runs at most once, under the connection's sync.Once, in H  *)
(* or in R; off[c] is the statement it has reached.                        *)
(*                                                                         *)
(* A step is one critical section (mapLock, u.mu) or one channel operation *)
(* together with the local statements around it.                           *)
(***************************************************************************)
EXTENDS Naturals, FiniteSets

CONSTANTS
    Conns,          \* connections; a connection also stands for its address
    Usernames,      \* names that isValidUsername accepts
    DefaultUsers,   \* the accounts in the database at start-up
    QueueCap,       \* the capacity of u.C (100 in the code)
    Talkers,        \* bound: the connections whose clients send lines
    MaxInputs,      \* bound: connections made and lines sent altogether
    None            \* no connection

\* User.Name is the remote address until a login replaces it; "rename|" takes any text.
Names == Conns \cup Usernames

ASSUME ConnsAssumption == None \notin Names /\ Conns \cap Usernames = {}
ASSUME NamesAssumption == DefaultUsers \subseteq Usernames
ASSUME FinitenessAssumption == IsFiniteSet(Conns) /\ IsFiniteSet(Usernames)
ASSUME BoundsAssumption == QueueCap \in Nat \ {0} /\ MaxInputs \in Nat

VARIABLES
    OnlineMap,  \* Server.OnlineMap: name -> connection, None when absent
    Name,       \* User.Name
    auth,       \* User.IsAuthenticated
    len,        \* len(u.C); what the queued messages say is left out
    closed,     \* u.C has been closed
    conn,       \* User.conn: "none" before accept, "open", "nil" after Offline
    off,        \* how far User.Offline has got
    hpc,        \* Handler
    rpc,        \* reader goroutine
    lpc,        \* ListenMessage
    arg,        \* the reader's local: new name, or the private message's target
    rleaked,    \* ListenMessage died holding u.mu for reading
    inputs,     \* connections accepted and lines read so far
    accounts,   \* usernames in the database
    lateKick,   \* history: connections kicked inside their own login
    staleRename, \* history: connections whose reader renamed after Offline's delete
    addressTaken, \* history: connections renamed to an address that was then accepted
    mapLeaked,  \* a recovered panic left mapLock taken for reading
    crashed     \* a goroutine panicked with no recover: the process is gone

vars == <<OnlineMap, Name, auth, len, closed, conn, off, hpc, rpc, lpc, arg, rleaked, inputs,
          accounts, lateKick, staleRename, addressTaken, mapLeaked, crashed>>

OffStages == {"idle", "delete", "announce", "close", "recv", "closeC", "done"}
HLabels == {"new", "announce", "select", "offline"}
RLabels == {"new", "scan", "insert", "announce", "reply", "rename", "private", "offline"}
LLabels == {"new", "range", "write", "done"}

-----------------------------------------------------------------------------
(* OnlineMap and the message queues.                                       *)

Online == {c \in Conns : \E n \in Names : OnlineMap[n] = c}

\* Offline has taken c out of OnlineMap.
PastDelete(c) == off[c] \notin {"idle", "delete"}

\* User.Online: drop every other key of c, then store c under its name.
Insert(map, c, n) ==
    [m \in Names |-> IF m = n THEN c ELSE IF map[m] = c THEN None ELSE map[m]]

\* Mutant: Offline deletes only the entry under the user's present name.
DeleteByName(map, c) == [map EXCEPT ![Name[c]] = None]

\* The loop in User.Offline that deletes every key of c.
Delete(map, c) == [m \in Names |-> IF map[m] = c THEN None ELSE map[m]]

\* Mutant: RenameUser does not look whether newName is taken.
CanRenameUnchecked(map, oldName, newName) == map[oldName] # None

\* Server.RenameUser succeeds when newName is free and somebody holds oldName ...
CanRename(map, oldName, newName) == map[newName] = None /\ map[oldName] # None

\* Mutant: RenameUser forgets to delete the old entry.
RenameUserKeepsOld(map, oldName, newName) == [map EXCEPT ![newName] = map[oldName]]

\* ... and then moves whoever that is.
RenameUser(map, oldName, newName) ==
    [map EXCEPT ![oldName] = None, ![newName] = map[oldName]]

\* Mutant: the queue grows without bound (up to one more, to keep TLC finite).
AtMostCapPlusOne(n) == IF n > QueueCap + 1 THEN QueueCap + 1 ELSE n

\* A channel of capacity QueueCap drops what does not fit.
AtMostCap(n) == IF n > QueueCap THEN QueueCap ELSE n

\* User.SendMsg, k times: a full queue drops the message, and the panic of
\* a send on a closed channel is recovered.
SendMsgs(q, c, k) == IF closed[c] THEN q ELSE [q EXCEPT ![c] = AtMostCap(q[c] + k)]

SendMsg(q, c) == SendMsgs(q, c, 1)

\* One message is offered to each user in a set; a full queue drops it.
Offer(users) ==
    [c \in Conns |-> IF c \in users /\ ~closed[c] THEN AtMostCap(len[c] + 1) ELSE len[c]]

\* A send on a closed channel panics, at whatever point of the loop over OnlineMap.
SendPanics == \E c \in Online : closed[c]

\* Server.fanoutTCP, under mapLock.RLock, in a goroutine that nothing recovers: Handler, the
\* reader and the bus receiver. A closed queue kills the process.
fanoutTCP ==
    /\ crashed' = SendPanics
    /\ len' = Offer(Online)

\* fanoutTCP in a request handler. net/http recovers a handler's panic; RUnlock is not
\* deferred, so the process lives on with mapLock taken for reading, and those users that
\* the loop met before have the message.
fanoutRecovered ==
    \/ /\ ~SendPanics
       /\ len' = Offer(Online)
       /\ UNCHANGED mapLeaked
    \/ /\ SendPanics
       /\ \E served \in SUBSET Online : len' = Offer(served)
       /\ mapLeaked' = TRUE

\* mapLock.Lock() returns once there is no reader: never again after a leak. RLock() still
\* succeeds then, until the first writer waits; a goroutine that is about to call Lock may
\* be delayed, so the readers' steps stay possible, but nothing makes them happen.
CanLock == ~mapLeaked

-----------------------------------------------------------------------------
(* Handler.                                                                *)

Init ==
    /\ OnlineMap = [n \in Names |-> None]
    /\ Name = [c \in Conns |-> c]
    /\ auth = [c \in Conns |-> FALSE]
    /\ len = [c \in Conns |-> 0]
    /\ closed = [c \in Conns |-> FALSE]
    /\ conn = [c \in Conns |-> "none"]
    /\ off = [c \in Conns |-> "idle"]
    /\ hpc = [c \in Conns |-> "new"]
    /\ rpc = [c \in Conns |-> "new"]
    /\ lpc = [c \in Conns |-> "new"]
    /\ arg = [c \in Conns |-> None]
    /\ rleaked = [c \in Conns |-> FALSE]
    /\ inputs = 0
    /\ accounts = DefaultUsers
    /\ lateKick = {}
    /\ staleRename = {}
    /\ addressTaken = {}
    /\ mapLeaked = FALSE
    /\ crashed = FALSE

\* Accept, NewUser (which starts ListenMessage) and the map update in Online.
Accept(c) ==
    /\ hpc[c] = "new"
    /\ CanLock
    /\ inputs < MaxInputs
    /\ inputs' = inputs + 1
    /\ conn' = [conn EXCEPT ![c] = "open"]
    /\ OnlineMap' = Insert(OnlineMap, c, Name[c])
    /\ addressTaken' = addressTaken \cup ({OnlineMap[Name[c]]} \ {c, None})
    /\ lpc' = [lpc EXCEPT ![c] = "range"]
    /\ hpc' = [hpc EXCEPT ![c] = "announce"]
    /\ UNCHANGED <<Name, auth, len, closed, off, rpc, arg, rleaked, accounts, lateKick,
                   staleRename, mapLeaked, crashed>>

\* The rest of Online: BroadCast(sysOnline). Then the reader starts.
HAnnounce(c) ==
    /\ hpc[c] = "announce"
    /\ fanoutTCP
    /\ hpc' = [hpc EXCEPT ![c] = "select"]
    /\ rpc' = [rpc EXCEPT ![c] = "scan"]
    /\ UNCHANGED <<OnlineMap, Name, auth, closed, conn, off, lpc, arg, rleaked, inputs,
                   accounts, lateKick, staleRename, addressTaken, mapLeaked>>

\* Mutant: Offline without the sync.Once.
OnceDoAlways(c) == off' = [off EXCEPT ![c] = "delete"]

\* offlineOnce.Do: the first caller starts Offline, a later one only waits for it. Both
\* goroutines end when it returns; their counters stay at "offline".
OnceDo(c) == off' = [off EXCEPT ![c] = IF off[c] = "idle" THEN "delete" ELSE off[c]]

\* Mutant: the idle timer tells the user and returns without Offline.
HTimeoutOnlyTells(c) ==
    /\ hpc[c] = "select"
    /\ len' = SendMsg(len, c)
    /\ hpc' = [hpc EXCEPT ![c] = "offline"]
    /\ UNCHANGED <<OnlineMap, Name, auth, closed, conn, off, rpc, lpc, arg, rleaked, inputs,
                   accounts, lateKick, staleRename, addressTaken, mapLeaked, crashed>>

\* case <-time.After(idleTimeout): tell the user, then go offline. The reader sends its
\* sign of life on isLive only after DoMessage has returned, and a new timer runs
\* after that, so the timer can fire at any step of the reader.
HTimeout(c) ==
    /\ hpc[c] = "select"
    /\ len' = SendMsg(len, c)
    /\ OnceDo(c)
    /\ hpc' = [hpc EXCEPT ![c] = "offline"]
    /\ UNCHANGED <<OnlineMap, Name, auth, closed, conn, rpc, lpc, arg, rleaked, inputs,
                   accounts, lateKick, staleRename, addressTaken, mapLeaked, crashed>>

-----------------------------------------------------------------------------
(* Offline.                                                                *)

\* Under mapLock: delete every key of c.
OffDelete(c) ==
    /\ off[c] = "delete"
    /\ CanLock
    /\ OnlineMap' = Delete(OnlineMap, c)
    /\ lateKick' = IF rpc[c] = "insert" THEN lateKick \cup {c} ELSE lateKick
    /\ off' = [off EXCEPT ![c] = "announce"]
    /\ UNCHANGED <<Name, auth, len, closed, conn, hpc, rpc, lpc, arg, rleaked, inputs,
                   accounts, staleRename, addressTaken, mapLeaked, crashed>>

\* BroadCast(sysOffline).
OffAnnounce(c) ==
    /\ off[c] = "announce"
    /\ fanoutTCP
    /\ off' = [off EXCEPT ![c] = "close"]
    /\ UNCHANGED <<OnlineMap, Name, auth, closed, conn, hpc, rpc, lpc, arg, rleaked, inputs,
                   accounts, lateKick, staleRename, addressTaken, mapLeaked>>

\* for len(u.C) > 0 { <-u.C }: the test, which decides what comes next.
DrainTest(n) == IF n > 0 THEN "recv" ELSE "closeC"

\* conn.Close() and conn = nil, without u.mu; then the first test of the drain loop.
OffClose(c) ==
    /\ off[c] = "close"
    /\ conn' = [conn EXCEPT ![c] = "nil"]
    /\ off' = [off EXCEPT ![c] = DrainTest(len[c])]
    /\ UNCHANGED <<OnlineMap, Name, auth, len, closed, hpc, rpc, lpc, arg, rleaked, inputs,
                   accounts, lateKick, staleRename, addressTaken, mapLeaked, crashed>>

\* <-u.C: blocks when ListenMessage has taken the message since the test.
OffDrain(c) ==
    /\ off[c] = "recv"
    /\ len[c] > 0
    /\ len' = [len EXCEPT ![c] = len[c] - 1]
    /\ off' = [off EXCEPT ![c] = DrainTest(len[c] - 1)]
    /\ UNCHANGED <<OnlineMap, Name, auth, closed, conn, hpc, rpc, lpc, arg, rleaked, inputs,
                   accounts, lateKick, staleRename, addressTaken, mapLeaked, crashed>>

\* Mutant: Offline returns without closing the channel.
OffForgetsClose(c) ==
    /\ off[c] = "closeC"
    /\ off' = [off EXCEPT ![c] = "done"]
    /\ UNCHANGED <<OnlineMap, Name, auth, len, closed, conn, hpc, rpc, lpc, arg, rleaked,
                   inputs, accounts, lateKick, staleRename, addressTaken, mapLeaked, crashed>>

\* close(u.C); closing twice panics, and nothing recovers.
OffCloseC(c) ==
    /\ off[c] = "closeC"
    /\ crashed' = closed[c]
    /\ closed' = [closed EXCEPT ![c] = TRUE]
    /\ off' = [off EXCEPT ![c] = "done"]
    /\ UNCHANGED <<OnlineMap, Name, auth, len, conn, hpc, rpc, lpc, arg, rleaked, inputs,
                   accounts, lateKick, staleRename, addressTaken, mapLeaked>>

Offline(c) ==
    \/ OffDelete(c)
    \/ OffAnnounce(c)
    \/ OffClose(c)
    \/ OffDrain(c)
    \/ OffCloseC(c)

-----------------------------------------------------------------------------
(* The reader goroutine.                                                   *)

\* What no statement of DoMessage touches.
notReader == <<closed, conn, hpc, lpc, rleaked, addressTaken, mapLeaked>>

\* scanner.Scan() returned a line. The scanner may hold lines it has already
\* buffered, so this happens after Offline has closed the socket too.
Scan(c) ==
    /\ rpc[c] = "scan"
    /\ c \in Talkers /\ inputs < MaxInputs
    /\ inputs' = inputs + 1

\* DoMessage has returned: the non-blocking send to isLive, and back to the scanner.
\* The token only makes Handler start a new timer, so it is not kept as state.
Signal(c) ==
    /\ rpc' = [rpc EXCEPT ![c] = "scan"]
    /\ arg' = [arg EXCEPT ![c] = None]

\* A line that is only answered: wrong format or password, over the rate limit,
\* not logged in, RenameUser refused, unknown sender or receiver, a group command.
Answer(c) ==
    /\ Scan(c)
    /\ len' = SendMsg(len, c)
    /\ Signal(c)
    /\ UNCHANGED <<OnlineMap, Name, auth, off, accounts, lateKick, staleRename, crashed,
                   notReader>>

\* login|n|password, accepted by Authenticate. Its first critical section is
\* RenameUser(u.Name, n); n is never the address, so it is always called.
Login(c, n) ==
    /\ Scan(c)
    /\ ~auth[c]
    /\ n \in accounts
    /\ CanLock
    /\ CanRename(OnlineMap, Name[c], n)
    /\ OnlineMap' = RenameUser(OnlineMap, Name[c], n)
    /\ arg' = [arg EXCEPT ![c] = n]
    /\ rpc' = [rpc EXCEPT ![c] = "insert"]
    /\ lateKick' = IF PastDelete(c) THEN lateKick \cup {c} ELSE lateKick
    /\ UNCHANGED <<Name, auth, len, off, accounts, staleRename, crashed, notReader>>

\* u.Name = username, u.IsAuthenticated = true, and the map update of u.Online(): a
\* second critical section of mapLock.
LoginInsert(c) ==
    /\ rpc[c] = "insert"
    /\ CanLock
    /\ Name' = [Name EXCEPT ![c] = arg[c]]
    /\ auth' = [auth EXCEPT ![c] = TRUE]
    /\ OnlineMap' = Insert(OnlineMap, c, arg[c])
    /\ arg' = [arg EXCEPT ![c] = None]
    /\ rpc' = [rpc EXCEPT ![c] = "announce"]
    /\ UNCHANGED <<len, off, inputs, accounts, lateKick, staleRename, crashed, notReader>>

\* The BroadCast of u.Online().
LoginAnnounce(c) ==
    /\ rpc[c] = "announce"
    /\ fanoutTCP
    /\ rpc' = [rpc EXCEPT ![c] = "reply"]
    /\ UNCHANGED <<OnlineMap, Name, auth, off, arg, inputs, accounts, lateKick, staleRename,
                   notReader>>

\* The last SendMsg of a login or of a private message.
Reply(c) ==
    /\ rpc[c] = "reply"
    /\ len' = SendMsg(len, c)
    /\ Signal(c)
    /\ UNCHANGED <<OnlineMap, Name, auth, off, inputs, accounts, lateKick, staleRename,
                   crashed, notReader>>

\* register|n|password: RegisterUser refuses a name that exists.
Register(c, n) ==
    /\ Scan(c)
    /\ ~auth[c]
    /\ n \notin accounts
    /\ accounts' = accounts \cup {n}
    /\ len' = SendMsg(len, c)
    /\ Signal(c)
    /\ UNCHANGED <<OnlineMap, Name, auth, off, lateKick, staleRename, crashed, notReader>>

\* who: one line for every user in OnlineMap with another name.
Who(c) ==
    /\ Scan(c)
    /\ auth[c]
    /\ len' = SendMsgs(len, c, Cardinality({d \in Online : Name[d] # Name[c]}))
    /\ Signal(c)
    /\ UNCHANGED <<OnlineMap, Name, auth, off, accounts, lateKick, staleRename, crashed,
                   notReader>>

\* rename|n: RenameUser moves the entry that is under u.Name, whosever it is.
Rename(c, n) ==
    /\ Scan(c)
    /\ auth[c]
    /\ CanLock
    /\ CanRename(OnlineMap, Name[c], n)
    /\ OnlineMap' = RenameUser(OnlineMap, Name[c], n)
    /\ arg' = [arg EXCEPT ![c] = n]
    /\ rpc' = [rpc EXCEPT ![c] = "rename"]
    /\ staleRename' = IF PastDelete(c) THEN staleRename \cup {c} ELSE staleRename
    /\ UNCHANGED <<Name, auth, len, off, accounts, lateKick, crashed, notReader>>

\* u.mu.Lock() waits for ListenMessage to give up its read lock, for ever if it
\* died with it. Then u.Name = newName and the answer.
RenameSetName(c) ==
    /\ rpc[c] = "rename"
    /\ lpc[c] # "write" /\ ~rleaked[c]
    /\ Name' = [Name EXCEPT ![c] = arg[c]]
    /\ len' = SendMsg(len, c)
    /\ Signal(c)
    /\ UNCHANGED <<OnlineMap, auth, off, inputs, accounts, lateKick, staleRename, crashed,
                   notReader>>

\* to|n|text between two registered names: deliverPrivateTCP looks the receiver up
\* under mapLock and keeps the pointer ...
Private(c, n) ==
    /\ Scan(c)
    /\ auth[c]
    /\ {Name[c], n} \subseteq accounts
    /\ arg' = [arg EXCEPT ![c] = OnlineMap[n]]
    /\ rpc' = [rpc EXCEPT ![c] = IF OnlineMap[n] = None THEN "reply" ELSE "private"]
    /\ UNCHANGED <<OnlineMap, Name, auth, len, off, accounts, lateKick, staleRename, crashed,
                   notReader>>

\* ... and sends after releasing it, when the receiver may already have gone.
PrivateSend(c) ==
    /\ rpc[c] = "private"
    /\ len' = SendMsg(len, arg[c])
    /\ arg' = [arg EXCEPT ![c] = None]
    /\ rpc' = [rpc EXCEPT ![c] = "reply"]
    /\ UNCHANGED <<OnlineMap, Name, auth, off, inputs, accounts, lateKick, staleRename,
                   crashed, notReader>>

\* group|send|...: SendMsg to every member that is online, under mapLock.RLock.
GroupSend(c, members) ==
    /\ Scan(c)
    /\ auth[c]
    /\ Name[c] \in accounts
    /\ len' = [d \in Conns |-> IF closed[d] THEN len[d] ELSE
                 AtMostCap(len[d] + Cardinality({n \in members : OnlineMap[n] = d}))]
    /\ Signal(c)
    /\ UNCHANGED <<OnlineMap, Name, auth, off, accounts, lateKick, staleRename, crashed,
                   notReader>>

\* Any other line is a public message.
Chat(c) ==
    /\ Scan(c)
    /\ auth[c]
    /\ fanoutTCP
    /\ Signal(c)
    /\ UNCHANGED <<OnlineMap, Name, auth, off, accounts, lateKick, staleRename, notReader>>

\* Scan() returned false: the peer has gone or the socket is closed.
ReadEnd(c) ==
    /\ rpc[c] = "scan"
    /\ OnceDo(c)
    /\ rpc' = [rpc EXCEPT ![c] = "offline"]
    /\ UNCHANGED <<OnlineMap, Name, auth, len, arg, inputs, accounts, lateKick, staleRename,
                   crashed, notReader>>

-----------------------------------------------------------------------------
(* ListenMessage.                                                          *)

\* What no statement of ListenMessage touches.
notListener == <<OnlineMap, Name, auth, closed, conn, off, hpc, rpc, arg, inputs, accounts,
                 lateKick, staleRename, addressTaken, mapLeaked, crashed>>

\* for msg := range u.C: takes a message and, holding u.mu for reading, returns if
\* u.conn is nil; or ends once u.C is closed and empty.
ListenRange(c) ==
    /\ lpc[c] = "range"
    /\ \/ /\ len[c] > 0
          /\ len' = [len EXCEPT ![c] = len[c] - 1]
          /\ lpc' = [lpc EXCEPT ![c] = IF conn[c] = "nil" THEN "done" ELSE "write"]
       \/ /\ len[c] = 0 /\ closed[c]
          /\ lpc' = [lpc EXCEPT ![c] = "done"]
          /\ len' = len
    /\ UNCHANGED <<rleaked, notListener>>

\* u.conn.Write(...) and u.mu.RUnlock(). The write succeeds or fails; u.conn is read
\* again without synchronisation with Offline, so once that has stored nil the call
\* either meets the closed socket (an error) or dereferences nil: that panic is
\* recovered, but the read lock stays taken.
ListenWrite(c) ==
    /\ lpc[c] = "write"
    /\ \/ /\ conn[c] = "open"
          /\ lpc' = [lpc EXCEPT ![c] = "range"]
          /\ rleaked' = rleaked
       \/ /\ lpc' = [lpc EXCEPT ![c] = "done"]
          /\ rleaked' = rleaked
       \/ /\ conn[c] = "nil"
          /\ lpc' = [lpc EXCEPT ![c] = "done"]
          /\ rleaked' = [rleaked EXCEPT ![c] = TRUE]
    /\ UNCHANGED <<len, notListener>>

-----------------------------------------------------------------------------
(* The rest of the server broadcasts as well.                              *)

\* BroadCastFromWeb and BroadCastFromWS, in a goroutine of net/http.
WebBroadcast ==
    /\ fanoutRecovered
    /\ UNCHANGED <<OnlineMap, Name, auth, closed, conn, off, hpc, rpc, lpc, arg, rleaked,
                   inputs, accounts, lateKick, staleRename, addressTaken, crashed>>

\* deliverBusMessage of another server's public message, in startBusReceiver.
BusBroadcast ==
    /\ fanoutTCP
    /\ UNCHANGED <<OnlineMap, Name, auth, closed, conn, off, hpc, rpc, lpc, arg, rleaked,
                   inputs, accounts, lateKick, staleRename, addressTaken, mapLeaked>>

Handler(c) ==
    \/ Accept(c)
    \/ HAnnounce(c)
    \/ HTimeout(c)

\* The statements of DoMessage after its first critical section, and the way out.
ReaderSteps(c) ==
    \/ LoginInsert(c)
    \/ LoginAnnounce(c)
    \/ Reply(c)
    \/ RenameSetName(c)
    \/ PrivateSend(c)

\* DoMessage on a new line, up to its first critical section.
DoMessage(c) ==
    \/ Answer(c)
    \/ \E n \in Usernames : Login(c, n) \/ Register(c, n) \/ Private(c, n)
    \/ Who(c)
    \/ \E n \in Names : Rename(c, n)
    \/ \E members \in SUBSET accounts : GroupSend(c, members)
    \/ Chat(c)

ListenMessage(c) ==
    \/ ListenRange(c)
    \/ ListenWrite(c)

Next ==
    /\ ~crashed
    /\ \/ \E c \in Conns :
             \/ Handler(c)
             \/ Offline(c)
             \/ DoMessage(c)
             \/ ReaderSteps(c)
             \/ ReadEnd(c)
             \/ ListenMessage(c)
       \/ WebBroadcast
       \/ BusBroadcast

\* Goroutines that can run do run; a client need not connect or hang up. A client sends
\* finitely many lines (MaxInputs), so the idle timer of a quiet connection fires; a blocked
\* Lock of u.mu excludes new readers, so the reader is not starved of it. A write to a peer
\* that does not read has no deadline: it returns for certain only when the socket is
\* closed. Steps that take mapLock happen for certain only while no reader has left it
\* taken; Offline needs it no more once it has closed the socket.
Fairness ==
    \A c \in Conns :
        /\ WF_vars(~crashed /\ ~mapLeaked /\ hpc[c] # "new" /\ Handler(c))
        /\ WF_vars(~crashed /\ (mapLeaked => conn[c] = "nil") /\ Offline(c))
        /\ SF_vars(/\ ~crashed
                   /\ mapLeaked => rpc[c] \notin {"insert", "announce"}
                   /\ ReaderSteps(c))
        /\ WF_vars(~crashed /\ (lpc[c] = "write" => conn[c] = "nil") /\ ListenMessage(c))

Spec == Init /\ [][Next]_vars

FairSpec == Spec /\ Fairness

-----------------------------------------------------------------------------
(* Properties.                                                             *)

\* Every variable has the type of the field, channel or program counter it models.
TypeOK ==
    /\ OnlineMap \in [Names -> Conns \cup {None}]
    /\ Name \in [Conns -> Names]
    /\ auth \in [Conns -> BOOLEAN]
    /\ len \in [Conns -> 0 .. QueueCap]
    /\ closed \in [Conns -> BOOLEAN]
    /\ conn \in [Conns -> {"none", "open", "nil"}]
    /\ off \in [Conns -> OffStages]
    /\ hpc \in [Conns -> HLabels]
    /\ rpc \in [Conns -> RLabels]
    /\ lpc \in [Conns -> LLabels]
    /\ arg \in [Conns -> Names \cup {None}]
    /\ rleaked \in [Conns -> BOOLEAN]
    /\ inputs \in 0 .. MaxInputs
    /\ accounts \in SUBSET Usernames
    /\ lateKick \in SUBSET Conns
    /\ staleRename \in SUBSET Conns
    /\ addressTaken \in SUBSET Conns
    /\ mapLeaked \in BOOLEAN
    /\ crashed \in BOOLEAN

\* A user is in OnlineMap under one name only, although login, rename, accept and
\* kick of different connections interleave and RenameUser moves whatever entry
\* it finds: a public message is queued once per user (fanoutTCP).
OneKeyPerUser ==
    \A m, n \in Names : OnlineMap[m] = OnlineMap[n] /\ OnlineMap[m] # None => m = n

\* The send on a closed channel in fanoutTCP and the close in Offline have no recover of their
\* own. The process dies of one of them, or lives on with mapLock taken for ever, only if some
\* connection was kicked between the two critical sections of its own login, RenameUser
\* and Online.
CrashOnlyAfterLateKick == crashed \/ mapLeaked => lateKick # {}

\* A connection that Offline has removed from OnlineMap stays out of it, however late
\* its reader still handles buffered lines, unless it was kicked inside its login.
GhostOnlyAfterLateKick == \A c \in Online : PastDelete(c) => c \in lateKick

\* Where the entry of c belongs: RenameUser moves it before u.Name is assigned.
KeyOf(c) == IF rpc[c] \in {"insert", "rename"} THEN arg[c] ELSE Name[c]

\* RenameUser looks an entry up by name, not by user, and Online overwrites what it finds
\* under its name. Still a connected user keeps its entry, and nobody else moves it, until
\* one of three things has happened: a reader renamed after its own connection was taken
\* out of OnlineMap, a connection was kicked inside its login, or a connection was
\* accepted whose address some user had taken as its name ("rename|" is not validated).
LiveUsersReachable ==
    lateKick = {} /\ staleRename = {} /\ addressTaken = {} =>
        \A c \in Conns : hpc[c] # "new" /\ ~PastDelete(c) => OnlineMap[KeyOf(c)] = c

\* The idle timer or the end of the input takes every connection out of OnlineMap once its
\* client falls silent, unless the process dies, a recovered panic has left mapLock taken,
\* or the connection was kicked inside its login.
ConnectionsLeave ==
    \A c \in Conns : c \in Online ~> (c \notin Online \/ c \in lateKick \/ crashed \/ mapLeaked)

\* A rename waits for u.mu while ListenMessage writes to a peer that may never read. The idle
\* kick closes the socket under that write, so the rename gets on, unless the write met
\* the nil that Offline stores and died with u.mu, or the kick itself cannot take mapLock.
RenameEnds ==
    \A c \in Conns :
        rpc[c] = "rename" ~> (rpc[c] # "rename" \/ rleaked[c] \/ crashed \/ mapLeaked)

\* user.go: "Drain and close the message channel". Once Offline has closed the socket it gets
\* to the end of the drain loop and closes the channel, unless ListenMessage took the last
\* message between the test of len(u.C) and the receive: then, and only then, it hangs there.
OfflineEndsOrStarves ==
    \A c \in Conns : conn[c] = "nil" ~> (closed[c] \/ crashed \/ (off[c] = "recv" /\ len[c] = 0))

=============================================================================
