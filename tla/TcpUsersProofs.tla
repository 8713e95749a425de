--------------------------- MODULE TcpUsersProofs ---------------------------
(***************************************************************************)
(* What TcpUsers guarantees for every set of connections and usernames and *)
(* every queue capacity.  Typing comes first; the safety proofs build on   *)
(* it.                                                                     *)
(***************************************************************************)
EXTENDS TcpUsers, FiniteSetTheorems, TLAPS

-----------------------------------------------------------------------------
(* Typing.                                                                 *)

\* The reader's local holds a name where a name is read from it, a user where a user is.
ArgTyped ==
    \A c \in Conns :
        /\ rpc[c] = "insert" => arg[c] \in Usernames
        /\ rpc[c] = "rename" => arg[c] \in Names
        /\ rpc[c] = "private" => arg[c] \in Conns

TypeInv == TypeOK /\ ArgTyped

\* Delivering messages keeps a queue within its capacity.
LEMMA CapBounds ==
    ASSUME NEW n \in Nat
    PROVE  AtMostCap(n) \in 0 .. QueueCap
BY BoundsAssumption DEF AtMostCap

LEMMA SendMsgType ==
    ASSUME TypeOK, NEW c \in Conns
    PROVE  SendMsg(len, c) \in [Conns -> 0 .. QueueCap]
<1>1. len[c] + 1 \in Nat
  BY DEF TypeOK
<1> QED
  BY <1>1, CapBounds DEF SendMsg, SendMsgs, TypeOK

LEMMA OfferType ==
    ASSUME TypeOK
    PROVE  \A S : Offer(S) \in [Conns -> 0 .. QueueCap]
<1>1. \A c \in Conns : AtMostCap(len[c] + 1) \in 0 .. QueueCap
  <2> TAKE c \in Conns
  <2>1. len[c] + 1 \in Nat
    BY DEF TypeOK
  <2> QED
    BY <2>1, CapBounds
<1> QED
  BY <1>1 DEF Offer, TypeOK

LEMMA FanoutType ==
    ASSUME TypeOK, fanoutTCP
    PROVE  len' \in [Conns -> 0 .. QueueCap] /\ crashed' \in BOOLEAN
BY OfferType DEF fanoutTCP, SendPanics

LEMMA TypeInit == Init => TypeInv
<1> SUFFICES ASSUME Init
             PROVE  TypeInv
  OBVIOUS
<1>1. ArgTyped
  BY DEF Init, ArgTyped
<1>2. OnlineMap \in [Names -> Conns \cup {None}] /\ Name \in [Conns -> Names]
  BY DEF Init, Names
<1>3. len \in [Conns -> 0 .. QueueCap] /\ inputs \in 0 .. MaxInputs
  BY BoundsAssumption DEF Init
<1>4. accounts \in SUBSET Usernames
  BY NamesAssumption DEF Init
<1> QED
  BY <1>1, <1>2, <1>3, <1>4 DEF Init, TypeInv, TypeOK, OffStages, HLabels, RLabels, LLabels

LEMMA MapTypes ==
    ASSUME NEW map \in [Names -> Conns \cup {None}], NEW c \in Conns,
           NEW m \in Names, NEW n \in Names
    PROVE  /\ Insert(map, c, n) \in [Names -> Conns \cup {None}]
           /\ Delete(map, c) \in [Names -> Conns \cup {None}]
           /\ RenameUser(map, m, n) \in [Names -> Conns \cup {None}]
BY DEF Insert, Delete, RenameUser

LEMMA HandlerType ==
    ASSUME TypeInv, NEW c \in Conns, Handler(c) \/ Offline(c)
    PROVE  TypeInv'
<1> USE DEF TypeInv, TypeOK, ArgTyped, OffStages, HLabels, RLabels, LLabels
<1>0. c \in Names
  BY DEF Names
<1>1. CASE Accept(c)
  <2>1. inputs' \in 0 .. MaxInputs
    BY <1>1, BoundsAssumption DEF Accept
  <2>2. addressTaken' \in SUBSET Conns
    BY <1>1, ConnsAssumption DEF Accept
  <2> QED
    BY <1>1, <2>1, <2>2, MapTypes DEF Accept
<1>2. CASE HAnnounce(c)
  BY <1>2, FanoutType DEF HAnnounce
<1>3. CASE HTimeout(c)
  BY <1>3, SendMsgType DEF HTimeout, OnceDo
<1>4. CASE OffDelete(c)
  BY <1>0, <1>4, MapTypes DEF OffDelete
<1>5. CASE OffAnnounce(c)
  BY <1>5, FanoutType DEF OffAnnounce
<1>6. CASE OffClose(c)
  BY <1>6 DEF OffClose, DrainTest
<1>7. CASE OffDrain(c)
  BY <1>7, BoundsAssumption DEF OffDrain, DrainTest
<1>8. CASE OffCloseC(c)
  BY <1>8 DEF OffCloseC
<1> QED
  BY <1>1, <1>2, <1>3, <1>4, <1>5, <1>6, <1>7, <1>8 DEF Handler, Offline

\* who and group|send count users of finite sets.
LEMMA CountType ==
    ASSUME NEW S, S \subseteq Conns \/ S \subseteq Usernames
    PROVE  Cardinality(S) \in Nat
BY FinitenessAssumption, FS_Subset, FS_CardinalityType

LEMMA DoMessageType ==
    ASSUME TypeInv, NEW c \in Conns, DoMessage(c)
    PROVE  TypeInv'
<1> USE DEF TypeInv, TypeOK, ArgTyped, OffStages, HLabels, RLabels, LLabels, Scan, Signal,
            notReader
<1>0. inputs < MaxInputs => inputs + 1 \in 0 .. MaxInputs
  BY BoundsAssumption
<1>1. CASE Answer(c)
  BY <1>0, <1>1, SendMsgType DEF Answer
<1>2. ASSUME NEW n \in Usernames, Login(c, n)
      PROVE  TypeInv'
  BY <1>0, <1>2, MapTypes DEF Login, Names
<1>3. ASSUME NEW n \in Usernames, Register(c, n)
      PROVE  TypeInv'
  BY <1>0, <1>3, SendMsgType DEF Register
<1>4. ASSUME NEW n \in Usernames, Private(c, n)
      PROVE  TypeInv'
  BY <1>0, <1>4, ConnsAssumption DEF Private, Names
<1>5. CASE Who(c)
  <2>1. SendMsgs(len, c, Cardinality({d \in Online : Name[d] # Name[c]}))
          \in [Conns -> 0 .. QueueCap]
    <3> DEFINE k == Cardinality({d \in Online : Name[d] # Name[c]})
    <3>1. k \in Nat
      BY CountType DEF Online
    <3>2. AtMostCap(len[c] + k) \in 0 .. QueueCap
      <4>1. len[c] + k \in Nat
        BY <3>1
      <4> QED
        BY <4>1, CapBounds
    <3> QED
      BY <3>2 DEF SendMsgs
  <2> QED
    BY <1>0, <1>5, <2>1 DEF Who
<1>6. ASSUME NEW n \in Names, Rename(c, n)
      PROVE  TypeInv'
  BY <1>0, <1>6, MapTypes, NamesAssumption DEF Rename
<1>7. ASSUME NEW members \in SUBSET accounts, GroupSend(c, members)
      PROVE  TypeInv'
  <2>1. \A d \in Conns :
          AtMostCap(len[d] + Cardinality({n \in members : OnlineMap[n] = d})) \in 0 .. QueueCap
    <3> TAKE d \in Conns
    <3>1. Cardinality({n \in members : OnlineMap[n] = d}) \in Nat
      BY CountType
    <3>2. len[d] + Cardinality({n \in members : OnlineMap[n] = d}) \in Nat
      BY <3>1
    <3> QED
      BY <3>2, CapBounds
  <2> QED
    BY <1>0, <1>7, <2>1 DEF GroupSend
<1>8. CASE Chat(c)
  BY <1>0, <1>8, FanoutType DEF Chat
<1> QED
  BY <1>1, <1>2, <1>3, <1>4, <1>5, <1>6, <1>7, <1>8 DEF DoMessage

LEMMA ReaderType ==
    ASSUME TypeInv, NEW c \in Conns, ReaderSteps(c) \/ ReadEnd(c)
    PROVE  TypeInv'
<1> USE DEF TypeInv, TypeOK, ArgTyped, OffStages, HLabels, RLabels, LLabels, Signal, notReader
<1>1. CASE LoginInsert(c)
  BY <1>1, MapTypes DEF LoginInsert, Names
<1>2. CASE LoginAnnounce(c)
  BY <1>2, FanoutType DEF LoginAnnounce
<1>3. CASE Reply(c)
  BY <1>3, SendMsgType DEF Reply
<1>4. CASE RenameSetName(c)
  BY <1>4, SendMsgType, NamesAssumption DEF RenameSetName
<1>5. CASE PrivateSend(c)
  BY <1>5, SendMsgType DEF PrivateSend
<1>6. CASE ReadEnd(c)
  BY <1>6 DEF ReadEnd, OnceDo
<1> QED
  BY <1>1, <1>2, <1>3, <1>4, <1>5, <1>6 DEF ReaderSteps

LEMMA ListenType ==
    ASSUME TypeInv, NEW c \in Conns, ListenMessage(c)
    PROVE  TypeInv'
<1> USE DEF TypeInv, TypeOK, ArgTyped, OffStages, HLabels, RLabels, LLabels, notListener
<1>1. CASE ListenRange(c)
  BY <1>1, BoundsAssumption DEF ListenRange
<1>2. CASE ListenWrite(c)
  BY <1>2 DEF ListenWrite
<1> QED
  BY <1>1, <1>2 DEF ListenMessage

LEMMA TypeStep == TypeInv /\ [Next]_vars => TypeInv'
<1> SUFFICES ASSUME TypeInv, [Next]_vars
             PROVE  TypeInv'
  OBVIOUS
<1>1. CASE WebBroadcast
  <2>1. len' \in [Conns -> 0 .. QueueCap]
    <3>1. TypeOK /\ \E S : len' = Offer(S)
      BY <1>1 DEF WebBroadcast, fanoutRecovered, TypeInv
    <3> QED
      BY <3>1, OfferType
  <2>2. mapLeaked' \in BOOLEAN
    BY <1>1 DEF WebBroadcast, fanoutRecovered, TypeInv, TypeOK
  <2> QED
    BY <1>1, <2>1, <2>2 DEF WebBroadcast, TypeInv, TypeOK, ArgTyped
<1>2. CASE BusBroadcast
  BY <1>2, FanoutType DEF BusBroadcast, TypeInv, TypeOK, ArgTyped
<1>3. CASE UNCHANGED vars
  BY <1>3 DEF vars, TypeInv, TypeOK, ArgTyped
<1> QED
  BY <1>1, <1>2, <1>3, HandlerType, DoMessageType, ReaderType, ListenType DEF Next

\* Every field, queue and program counter of the TCP side keeps its type; in
\* particular no queue ever holds more than QueueCap messages.
THEOREM TypeCorrect == Spec => []TypeOK
<1>1. TypeInv => TypeOK
  BY DEF TypeInv
<1> QED
  BY <1>1, TypeInit, TypeStep, PTL DEF Spec

-----------------------------------------------------------------------------
(* One name per user.                                                      *)

\* Steps that leave OnlineMap alone: everything but Accept, OffDelete, Login,
\* LoginInsert and Rename.
MapStep(c) ==
    \/ Accept(c)
    \/ OffDelete(c)
    \/ \E n \in Usernames : Login(c, n)
    \/ LoginInsert(c)
    \/ \E n \in Names : Rename(c, n)

LEMMA MapUnchanged ==
    ASSUME [Next]_vars, \A c \in Conns : ~MapStep(c)
    PROVE  UNCHANGED OnlineMap
BY DEF Next, vars, MapStep, Handler, Offline, DoMessage, ReaderSteps, ListenMessage, HAnnounce,
       HTimeout, OffAnnounce, OffClose, OffDrain, OffCloseC, Answer, Register, Private, Who,
       GroupSend, Chat, LoginAnnounce, Reply, RenameSetName, PrivateSend, ReadEnd, ListenRange,
       ListenWrite, notListener, WebBroadcast, BusBroadcast

LEMMA OneKeyStep == TypeInv /\ OneKeyPerUser /\ [Next]_vars => OneKeyPerUser'
<1> SUFFICES ASSUME TypeInv, OneKeyPerUser, [Next]_vars
             PROVE  OneKeyPerUser'
  OBVIOUS
<1> USE DEF TypeInv, TypeOK, OneKeyPerUser
<1>1. ASSUME NEW c \in Conns, Accept(c)
      PROVE  OneKeyPerUser'
  BY <1>1 DEF Accept, Insert
<1>2. ASSUME NEW c \in Conns, OffDelete(c)
      PROVE  OneKeyPerUser'
  BY <1>2 DEF OffDelete, Delete
<1>3. ASSUME NEW c \in Conns, NEW n \in Usernames, Login(c, n)
      PROVE  OneKeyPerUser'
  BY <1>3 DEF Login, RenameUser, CanRename, Names
<1>4. ASSUME NEW c \in Conns, LoginInsert(c)
      PROVE  OneKeyPerUser'
  BY <1>4 DEF LoginInsert, Insert
<1>5. ASSUME NEW c \in Conns, NEW n \in Names, Rename(c, n)
      PROVE  OneKeyPerUser'
  BY <1>5, NamesAssumption DEF Rename, RenameUser, CanRename
<1>6. CASE \A c \in Conns : ~MapStep(c)
  BY <1>6, MapUnchanged
<1> QED
  BY <1>1, <1>2, <1>3, <1>4, <1>5, <1>6 DEF MapStep

\* For any number of connections and names, OnlineMap never holds a user under two
\* names, so fanoutTCP queues a message at most once for each.
THEOREM OneKey == Spec => []OneKeyPerUser
<1>1. Init => OneKeyPerUser
  BY DEF Init, OneKeyPerUser
<1> QED
  BY <1>1, TypeInit, TypeStep, OneKeyStep, PTL DEF Spec

-----------------------------------------------------------------------------
(* The process survives, unless a connection is kicked inside its login.   *)

\* A connection that is not accepted yet has done nothing, and its reader starts after
\* the handler has announced it; a closed queue belongs to a
\* connection that has finished Offline; a reader between RenameUser and Online whose
\* connection is already out of OnlineMap is recorded in lateKick.
LifeCycle ==
    \A c \in Conns :
        /\ hpc[c] = "new" => off[c] = "idle" /\ rpc[c] = "new" /\ Name[c] = c /\ ~auth[c]
        /\ hpc[c] = "announce" => rpc[c] = "new"
        /\ closed[c] => off[c] = "done"
        /\ rpc[c] = "insert" /\ PastDelete(c) => c \in lateKick

SafeInv ==
    /\ LifeCycle
    /\ GhostOnlyAfterLateKick
    /\ CrashOnlyAfterLateKick

\* A broadcast meets a closed queue only in a user that was kicked inside its login.
LEMMA FanoutSafe ==
    ASSUME TypeInv, SafeInv
    PROVE  /\ SendPanics => lateKick # {}
           /\ fanoutTCP /\ crashed' => lateKick # {}
<1>1. SendPanics => lateKick # {}
  BY DEF TypeInv, TypeOK, SafeInv, LifeCycle, GhostOnlyAfterLateKick, SendPanics, Online, PastDelete
<1> QED
  BY <1>1 DEF fanoutTCP

\* Who is in OnlineMap after Online's and after Offline's update of it.
LEMMA OnlineAfter ==
    ASSUME TypeInv, NEW c \in Conns
    PROVE  /\ \A n \in Names : OnlineMap' = Insert(OnlineMap, c, n) => Online' \subseteq Online \cup {c}
           /\ OnlineMap' = Delete(OnlineMap, c) => Online' \subseteq Online \ {c}
<1> USE ConnsAssumption DEF TypeInv, TypeOK, Online, Names
<1>1. ASSUME NEW n \in Names, OnlineMap' = Insert(OnlineMap, c, n), NEW d \in Online'
      PROVE  d \in Online \cup {c}
  BY <1>1 DEF Insert
<1>2. ASSUME OnlineMap' = Delete(OnlineMap, c), NEW d \in Online'
      PROVE  d \in Online \ {c}
  BY <1>2 DEF Delete
<1> QED
  BY <1>1, <1>2

LEMMA SafeHandler ==
    ASSUME TypeInv, SafeInv, NEW c \in Conns, Handler(c) \/ Offline(c)
    PROVE  SafeInv'
<1> USE DEF TypeInv, TypeOK, SafeInv, LifeCycle, GhostOnlyAfterLateKick, CrashOnlyAfterLateKick,
            Online, PastDelete, OffStages
<1>1. CASE Accept(c)
  <2>1. Online' \subseteq Online \cup {c}
    BY <1>1, OnlineAfter DEF Accept
  <2>2. LifeCycle' /\ CrashOnlyAfterLateKick'
    BY <1>1 DEF Accept
  <2>3. GhostOnlyAfterLateKick'
    BY <1>1, <2>1 DEF Accept
  <2> QED
    BY <2>2, <2>3
<1>2. CASE HAnnounce(c)
  BY <1>2, FanoutSafe DEF HAnnounce
<1>3. CASE HTimeout(c)
  BY <1>3 DEF HTimeout, OnceDo
<1>4. CASE OffDelete(c)
  <2>1. Online' \subseteq Online \ {c}
    BY <1>4, OnlineAfter DEF OffDelete
  <2>2. LifeCycle' /\ CrashOnlyAfterLateKick'
    BY <1>4 DEF OffDelete
  <2>3. GhostOnlyAfterLateKick'
    BY <1>4, <2>1 DEF OffDelete
  <2> QED
    BY <2>2, <2>3
<1>5. CASE OffAnnounce(c)
  BY <1>5, FanoutSafe DEF OffAnnounce
<1>6. CASE OffClose(c)
  BY <1>6 DEF OffClose, DrainTest
<1>7. CASE OffDrain(c)
  BY <1>7 DEF OffDrain, DrainTest
<1>8. CASE OffCloseC(c)
  BY <1>8 DEF OffCloseC
<1> QED
  BY <1>1, <1>2, <1>3, <1>4, <1>5, <1>6, <1>7, <1>8 DEF Handler, Offline

LEMMA SafeDoMessage ==
    ASSUME TypeInv, SafeInv, NEW c \in Conns, DoMessage(c)
    PROVE  SafeInv'
<1> USE DEF TypeInv, TypeOK, SafeInv, LifeCycle, GhostOnlyAfterLateKick, CrashOnlyAfterLateKick,
            Online, PastDelete, Scan, Signal, notReader
<1>1. CASE Answer(c)
  BY <1>1 DEF Answer
<1>2. ASSUME NEW n \in Usernames, Login(c, n)
      PROVE  SafeInv'
  BY <1>2 DEF Login, RenameUser, CanRename, Names
<1>3. ASSUME NEW n \in Usernames, Register(c, n)
      PROVE  SafeInv'
  BY <1>3 DEF Register
<1>4. ASSUME NEW n \in Usernames, Private(c, n)
      PROVE  SafeInv'
  BY <1>4 DEF Private
<1>5. CASE Who(c)
  BY <1>5 DEF Who
<1>6. ASSUME NEW n \in Names, Rename(c, n)
      PROVE  SafeInv'
  BY <1>6, NamesAssumption DEF Rename, RenameUser, CanRename
<1>7. ASSUME NEW members \in SUBSET accounts, GroupSend(c, members)
      PROVE  SafeInv'
  BY <1>7 DEF GroupSend
<1>8. CASE Chat(c)
  BY <1>8, FanoutSafe DEF Chat
<1> QED
  BY <1>1, <1>2, <1>3, <1>4, <1>5, <1>6, <1>7, <1>8 DEF DoMessage

LEMMA SafeReader ==
    ASSUME TypeInv, SafeInv, NEW c \in Conns, ReaderSteps(c) \/ ReadEnd(c)
    PROVE  SafeInv'
<1> USE DEF TypeInv, TypeOK, SafeInv, LifeCycle, GhostOnlyAfterLateKick, CrashOnlyAfterLateKick,
            Online, PastDelete, Signal, notReader
<1>1. CASE LoginInsert(c)
  <2>1. Online' \subseteq Online \cup {c}
    BY <1>1, OnlineAfter DEF LoginInsert, ArgTyped, Names
  <2>2. LifeCycle' /\ CrashOnlyAfterLateKick'
    BY <1>1 DEF LoginInsert
  <2>3. GhostOnlyAfterLateKick'
    BY <1>1, <2>1 DEF LoginInsert
  <2> QED
    BY <2>2, <2>3
<1>2. CASE LoginAnnounce(c)
  BY <1>2, FanoutSafe DEF LoginAnnounce
<1>3. CASE Reply(c)
  BY <1>3 DEF Reply
<1>4. CASE RenameSetName(c)
  BY <1>4 DEF RenameSetName
<1>5. CASE PrivateSend(c)
  BY <1>5 DEF PrivateSend
<1>6. CASE ReadEnd(c)
  BY <1>6 DEF ReadEnd, OnceDo
<1> QED
  BY <1>1, <1>2, <1>3, <1>4, <1>5, <1>6 DEF ReaderSteps

LEMMA SafeStep == TypeInv /\ SafeInv /\ [Next]_vars => SafeInv'
<1> SUFFICES ASSUME TypeInv, SafeInv, [Next]_vars
             PROVE  SafeInv'
  OBVIOUS
<1> USE DEF SafeInv, LifeCycle, GhostOnlyAfterLateKick, CrashOnlyAfterLateKick, Online, PastDelete
<1>1. ASSUME NEW c \in Conns, ListenMessage(c)
      PROVE  SafeInv'
  BY <1>1 DEF ListenMessage, ListenRange, ListenWrite, notListener
<1>2. CASE WebBroadcast
  BY <1>2, FanoutSafe DEF WebBroadcast, fanoutRecovered
<1>3. CASE BusBroadcast
  BY <1>3, FanoutSafe DEF BusBroadcast
<1>4. CASE UNCHANGED vars
  BY <1>4 DEF vars
<1> QED
  BY <1>1, <1>2, <1>3, <1>4, SafeHandler, SafeDoMessage, SafeReader DEF Next

LEMMA SafeInit == Init => SafeInv
BY ConnsAssumption DEF Init, SafeInv, LifeCycle, GhostOnlyAfterLateKick, CrashOnlyAfterLateKick,
                       Online, PastDelete, Names

\* Whatever lines arrive, in whatever order the goroutines run: the unrecovered panics of
\* fanoutTCP and Offline, the leaked mapLock, and a kicked user in OnlineMap need a connection that is
\* kicked between the RenameUser and the Online of its own login.
THEOREM KickSafety == Spec => [](CrashOnlyAfterLateKick /\ GhostOnlyAfterLateKick)
<1>1. SafeInv => CrashOnlyAfterLateKick /\ GhostOnlyAfterLateKick
  BY DEF SafeInv
<1> QED
  BY <1>1, TypeInit, TypeStep, SafeInit, SafeStep, PTL DEF Spec

-----------------------------------------------------------------------------
(* Connected users keep their entry.                                       *)

\* The five updates of OnlineMap, one by one.
LEMMA ReachMapStep ==
    ASSUME TypeInv, SafeInv, LiveUsersReachable, NEW c \in Conns, MapStep(c)
    PROVE  LiveUsersReachable'
<1> USE ConnsAssumption DEF TypeInv, TypeOK, ArgTyped, SafeInv, LifeCycle, LiveUsersReachable,
        KeyOf, PastDelete, Names
<1>1. CASE Accept(c)
  <2>1. ASSUME lateKick' = {}, staleRename' = {}, addressTaken' = {},
               NEW d \in Conns, hpc'[d] # "new", ~PastDelete(d)'
        PROVE  OnlineMap'[KeyOf(d)'] = d
    <3>1. CASE d = c
      BY <1>1, <2>1, <3>1 DEF Accept, Insert
    <3>2. CASE d # c
      <4>1. /\ hpc[d] # "new" /\ ~PastDelete(d) /\ KeyOf(d)' = KeyOf(d)
            /\ lateKick = {} /\ staleRename = {} /\ addressTaken = {}
        BY <1>1, <2>1, <3>2 DEF Accept, Insert
      <4>2. OnlineMap[KeyOf(d)] = d /\ KeyOf(d) \in Names
        BY <4>1
      <4>3. OnlineMap[c] # d
        <5>1. Name[c] = c /\ d # None
          BY <1>1 DEF Accept
        <5>2. {OnlineMap[Name[c]]} \ {c, None} = {}
          BY <1>1, <2>1 DEF Accept
        <5> QED
          BY <3>2, <5>1, <5>2
      <4>4. OnlineMap' = Insert(OnlineMap, c, c)
        <5>1. Name[c] = c
          BY <1>1 DEF Accept
        <5> QED
          BY <1>1, <5>1 DEF Accept
      <4> HIDE DEF KeyOf, PastDelete
      <4> QED
        BY <3>2, <4>1, <4>2, <4>3, <4>4 DEF Insert
    <3> QED
      BY <3>1, <3>2
  <2> QED
    BY <2>1
<1>2. CASE OffDelete(c)
  BY <1>2 DEF OffDelete, Delete
<1>3. ASSUME NEW n \in Usernames, Login(c, n)
      PROVE  LiveUsersReachable'
  <2>1. ASSUME lateKick' = {}, staleRename' = {}, addressTaken' = {},
               NEW d \in Conns, hpc'[d] # "new", ~PastDelete(d)'
        PROVE  OnlineMap'[KeyOf(d)'] = d
    <3>1. CASE d = c
      BY <1>3, <2>1, <3>1 DEF Login, CanRename, RenameUser, Scan, notReader
    <3>2. CASE d # c
      <4>1. /\ hpc[d] # "new" /\ ~PastDelete(d) /\ KeyOf(d)' = KeyOf(d)
            /\ lateKick = {} /\ staleRename = {} /\ addressTaken = {}
        BY <1>3, <2>1, <3>2 DEF Login, CanRename, RenameUser, Scan, notReader
      <4>2. OnlineMap[KeyOf(d)] = d /\ KeyOf(d) \in Names
        BY <4>1
      <4>3. OnlineMap[n] = None /\ Name[c] \in Names
        BY <1>3 DEF Login, CanRename
      <4>4. OnlineMap' = RenameUser(OnlineMap, Name[c], n)
        BY <1>3 DEF Login
      <4>5. OnlineMap[Name[c]] = c
        BY <1>3, <2>1, <4>1 DEF Login, Scan
      <4> HIDE DEF KeyOf, PastDelete
      <4> QED
        BY <3>2, <4>1, <4>2, <4>3, <4>4, <4>5 DEF RenameUser
    <3> QED
      BY <3>1, <3>2
  <2> QED
    BY <2>1
<1>4. CASE LoginInsert(c)
  BY <1>4 DEF LoginInsert, Insert, notReader
<1>5. ASSUME NEW n \in Names, Rename(c, n)
      PROVE  LiveUsersReachable'
  <2>1. ASSUME lateKick' = {}, staleRename' = {}, addressTaken' = {},
               NEW d \in Conns, hpc'[d] # "new", ~PastDelete(d)'
        PROVE  OnlineMap'[KeyOf(d)'] = d
    <3>1. CASE d = c
      BY <1>5, <2>1, <3>1 DEF Rename, CanRename, RenameUser, Scan, notReader
    <3>2. CASE d # c
      <4>1. /\ hpc[d] # "new" /\ ~PastDelete(d) /\ KeyOf(d)' = KeyOf(d)
            /\ lateKick = {} /\ staleRename = {} /\ addressTaken = {}
        BY <1>5, <2>1, <3>2 DEF Rename, CanRename, RenameUser, Scan, notReader
      <4>2. OnlineMap[KeyOf(d)] = d /\ KeyOf(d) \in Names
        BY <4>1
      <4>3. OnlineMap[n] = None /\ Name[c] \in Names
        BY <1>5 DEF Rename, CanRename
      <4>4. OnlineMap' = RenameUser(OnlineMap, Name[c], n)
        BY <1>5 DEF Rename
      <4>5. OnlineMap[Name[c]] = c
        BY <1>5, <2>1, <4>1 DEF Rename, Scan
      <4> HIDE DEF KeyOf, PastDelete
      <4> QED
        BY <3>2, <4>1, <4>2, <4>3, <4>4, <4>5 DEF RenameUser
    <3> QED
      BY <3>1, <3>2
  <2> QED
    BY <2>1
<1> QED
  BY <1>1, <1>2, <1>3, <1>4, <1>5 DEF MapStep

\* What a step that leaves OnlineMap alone does to the rest.
LEMMA ReachOtherStep ==
    ASSUME TypeInv, SafeInv, LiveUsersReachable, [Next]_vars, \A c \in Conns : ~MapStep(c)
    PROVE  LiveUsersReachable'
<1> USE DEF TypeInv, TypeOK, SafeInv, LifeCycle, LiveUsersReachable, KeyOf, PastDelete
<1>1. ASSUME NEW c \in Conns, Handler(c) \/ Offline(c)
      PROVE  LiveUsersReachable'
  <2>1. UNCHANGED OnlineMap
    BY MapUnchanged
  <2>2. CASE HAnnounce(c)
    BY <2>2 DEF HAnnounce
  <2>3. CASE HTimeout(c)
    BY <2>1, <2>3 DEF HTimeout, OnceDo
  <2>4. CASE OffAnnounce(c)
    BY <2>1, <2>4 DEF OffAnnounce
  <2>5. CASE OffClose(c)
    BY <2>1, <2>5 DEF OffClose, DrainTest
  <2>6. CASE OffDrain(c)
    BY <2>1, <2>6 DEF OffDrain, DrainTest
  <2>7. CASE OffCloseC(c)
    BY <2>1, <2>7 DEF OffCloseC
  <2> QED
    BY <1>1, <2>2, <2>3, <2>4, <2>5, <2>6, <2>7 DEF MapStep, Handler, Offline
<1>2. ASSUME NEW c \in Conns, DoMessage(c)
      PROVE  LiveUsersReachable'
  BY <1>2 DEF MapStep, DoMessage, Answer, Register, Private, Who, GroupSend, Chat, Scan, Signal, notReader
<1>3. ASSUME NEW c \in Conns, ReaderSteps(c) \/ ReadEnd(c)
      PROVE  LiveUsersReachable'
  BY <1>3 DEF MapStep, ReaderSteps, LoginAnnounce, Reply, RenameSetName, PrivateSend, ReadEnd, OnceDo,
     Signal, notReader
<1>4. ASSUME NEW c \in Conns, ListenMessage(c)
      PROVE  LiveUsersReachable'
  BY <1>4 DEF ListenMessage, ListenRange, ListenWrite, notListener
<1>5. CASE WebBroadcast \/ BusBroadcast \/ UNCHANGED vars
  BY <1>5 DEF WebBroadcast, BusBroadcast, vars
<1> QED
  BY <1>1, <1>2, <1>3, <1>4, <1>5 DEF Next

\* Whatever names clients choose, the addresses of other connections included: a connected
\* user stays in OnlineMap under its own name, however logins, renames and disconnections of
\* others interleave, until a kicked connection's reader goes on to rename or to log in, or a
\* connection is accepted from an address that a user has taken as its name.
THEOREM Reachability == Spec => []LiveUsersReachable
<1>1. Init => LiveUsersReachable
  BY DEF Init, LiveUsersReachable
<1>2. TypeInv /\ SafeInv /\ LiveUsersReachable /\ [Next]_vars => LiveUsersReachable'
  BY ReachMapStep, ReachOtherStep
<1> QED
  BY <1>1, <1>2, TypeInit, TypeStep, SafeInit, SafeStep, PTL DEF Spec
=============================================================================
