--------------------------- MODULE DeliveryProofs ---------------------------
(***************************************************************************)
(* Delivery for any servers, connections, names, messages and lines: what  *)
(* a connection gets, in which order, and what it is sure to have got.     *)
(***************************************************************************)
EXTENDS Delivery, SequenceTheorems, TLAPS

-----------------------------------------------------------------------------
(* The inductive invariant.                                                *)

\* Redis has m for the subscription of s.
OnBus(s, m) == \E i \in DOMAIN bus[s] : bus[s][i] = m

\* Lines of one connection's reader, which handles one after the other.
SameReader(m, n) ==
    msg[m].from = msg[n].from /\ msg[m].via = "reader" /\ msg[n].via = "reader"

\* The sequence q has messages twice only if they are in twice, and the lines of each reader in
\* their order except for those in late. Queues and subscriptions are like that.
Arranged(q, twice, late) ==
    \A i, j \in DOMAIN q : i < j =>
        /\ q[i] = q[j] => q[i] \in twice
        /\ SameReader(q[i], q[j]) => q[i] <= q[j] \/ q[j] \in late

\* What c may get late: a PUBLISH of another server that was repeated.
Late(c) == {m \in retried : Home[c] # Origin(m)}

\* What it may get twice: that, and a group's message during which it was renamed.
Twice(c) == Late(c) \cup {m \in Messages : c \in moved[m] /\ msg[m].mode = "group"}

\* The names of rest are still to be looked up in WSConns for m: that is not for c.
Passed(m, c, rest) == c \in Tcp \/ rest = {} \/ (msg[m].mode = "group" /\ name[c] \notin rest)

\* m has been offered to c, or never will be: by its sender's handler on the server of the
\* sender, by the receiver of the bus on the others.
Offered(c, m) ==
    IF Home[c] = Origin(m)
    THEN pc[m] \in {"ws", "publish", "done"} /\ Passed(m, c, left[m])
    ELSE pc[m] = "done" /\ ~OnBus(Home[c], m)

\* Where a handler is tells about its message.
HandlerInv ==
    /\ \A m \in Messages : pc[m] # "new" => msg[m] \in Lines[m]
    /\ \A m \in Messages : pc[m] = "ws" /\ msg[m].mode # "group" => left[m] = msg[m].to
    /\ \A s \in Servers : \A m \in saved[s] : pc[m] \notin {"new", "save"}

\* Messages begin in the order of their numbers, and those of a reader also end in it.
TurnInv ==
    \A m, n \in Messages : m < n /\ pc[n] # "new" =>
        pc[m] # "new" /\ (SameReader(m, n) => pc[m] = "done")

\* Who is counted on to have a message or the history.
ClientInv ==
    /\ \A m \in Messages : \A c \in present[m] :
          /\ conn[c] = "on" /\ pc[m] # "new"
          /\ UnderWay(m) /\ c \notin moved[m] => name[c] \in msg[m].to
    /\ \A c \in Conns : history[c] # None => conn[c] = "on" /\ c \notin Tcp

\* What is on the bus is done with at home, or is about to be published again.
BusInv ==
    \A s \in Servers :
        /\ Arranged(bus[s], retried, retried)
        /\ \A m \in Messages : OnBus(s, m) =>
              pc[m] = "done" \/ (pc[m] = "publish" /\ m \in retried)

\* What may be published again later has been about to be published.
StrayInv == \A m \in strays : pc[m] \in {"publish", "done"}

\* A connection has only what was offered to it, but for what it may get twice. What the bus
\* still has for it from another server is newer, but for what it may get late.
QueueInv ==
    /\ \A c \in Conns : Arranged(received[c], Twice(c), Late(c))
    /\ \A c \in Conns, m \in Messages : Got(c, m) =>
          pc[m] \in {"ws", "publish", "done"} /\ (Offered(c, m) \/ m \in Twice(c))
    /\ \A c \in Conns, m, n \in Messages :
          Got(c, m) /\ OnBus(Home[c], n) /\ Origin(n) # Home[c] /\ SameReader(m, n)
          => m <= n \/ n \in retried

\* m is for c, also after a rename, as far as the history of c is concerned.
Due(c, m) == ForAll(m) \/ (own[c] /\ name[c] \in msg[m].to)

\* Whoever was offered a message has it or lost it. NoGap and AudienceReached say this of the
\* handlers that are done only.
ReachInv ==
    /\ \A c \in Conns, m \in Messages :
          /\ history[c] # None /\ m \in saved[Home[c]]
          /\ Origin(m) = Home[c] /\ Due(c, m) /\ Offered(c, m)
          => m \in history[c] \/ Got(c, m) \/ <<m, c>> \in dropped
    /\ \A m \in Messages : \A c \in present[m] : Offered(c, m) /\ LookedUp(m, c) =>
          \/ Got(c, m)
          \/ <<m, c>> \in dropped
          \/ Home[c] # Origin(m) /\ lost

DeliveryInv ==
    /\ TypeOK /\ HandlerInv /\ TurnInv /\ ClientInv
    /\ BusInv /\ StrayInv /\ QueueInv /\ ReachInv

-----------------------------------------------------------------------------
(* Sequences of messages.                                                  *)

\* A message can be added behind those that it is no older than.
LEMMA ArrangedAppend ==
    ASSUME NEW q \in Seq(Messages), NEW x \in Messages, NEW r, r = Append(q, x),
           NEW twice, NEW late
    PROVE  /\ r \in Seq(Messages)
           /\ \A n : (\E i \in DOMAIN r : r[i] = n) <=> (\E i \in DOMAIN q : q[i] = n) \/ n = x
           /\ Arranged(q, twice, late)
              /\ (\A i \in DOMAIN q : /\ q[i] = x => x \in twice
                                      /\ SameReader(q[i], x) => q[i] <= x \/ x \in late)
              => Arranged(r, twice, late)
<1> DEFINE k == Len(q)
<1>1. /\ r \in Seq(Messages) /\ k \in Nat /\ DOMAIN q = 1 .. k /\ DOMAIN r = 1 .. k + 1
      /\ \A i \in 1 .. k : r[i] = q[i]
      /\ r[k + 1] = x
  BY AppendProperties, LenProperties
<1> HIDE DEF k
<1>2. DOMAIN r = DOMAIN q \cup {k + 1} /\ \A i \in DOMAIN q : i < k + 1 /\ ~(k + 1 < i)
  BY <1>1
<1>3. ASSUME NEW n
      PROVE  (\E i \in DOMAIN r : r[i] = n) <=> (\E i \in DOMAIN q : q[i] = n) \/ n = x
  BY <1>1, <1>2
<1>4. ASSUME Arranged(q, twice, late),
             \A i \in DOMAIN q : /\ q[i] = x => x \in twice
                                 /\ SameReader(q[i], x) => q[i] <= x \/ x \in late,
             NEW i \in DOMAIN r, NEW j \in DOMAIN r, i < j
      PROVE  /\ r[i] = r[j] => r[i] \in twice
             /\ SameReader(r[i], r[j]) => r[i] <= r[j] \/ r[j] \in late
  <2>1. i \in DOMAIN q
    BY <1>1, <1>2, <1>4
  <2>2. CASE j \in DOMAIN q
    BY <1>1, <1>4, <2>1, <2>2 DEF Arranged
  <2>3. CASE j = k + 1
    BY <1>1, <1>4, <2>1, <2>3
  <2> QED
    BY <1>2, <2>2, <2>3
<1> QED
  BY <1>1, <1>3, <1>4 DEF Arranged

\* The first message of an arranged sequence is not in the rest, and no newer than it, but for
\* the exceptions.
LEMMA ArrangedTail ==
    ASSUME NEW q \in Seq(Messages), q # <<>>, NEW twice, NEW late, Arranged(q, twice, late)
    PROVE  /\ Head(q) \in Messages /\ Tail(q) \in Seq(Messages) /\ Arranged(Tail(q), twice, late)
           /\ \A n : (\E i \in DOMAIN q : q[i] = n)
                     <=> (\E i \in DOMAIN Tail(q) : Tail(q)[i] = n) \/ n = Head(q)
           /\ \A i \in DOMAIN Tail(q) :
                 /\ Tail(q)[i] = Head(q) => Head(q) \in twice
                 /\ SameReader(Head(q), Tail(q)[i]) => Head(q) <= Tail(q)[i] \/ Tail(q)[i] \in late
<1> DEFINE h == Head(q)
           r == Tail(q)
           k == Len(r)
<1>1. /\ h = q[1] /\ h \in Messages /\ r \in Seq(Messages) /\ k \in Nat
      /\ DOMAIN r = 1 .. k /\ DOMAIN q = 1 .. k + 1
      /\ \A i \in 1 .. k : r[i] = q[i + 1]
  BY HeadTailProperties, LenProperties
<1> HIDE DEF h, r, k
<1>2. \A i \in DOMAIN r : i + 1 \in DOMAIN q /\ 1 < i + 1
  BY <1>1
<1>3. \A i \in DOMAIN q : i = 1 \/ (i - 1 \in DOMAIN r /\ (i - 1) + 1 = i)
  BY <1>1
<1>4. ASSUME NEW n
      PROVE  (\E i \in DOMAIN q : q[i] = n) <=> (\E i \in DOMAIN r : r[i] = n) \/ n = h
  <2>1. 1 \in DOMAIN q
    BY <1>1
  <2> QED
    BY <1>1, <1>2, <1>3, <2>1
<1>5. ASSUME NEW i \in DOMAIN r
      PROVE  (r[i] = h => h \in twice) /\ (SameReader(h, r[i]) => h <= r[i] \/ r[i] \in late)
  <2>1. 1 \in DOMAIN q /\ i + 1 \in DOMAIN q /\ 1 < i + 1 /\ r[i] = q[i + 1] /\ h = q[1]
    BY <1>1, <1>2
  <2> QED
    BY <2>1 DEF Arranged
<1>6. ASSUME NEW i \in DOMAIN r, NEW j \in DOMAIN r, i < j
      PROVE  /\ r[i] = r[j] => r[i] \in twice
             /\ SameReader(r[i], r[j]) => r[i] <= r[j] \/ r[j] \in late
  <2>1. i + 1 \in DOMAIN q /\ j + 1 \in DOMAIN q /\ i + 1 < j + 1 /\ r[i] = q[i + 1] /\ r[j] = q[j + 1]
    BY <1>1, <1>6
  <2> QED
    BY <2>1 DEF Arranged
<1> QED
  BY <1>1, <1>4, <1>5, <1>6 DEF Arranged, h, r

\* The queues of the registered connections of D that are not full take m behind the others.
LEMMA OfferFacts ==
    ASSUME TypeOK, NEW m \in Messages, NEW D \in SUBSET Conns, Offer(m, D),
           UNCHANGED <<msg, moved, retried>>
    PROVE  /\ received' \in [Conns -> Seq(Messages)] /\ dropped' \subseteq Messages \X Conns
           /\ \A c \in Conns : \A n : Got(c, n) => Got(c, n)'
           /\ \A c \in Conns : \A n : Got(c, n)' => Got(c, n) \/ (n = m /\ c \in D /\ conn[c] = "on")
           /\ dropped \subseteq dropped'
           /\ \A c \in D : conn[c] = "on" => Got(c, m)' \/ <<m, c>> \in dropped'
           /\ (/\ \A c \in Conns : Arranged(received[c], Twice(c), Late(c))
               /\ \A c \in D : Got(c, m) => m \in Twice(c)
               /\ \A c \in D, n \in Messages :
                     Got(c, n) /\ SameReader(n, m) => n <= m \/ m \in Late(c))
              => \A c \in Conns : Arranged(received[c], Twice(c), Late(c))'
<1>1. PICK full \in SUBSET {c \in D : conn[c] = "on"} :
         /\ received' = [c \in Conns |-> IF c \in {d \in D : conn[d] = "on"} \ full
                                          THEN Append(received[c], m) ELSE received[c]]
         /\ dropped' = dropped \cup {<<m, c>> : c \in full}
  BY DEF Offer
<1> DEFINE new == {d \in D : conn[d] = "on"} \ full
<1>2. \A c \in Conns : received[c] \in Seq(Messages)
  BY DEF TypeOK
<1>3. \A c \in Conns : received'[c] = IF c \in new THEN Append(received[c], m) ELSE received[c]
  BY <1>1
<1>4. ASSUME NEW c \in Conns
      PROVE  /\ received'[c] \in Seq(Messages)
             /\ \A n : Got(c, n)' <=> Got(c, n) \/ (n = m /\ c \in new)
  <2>1. CASE c \in new
    <3>1. received'[c] = Append(received[c], m)
      BY <1>3, <2>1
    <3> HIDE DEF new
    <3> QED
      BY <1>2, <2>1, <3>1, ArrangedAppend DEF Got
  <2>2. CASE c \notin new
    BY <1>2, <1>3, <2>2 DEF Got
  <2> QED
    BY <2>1, <2>2
<1>5. dropped' \subseteq Messages \X Conns
  BY <1>1 DEF TypeOK
<1>6. received' \in [Conns -> Seq(Messages)]
  BY <1>1, <1>4
<1>7. ASSUME \A c \in Conns : Arranged(received[c], Twice(c), Late(c)),
             \A c \in D : Got(c, m) => m \in Twice(c),
             \A c \in D, n \in Messages :
                Got(c, n) /\ SameReader(n, m) => n <= m \/ m \in Late(c),
             NEW c \in Conns
      PROVE  Arranged(received[c], Twice(c), Late(c))'
  <2>1. Arranged(received'[c], Twice(c), Late(c))
    <3>1. CASE c \in new
      <4>1. received'[c] = Append(received[c], m)
        BY <1>3, <3>1
      <4>2. \A i \in DOMAIN received[c] : received[c][i] \in Messages /\ Got(c, received[c][i])
        BY <1>2 DEF Got
      <4>3. \A i \in DOMAIN received[c] :
              /\ received[c][i] = m => m \in Twice(c)
              /\ SameReader(received[c][i], m) => received[c][i] <= m \/ m \in Late(c)
        BY <1>7, <3>1, <4>2
      <4> QED
        BY <1>2, <1>7, <4>1, <4>3, ArrangedAppend
    <3>2. CASE c \notin new
      BY <1>3, <1>7, <3>2
    <3> QED
      BY <3>1, <3>2
  <2>2. Twice(c)' = Twice(c) /\ Late(c)' = Late(c)
    BY DEF Twice, Late, Origin
  <2> QED
    BY <2>1, <2>2 DEF Arranged, SameReader
<1> QED
  BY <1>1, <1>4, <1>5, <1>6, <1>7

\* Sequences stay arranged while more is excused.
LEMMA ArrangedMore ==
    ASSUME NEW q, NEW twice, NEW late, NEW more, NEW later,
           Arranged(q, twice, late), twice \subseteq more, late \subseteq later
    PROVE  Arranged(q, more, later)
BY DEF Arranged

-----------------------------------------------------------------------------
(* Every step keeps the invariant.                                         *)

\* What the invariant says of a message that is on its way.
LEMMA OnItsWay ==
    ASSUME DeliveryInv
    PROVE  /\ \A c \in Conns, m \in Messages : Got(c, m) => pc[m] \in {"ws", "publish", "done"}
           /\ \A s \in Servers, m \in Messages : OnBus(s, m) => pc[m] \in {"publish", "done"}
           /\ \A m, n \in Messages : SameReader(n, m) /\ pc[n] # "new" /\ pc[m] # "done" => n <= m
           /\ \A m \in Messages : pc[m] # "new" => msg[m] \in Message
           /\ \A m \in Messages : pc[m] # "new" /\ ForAll(m) => msg[m].to = Names
           /\ \A c \in Conns : \A i \in DOMAIN received[c] :
                 received[c][i] \in Messages /\ Got(c, received[c][i])
           /\ \A s \in Servers : \A i \in DOMAIN bus[s] :
                 bus[s][i] \in Messages /\ OnBus(s, bus[s][i])
<1>1. \A c \in Conns, m \in Messages : Got(c, m) => pc[m] \in {"ws", "publish", "done"}
  BY DEF DeliveryInv, QueueInv
<1>2. \A m, n \in Messages : SameReader(n, m) /\ pc[n] # "new" /\ pc[m] # "done" => n <= m
  <2>1. \A m, n \in Messages : m < n \/ n <= m
    BY BoundsAssumption DEF Messages
  <2>2. \A m, n \in Messages : m < n /\ pc[n] # "new" => (SameReader(m, n) => pc[m] = "done")
    BY DEF DeliveryInv, TurnInv
  <2>3. \A m, n \in Messages : SameReader(n, m) => SameReader(m, n)
    BY DEF SameReader
  <2> QED
    BY <2>1, <2>2, <2>3
<1>3. \A m \in Messages : pc[m] # "new" => msg[m] \in Message /\ (ForAll(m) => msg[m].to = Names)
  BY LinesAssumption DEF DeliveryInv, HandlerInv, ForAll
<1>4. \A c \in Conns : received[c] \in Seq(Messages)
  BY DEF DeliveryInv, TypeOK
<1>5. \A s \in Servers : bus[s] \in Seq(Messages)
  BY DEF DeliveryInv, TypeOK
<1>6. \A c \in Conns : \A i \in DOMAIN received[c] :
         received[c][i] \in Messages /\ Got(c, received[c][i])
  BY <1>4 DEF Got
<1>7. \A s \in Servers : \A i \in DOMAIN bus[s] : bus[s][i] \in Messages /\ OnBus(s, bus[s][i])
  BY <1>5 DEF OnBus
<1>8. \A s \in Servers, m \in Messages : OnBus(s, m) => pc[m] \in {"publish", "done"}
  BY DEF DeliveryInv, BusInv
<1> QED
  BY <1>1, <1>2, <1>3, <1>6, <1>7, <1>8

LEMMA DeliveryInit == Init => DeliveryInv
<1> SUFFICES ASSUME Init PROVE DeliveryInv
  OBVIOUS
<1> USE DEF Init
<1>1. TypeOK
  <2>1. <<>> \in Seq(Messages)
    OBVIOUS
  <2> QED
    BY <2>1, NamesAssumption DEF TypeOK, Labels
<1>2. \A c \in Conns : \A m : ~Got(c, m)
  BY DEF Got
<1>3. \A s \in Servers : \A m : ~OnBus(s, m)
  BY DEF OnBus
<1>4. HandlerInv /\ TurnInv /\ ClientInv /\ StrayInv
  BY DEF HandlerInv, TurnInv, ClientInv, StrayInv
<1>5. \A twice, late : Arranged(<<>>, twice, late)
  BY DEF Arranged
<1>6. BusInv
  BY <1>3, <1>5 DEF BusInv
<1>7. QueueInv
  BY <1>2, <1>5 DEF QueueInv
<1>8. ReachInv
  BY DEF ReachInv
<1> QED
  BY <1>1, <1>4, <1>6, <1>7, <1>8 DEF DeliveryInv

\* Steps of the connections: the messages do not change, nor what Redis has.
MessagesAsBefore == UNCHANGED <<msg, pc, left, saved, bus, strays, lost, retried>>

LEMMA ConnectionFrame ==
    ASSUME DeliveryInv, MessagesAsBefore
    PROVE  /\ \A m, n : SameReader(m, n)' = SameReader(m, n)
           /\ \A s, m : OnBus(s, m)' = OnBus(s, m)
           /\ \A m : Origin(m)' = Origin(m) /\ ForAll(m)' = ForAll(m) /\ UnderWay(m)' = UnderWay(m)
           /\ \A c : Late(c)' = Late(c)
           /\ HandlerInv' /\ TurnInv' /\ BusInv' /\ StrayInv'
           /\ \A c \in Conns : received'[c] = received[c] =>
                 \A m : Got(c, m)' = Got(c, m)
           /\ \A c \in Conns : received'[c] = received[c] /\ Twice(c) \subseteq Twice(c)' =>
                 Arranged(received[c], Twice(c), Late(c))'
           /\ \A c \in Conns : received'[c] = <<>> =>
                 Arranged(received[c], Twice(c), Late(c))' /\ \A m : ~Got(c, m)'
<1> USE DEF DeliveryInv, MessagesAsBefore
<1>1. /\ \A m, n : SameReader(m, n)' = SameReader(m, n)
      /\ \A s, m : OnBus(s, m)' = OnBus(s, m)
      /\ \A m : Origin(m)' = Origin(m) /\ ForAll(m)' = ForAll(m) /\ UnderWay(m)' = UnderWay(m)
      /\ \A c : Late(c)' = Late(c)
  BY DEF SameReader, OnBus, Origin, ForAll, UnderWay, Late
<1>2. HandlerInv' /\ TurnInv' /\ StrayInv'
  BY <1>1 DEF HandlerInv, TurnInv, StrayInv
<1>3. BusInv'
  BY DEF BusInv, Arranged, SameReader, OnBus
<1>4. ASSUME NEW c \in Conns, received'[c] = received[c]
      PROVE  \A m : Got(c, m)' = Got(c, m)
  BY <1>4 DEF Got
<1>5. ASSUME NEW c \in Conns, received'[c] = received[c], Twice(c) \subseteq Twice(c)'
      PROVE  Arranged(received[c], Twice(c), Late(c))'
  <2>1. Arranged(received[c], Twice(c), Late(c))
    BY DEF QueueInv
  <2>2. Arranged(received[c], Twice(c)', Late(c)')
    BY <1>1, <1>5, <2>1, ArrangedMore
  <2> QED
    BY <1>1, <1>5, <2>2 DEF Arranged
<1>6. ASSUME NEW c \in Conns, received'[c] = <<>>
      PROVE  Arranged(received[c], Twice(c), Late(c))' /\ \A m : ~Got(c, m)'
  BY <1>6 DEF Arranged, Got
<1> QED
  BY <1>1, <1>2, <1>3, <1>4, <1>5, <1>6

LEMMA ConnectStep ==
    ASSUME DeliveryInv, NEW c \in Conns, Connect(c)
    PROVE  DeliveryInv'
<1> USE DEF DeliveryInv
<1>1. /\ UNCHANGED <<name, renames, received, dropped, history, own, present, moved>>
      /\ conn' = [conn EXCEPT ![c] = "on"] /\ MessagesAsBefore
  BY DEF Connect, MessagesAsBefore, busVars
<1>2. /\ \A d, m : Offered(d, m)' = Offered(d, m) /\ LookedUp(m, d)' = LookedUp(m, d)
                   /\ Due(d, m)' = Due(d, m)
      /\ \A d : Twice(d)' = Twice(d)
      /\ \A d, m : Got(d, m)' = Got(d, m)
  BY <1>1 DEF Offered, LookedUp, Due, Twice, Late, Origin, ForAll, OnBus, Passed, MessagesAsBefore, Got
<1>3. TypeOK'
  BY <1>1 DEF TypeOK, MessagesAsBefore
<1>4. ClientInv'
  BY <1>1 DEF ClientInv, TypeOK, MessagesAsBefore, UnderWay
<1>5. QueueInv'
  <2>1. \A d \in Conns : Arranged(received[d], Twice(d), Late(d))'
    BY <1>1, <1>2, ConnectionFrame
  <2> QED
    BY <1>1, <1>2, <2>1, ConnectionFrame DEF QueueInv, MessagesAsBefore
<1>6. ReachInv'
  BY <1>1, <1>2, ConnectionFrame DEF ReachInv, MessagesAsBefore
<1> QED
  BY <1>1, <1>3, <1>4, <1>5, <1>6, ConnectionFrame

LEMMA DisconnectStep ==
    ASSUME DeliveryInv, NEW c \in Conns, Disconnect(c)
    PROVE  DeliveryInv'
<1> USE DEF DeliveryInv
<1>1. /\ MessagesAsBefore /\ renames' = renames
      /\ conn' = [conn EXCEPT ![c] = "off"]
      /\ name' = [name EXCEPT ![c] = FirstName[c]]
      /\ received' = [received EXCEPT ![c] = <<>>]
      /\ history' = [history EXCEPT ![c] = None]
      /\ own' = [own EXCEPT ![c] = FALSE]
      /\ dropped' = {d \in dropped : d[2] # c}
      /\ present' = [m \in Messages |-> present[m] \ {c}]
      /\ moved' = [m \in Messages |-> moved[m] \ {c}]
  BY DEF Disconnect, MessagesAsBefore, busVars
<1>2. TypeOK'
  <2>1. received' \in [Conns -> Seq(Messages)]
    <3>1. <<>> \in Seq(Messages)
      OBVIOUS
    <3> QED
      BY <1>1, <3>1 DEF TypeOK
  <2>2. /\ name' \in [Conns -> Names] /\ conn' \in [Conns -> {"new", "on", "off"}]
        /\ history' \in [Conns -> (SUBSET Messages) \cup {None}] /\ own' \in [Conns -> BOOLEAN]
    BY <1>1, NamesAssumption DEF TypeOK
  <2>3. present' \in [Messages -> SUBSET Conns] /\ moved' \in [Messages -> SUBSET Conns]
    BY <1>1 DEF TypeOK
  <2> QED
    BY <1>1, <2>1, <2>2, <2>3 DEF TypeOK, MessagesAsBefore
<1>3. /\ \A d \in Conns : d # c =>
            /\ received'[d] = received[d] /\ conn'[d] = conn[d] /\ name'[d] = name[d]
            /\ history'[d] = history[d] /\ own'[d] = own[d]
      /\ received'[c] = <<>> /\ history'[c] = None
  BY <1>1 DEF TypeOK
<1>4. \A m \in Messages : \A d \in Conns :
         /\ d # c => (d \in moved'[m] <=> d \in moved[m]) /\ (d \in present'[m] <=> d \in present[m])
         /\ d \in present'[m] => d # c
  BY <1>1
<1>5. \A m \in Messages, d \in Conns : d # c => (<<m, d>> \in dropped' <=> <<m, d>> \in dropped)
  BY <1>1
<1>6. \A d \in Conns : d # c =>
         /\ Twice(d)' = Twice(d)
         /\ \A m \in Messages : /\ Offered(d, m)' <=> Offered(d, m)
                                /\ LookedUp(m, d)' <=> LookedUp(m, d)
                                /\ Due(d, m)' <=> Due(d, m)
  <2> SUFFICES ASSUME NEW d \in Conns, d # c
               PROVE  /\ Twice(d)' = Twice(d)
                      /\ \A m \in Messages : /\ Offered(d, m)' <=> Offered(d, m)
                                             /\ LookedUp(m, d)' <=> LookedUp(m, d)
                                             /\ Due(d, m)' <=> Due(d, m)
    OBVIOUS
  <2>1. Twice(d)' = Twice(d)
    BY <1>1, <1>4 DEF Twice, Late, Origin, MessagesAsBefore
  <2>2. ASSUME NEW m \in Messages PROVE Offered(d, m)' <=> Offered(d, m)
    BY <1>1, <1>3 DEF Offered, Passed, Origin, OnBus, MessagesAsBefore
  <2>3. ASSUME NEW m \in Messages PROVE LookedUp(m, d)' <=> LookedUp(m, d)
    BY <1>1, <1>4 DEF LookedUp, Origin, ForAll, MessagesAsBefore
  <2>4. ASSUME NEW m \in Messages PROVE Due(d, m)' <=> Due(d, m)
    BY <1>1, <1>3 DEF Due, ForAll, MessagesAsBefore
  <2> QED
    BY <2>1, <2>2, <2>3, <2>4
<1>7. ClientInv'
  <2>1. ASSUME NEW m \in Messages, NEW d \in present'[m]
        PROVE  /\ conn'[d] = "on" /\ pc'[m] # "new"
               /\ UnderWay(m)' /\ d \notin moved'[m] => name'[d] \in msg'[m].to
    <3>1. d \in Conns /\ d # c /\ d \in present[m]
      BY <1>2, <1>4 DEF TypeOK
    <3> QED
      BY <1>1, <1>3, <1>4, <3>1, ConnectionFrame DEF ClientInv, MessagesAsBefore
  <2> QED
    BY <1>3, <2>1 DEF ClientInv
<1>8. QueueInv'
  <2>1. \A d \in Conns : Arranged(received[d], Twice(d), Late(d))'
    BY <1>1, <1>3, <1>6, ConnectionFrame
  <2>2. \A m : ~Got(c, m)'
    BY <1>1, <1>3, ConnectionFrame
  <2>3. \A d \in Conns : \A m : d # c => Got(d, m)' = Got(d, m)
    BY <1>1, <1>3, ConnectionFrame
  <2>4. \A d \in Conns, m \in Messages : Got(d, m)' =>
           pc'[m] \in {"ws", "publish", "done"} /\ (Offered(d, m)' \/ m \in Twice(d)')
    BY <1>1, <1>6, <2>2, <2>3 DEF QueueInv, MessagesAsBefore
  <2>5. \A d \in Conns, m, n \in Messages :
           Got(d, m)' /\ OnBus(Home[d], n)' /\ Origin(n)' # Home[d] /\ SameReader(m, n)'
           => m <= n \/ n \in retried'
    BY <1>1, <2>2, <2>3, ConnectionFrame DEF QueueInv, MessagesAsBefore
  <2> QED
    BY <2>1, <2>4, <2>5 DEF QueueInv
<1>9. ReachInv'
  <2>1. \A d \in Conns : \A m : d # c => Got(d, m)' = Got(d, m)
    BY <1>1, <1>3, ConnectionFrame
  <2>2. ASSUME NEW d \in Conns, NEW m \in Messages, history'[d] # None, m \in saved'[Home[d]],
               Origin(m)' = Home[d], Due(d, m)', Offered(d, m)'
        PROVE  m \in history'[d] \/ Got(d, m)' \/ <<m, d>> \in dropped'
    BY <1>1, <1>3, <1>5, <1>6, <2>1, <2>2, ConnectionFrame DEF ReachInv, MessagesAsBefore
  <2>3. ASSUME NEW m \in Messages, NEW d \in present'[m], Offered(d, m)', LookedUp(m, d)'
        PROVE  \/ Got(d, m)'
               \/ <<m, d>> \in dropped'
               \/ Home[d] # Origin(m)' /\ lost'
    <3>1. d \in Conns /\ d # c /\ d \in present[m]
      BY <1>2, <1>4 DEF TypeOK
    <3> QED
      BY <1>1, <1>5, <1>6, <2>1, <2>3, <3>1, ConnectionFrame DEF ReachInv, MessagesAsBefore
  <2> QED
    BY <2>2, <2>3 DEF ReachInv
<1> QED
  BY <1>1, <1>2, <1>7, <1>8, <1>9, ConnectionFrame

\* Rename: what is under way for names loses its hold on the connection; what is for everybody
\* does not depend on its name.
LEMMA RenameStep ==
    ASSUME DeliveryInv, NEW c \in Conns, NEW n \in Names, Rename(c, n)
    PROVE  DeliveryInv'
<1> USE DEF DeliveryInv
<1>1. /\ MessagesAsBefore /\ UNCHANGED <<conn, received, dropped, history, present>>
      /\ conn[c] = "on" /\ renames' = renames + 1
      /\ name' = [name EXCEPT ![c] = n]
      /\ own' = [own EXCEPT ![c] = FALSE]
      /\ moved' = [m \in Messages |-> IF UnderWay(m) /\ ~ForAll(m) THEN moved[m] \cup {c}
                                                                  ELSE moved[m]]
  BY DEF Rename, MessagesAsBefore, busVars
<1>2. TypeOK'
  <2>1. name' \in [Conns -> Names] /\ own' \in [Conns -> BOOLEAN] /\ renames' \in Nat
    BY <1>1 DEF TypeOK
  <2>2. moved' \in [Messages -> SUBSET Conns]
    BY <1>1 DEF TypeOK
  <2> QED
    BY <1>1, <2>1, <2>2 DEF TypeOK, MessagesAsBefore
<1>3. /\ \A d \in Conns : d # c => name'[d] = name[d] /\ own'[d] = own[d]
      /\ ~own'[c]
  BY <1>1 DEF TypeOK
<1>4. /\ \A m \in Messages : \A d \in Conns : d # c => (d \in moved'[m] <=> d \in moved[m])
      /\ \A m \in Messages : moved[m] \subseteq moved'[m]
      /\ \A m \in Messages : UnderWay(m) /\ ~ForAll(m) => c \in moved'[m]
  BY <1>1
<1>5. \A d \in Conns : Twice(d) \subseteq Twice(d)'
  BY <1>1, <1>4 DEF Twice, Late, Origin, MessagesAsBefore
<1>6. \A m \in Messages : \A d \in Conns : \A rest : (d # c \/ msg[m].mode # "group") =>
         (Passed(m, d, rest)' <=> Passed(m, d, rest))
  BY <1>1, <1>3 DEF Passed, MessagesAsBefore
<1>7. \A m \in Messages : \A d \in Conns : (d # c \/ ~UnderWay(m) \/ ForAll(m)) =>
         (Offered(d, m)' <=> Offered(d, m))
  <2> SUFFICES ASSUME NEW m \in Messages, NEW d \in Conns, d # c \/ ~UnderWay(m) \/ ForAll(m)
               PROVE  Offered(d, m)' <=> Offered(d, m)
    OBVIOUS
  <2>1. CASE d # c \/ msg[m].mode # "group"
    BY <1>1, <1>6, <2>1 DEF Offered, Origin, OnBus, MessagesAsBefore
  <2>2. CASE msg[m].mode = "group" /\ ~UnderWay(m)
    <3>1. pc[m] # "ws" /\ left[m] = {}
      BY <2>2 DEF UnderWay, TypeOK
    <3> QED
      BY <1>1, <3>1 DEF Offered, Passed, Origin, OnBus, MessagesAsBefore
  <2> QED
    BY <2>1, <2>2 DEF ForAll
<1>8. \A m \in Messages : \A d \in Conns : LookedUp(m, d)' => LookedUp(m, d)
  BY <1>1, <1>4 DEF LookedUp, Origin, ForAll, MessagesAsBefore
<1>9. \A m \in Messages : \A d \in Conns : Due(d, m)' => Due(d, m) /\ (d # c \/ ForAll(m))
  BY <1>1, <1>3 DEF Due, ForAll, MessagesAsBefore
<1>10. \A d, m : Got(d, m)' = Got(d, m)
  BY <1>1 DEF Got
<1>11. ClientInv'
  <2>1. ASSUME NEW m \in Messages, NEW d \in present[m], UnderWay(m), d \notin moved'[m]
        PROVE  name'[d] \in msg[m].to
    <3>1. d \in Conns /\ name'[d] \in Names
      BY <1>2 DEF TypeOK
    <3>2. CASE d # c
      BY <1>3, <1>4, <2>1, <3>1, <3>2 DEF ClientInv
    <3>3. CASE d = c
      <4>1. ForAll(m) /\ pc[m] # "new"
        BY <1>4, <2>1, <3>3 DEF UnderWay
      <4> QED
        BY <3>1, <4>1, OnItsWay
    <3> QED
      BY <3>2, <3>3
  <2>2. ASSUME NEW m \in Messages, NEW d \in present'[m]
        PROVE  /\ conn'[d] = "on" /\ pc'[m] # "new"
               /\ UnderWay(m)' /\ d \notin moved'[m] => name'[d] \in msg'[m].to
    BY <1>1, <2>1, ConnectionFrame DEF ClientInv, MessagesAsBefore
  <2> QED
    BY <1>1, <2>2 DEF ClientInv
<1>12. QueueInv'
  <2>1. \A d \in Conns : Arranged(received[d], Twice(d), Late(d))'
    BY <1>1, <1>5, ConnectionFrame
  <2>2. ASSUME NEW d \in Conns, NEW m \in Messages, Got(d, m)
        PROVE  pc[m] \in {"ws", "publish", "done"} /\ (Offered(d, m)' \/ m \in Twice(d)')
    <3>1. pc[m] \in {"ws", "publish", "done"} /\ (Offered(d, m) \/ m \in Twice(d))
      BY <2>2 DEF QueueInv
    <3>2. CASE m \in Twice(d)
      BY <1>5, <3>1, <3>2
    <3>3. CASE Offered(d, m) /\ (d # c \/ ~UnderWay(m) \/ ForAll(m))
      BY <1>7, <3>1, <3>3
    <3>4. CASE d = c /\ UnderWay(m) /\ ~ForAll(m) /\ msg[m].mode = "group"
      <4>1. c \in moved'[m] /\ msg'[m].mode = "group"
        BY <1>1, <1>4, <3>4 DEF MessagesAsBefore
      <4>2. m \in Twice(c)'
        BY <4>1 DEF Twice
      <4> QED
        BY <3>1, <3>4, <4>2
    <3>5. CASE Offered(d, m) /\ msg[m].mode # "group"
      BY <1>1, <1>6, <3>1, <3>5 DEF Offered, Origin, OnBus, MessagesAsBefore
    <3> QED
      BY <3>1, <3>2, <3>3, <3>4, <3>5
  <2>3. \A d \in Conns, m \in Messages : Got(d, m)' =>
           pc'[m] \in {"ws", "publish", "done"} /\ (Offered(d, m)' \/ m \in Twice(d)')
    BY <1>1, <1>10, <2>2 DEF MessagesAsBefore
  <2>4. \A d \in Conns, m, k \in Messages :
           Got(d, m)' /\ OnBus(Home[d], k)' /\ Origin(k)' # Home[d] /\ SameReader(m, k)'
           => m <= k \/ k \in retried'
    BY <1>1, <1>10, ConnectionFrame DEF QueueInv, MessagesAsBefore
  <2> QED
    BY <2>1, <2>3, <2>4 DEF QueueInv
<1>13. ReachInv'
  <2>1. ASSUME NEW d \in Conns, NEW m \in Messages, history'[d] # None, m \in saved'[Home[d]],
               Origin(m)' = Home[d], Due(d, m)', Offered(d, m)'
        PROVE  m \in history'[d] \/ Got(d, m)' \/ <<m, d>> \in dropped'
    <3>1. Due(d, m) /\ Offered(d, m)
      BY <1>7, <1>9, <2>1
    <3> QED
      BY <1>1, <1>10, <2>1, <3>1, ConnectionFrame DEF ReachInv, MessagesAsBefore
  <2>2. ASSUME NEW m \in Messages, NEW d \in present'[m], Offered(d, m)', LookedUp(m, d)'
        PROVE  \/ Got(d, m)'
               \/ <<m, d>> \in dropped'
               \/ Home[d] # Origin(m)' /\ lost'
    <3>1. d \in Conns /\ d \in present[m] /\ LookedUp(m, d)
      BY <1>1, <1>2, <1>8, <2>2 DEF TypeOK
    <3>2. CASE Offered(d, m)
      BY <1>1, <1>10, <3>1, <3>2, ConnectionFrame DEF ReachInv, MessagesAsBefore
    <3>3. CASE d = c /\ UnderWay(m) /\ ~ForAll(m) /\ Home[d] = Origin(m)
      <4>1. Home[d] = Origin(m)' /\ ~ForAll(m)' /\ c \in moved'[m]
        BY <1>1, <1>4, <3>3, ConnectionFrame
      <4> QED
        BY <2>2, <3>3, <4>1 DEF LookedUp
    <3>4. CASE Home[d] # Origin(m)
      <4>1. Offered(d, m)' <=> Offered(d, m)
        BY <1>1, <3>4 DEF Offered, Origin, OnBus, MessagesAsBefore
      <4> QED
        BY <2>2, <3>2, <4>1
    <3> QED
      BY <1>7, <2>2, <3>1, <3>2, <3>3, <3>4
  <2> QED
    BY <2>1, <2>2 DEF ReachInv
<1> QED
  BY <1>1, <1>2, <1>11, <1>12, <1>13, ConnectionFrame

LEMMA LoadHistoryStep ==
    ASSUME DeliveryInv, NEW c \in Conns, NEW n \in Names, LoadHistory(c, n)
    PROVE  DeliveryInv'
<1> USE DEF DeliveryInv
<1>1. /\ MessagesAsBefore /\ UNCHANGED <<conn, name, renames, received, dropped, present, moved>>
      /\ conn[c] = "on" /\ c \notin Tcp
      /\ history' = [history EXCEPT ![c] = HistoryOf(Home[c], n)]
      /\ own' = [own EXCEPT ![c] = (name[c] = n)]
  BY DEF LoadHistory, MessagesAsBefore, busVars
<1>2. HistoryOf(Home[c], n) \subseteq Messages
  BY HomeAssumption DEF HistoryOf, TypeOK
<1>3. TypeOK'
  <2>1. own' \in [Conns -> BOOLEAN]
    BY <1>1 DEF TypeOK
  <2> QED
    BY <1>1, <1>2, <2>1 DEF TypeOK, MessagesAsBefore
<1>4. /\ \A d, m : Offered(d, m)' = Offered(d, m) /\ LookedUp(m, d)' = LookedUp(m, d)
      /\ \A d : Twice(d)' = Twice(d)
      /\ \A d, m : Got(d, m)' = Got(d, m)
  BY <1>1 DEF Offered, LookedUp, Twice, Late, Origin, ForAll, OnBus, Passed, MessagesAsBefore, Got
<1>5. ClientInv'
  BY <1>1 DEF ClientInv, TypeOK, MessagesAsBefore, UnderWay
<1>6. QueueInv'
  <2>1. \A d \in Conns : Arranged(received[d], Twice(d), Late(d))'
    BY <1>1, <1>4, ConnectionFrame
  <2> QED
    BY <1>1, <1>4, <2>1, ConnectionFrame DEF QueueInv, MessagesAsBefore
<1>7. \A d \in Conns : d # c => history'[d] = history[d] /\ own'[d] = own[d]
  BY <1>1 DEF TypeOK
<1>8. history'[c] = HistoryOf(Home[c], n) /\ (own'[c] => name[c] = n)
  BY <1>1 DEF TypeOK
<1>9. ReachInv'
  <2>1. ASSUME NEW d \in Conns, NEW m \in Messages, history'[d] # None, m \in saved'[Home[d]],
               Origin(m)' = Home[d], Due(d, m)', Offered(d, m)'
        PROVE  m \in history'[d] \/ Got(d, m)' \/ <<m, d>> \in dropped'
    <3>1. CASE d # c
      <4>1. Due(d, m)
        BY <1>1, <1>7, <2>1, <3>1 DEF Due, ForAll, MessagesAsBefore
      <4> QED
        BY <1>1, <1>4, <1>7, <2>1, <3>1, <4>1, ConnectionFrame DEF ReachInv, MessagesAsBefore
    <3>2. CASE d = c
      <4>1. m \in saved[Home[c]] /\ pc[m] # "new"
        BY <1>1, <2>1, <3>2, HomeAssumption DEF MessagesAsBefore, HandlerInv
      <4>2. n \in msg[m].to
        BY <1>1, <1>8, <2>1, <3>2, <4>1, OnItsWay DEF Due, ForAll, MessagesAsBefore
      <4> QED
        BY <1>8, <3>2, <4>1, <4>2 DEF HistoryOf
    <3> QED
      BY <3>1, <3>2
  <2>2. \A m \in Messages : \A d \in present'[m] : Offered(d, m)' /\ LookedUp(m, d)' =>
          \/ Got(d, m)'
          \/ <<m, d>> \in dropped'
          \/ Home[d] # Origin(m)' /\ lost'
    BY <1>1, <1>4, ConnectionFrame DEF ReachInv, MessagesAsBefore
  <2> QED
    BY <2>1, <2>2 DEF ReachInv
<1> QED
  BY <1>1, <1>3, <1>5, <1>6, <1>9, ConnectionFrame

\* A handler begins with a line. Nobody has heard of the message.
LEMMA SendStep ==
    ASSUME DeliveryInv, NEW m \in Messages, NEW q \in Lines[m], Send(m, q),
           q.via = "reader" =>
              \A n \in Messages : UnderWay(n) /\ msg[n].via = "reader" => msg[n].from # q.from
    PROVE  DeliveryInv'
<1> USE DEF DeliveryInv
<1>1. /\ UNCHANGED <<conn, name, renames, history, own, left, saved, received, dropped, moved>>
      /\ UNCHANGED <<bus, strays, lost, retried>>
      /\ pc[m] = "new" /\ \A n \in Messages : n < m => pc[n] # "new"
      /\ msg' = [msg EXCEPT ![m] = q]
      /\ pc' = [pc EXCEPT ![m] = "save"]
      /\ present' = [present EXCEPT ![m] = {c \in Conns : conn[c] = "on" /\ name[c] \in q.to}]
  BY DEF Send, connVars, busVars
<1>2. /\ msg'[m] = q /\ pc'[m] = "save"
      /\ present'[m] = {c \in Conns : conn[c] = "on" /\ name[c] \in q.to}
      /\ \A n \in Messages : n # m => msg'[n] = msg[n] /\ pc'[n] = pc[n] /\ present'[n] = present[n]
  BY <1>1 DEF TypeOK
<1>3. q \in Message
  BY LinesAssumption
<1>4. /\ \A c \in Conns : ~Got(c, m)
      /\ \A s \in Servers : ~OnBus(s, m) /\ m \notin saved[s]
      /\ left[m] = {} /\ m \notin strays
  BY <1>1, OnItsWay DEF HandlerInv, StrayInv, TypeOK
<1>5. /\ \A c, n : Got(c, n)' = Got(c, n)
      /\ \A s, n : OnBus(s, n)' = OnBus(s, n)
  BY <1>1 DEF Got, OnBus
<1>6. \A n \in Messages : n # m =>
         /\ Origin(n)' = Origin(n) /\ UnderWay(n)' = UnderWay(n)
         /\ \A k \in Messages : k # m => SameReader(n, k)' = SameReader(n, k)
  BY <1>2 DEF Origin, UnderWay, SameReader
<1>7. ASSUME NEW n \in Messages, n # m, NEW c \in Conns
      PROVE  /\ Offered(c, n)' <=> Offered(c, n)
             /\ LookedUp(n, c)' <=> LookedUp(n, c)
             /\ Due(c, n)' <=> Due(c, n)
             /\ n \in Twice(c)' <=> n \in Twice(c)
             /\ n \in Late(c)' <=> n \in Late(c)
  <2>1. n \in Late(c)' <=> n \in Late(c)
    BY <1>1, <1>6, <1>7 DEF Late
  <2>2. n \in Twice(c)' <=> n \in Twice(c)
    BY <1>1, <1>2, <1>7, <2>1 DEF Twice
  <2> QED
    BY <1>1, <1>2, <1>5, <1>6, <1>7, <2>1, <2>2 DEF Offered, Passed, LookedUp, Due, ForAll
<1>8. \A c \in Conns : ~Offered(c, m)'
  BY <1>2 DEF Offered
<1>9. TypeOK'
  <2>1. present' \in [Messages -> SUBSET Conns]
    BY <1>1 DEF TypeOK
  <2>2. pc' \in [Messages -> Labels]
    BY <1>1 DEF TypeOK, Labels
  <2>3. \A n \in Messages : pc'[n] # "ws" => left'[n] = {}
    BY <1>1, <1>2, <1>4 DEF TypeOK
  <2>4. msg' \in [Messages -> Message \cup {None}]
    BY <1>1, <1>3 DEF TypeOK
  <2> QED
    BY <1>1, <2>1, <2>2, <2>3, <2>4 DEF TypeOK
<1>10. HandlerInv' /\ StrayInv'
  <2>1. \A n \in Messages : pc'[n] # "new" => msg'[n] \in Lines[n]
    BY <1>2 DEF HandlerInv
  <2>2. \A n \in Messages : pc'[n] = "ws" /\ msg'[n].mode # "group" => left'[n] = msg'[n].to
    BY <1>1, <1>2 DEF HandlerInv
  <2>3. \A s \in Servers : \A n \in saved'[s] : pc'[n] \notin {"new", "save"}
    BY <1>1, <1>2, <1>4 DEF HandlerInv, TypeOK
  <2>4. StrayInv'
    BY <1>1, <1>2, <1>4 DEF StrayInv, TypeOK
  <2> QED
    BY <2>1, <2>2, <2>3, <2>4 DEF HandlerInv
<1>11. TurnInv'
  <2> SUFFICES ASSUME NEW a \in Messages, NEW b \in Messages, a < b, pc'[b] # "new"
               PROVE  pc'[a] # "new" /\ (SameReader(a, b)' => pc'[a] = "done")
    BY DEF TurnInv
  <2>1. a # b
    BY BoundsAssumption DEF Messages
  <2>2. CASE b = m
    <3>1. pc[a] # "new" /\ msg'[a] = msg[a] /\ pc'[a] = pc[a]
      BY <1>1, <1>2, <2>1, <2>2
    <3>2. SameReader(a, b)' => q.via = "reader" /\ msg[a].via = "reader" /\ msg[a].from = q.from
      BY <1>2, <2>2, <3>1 DEF SameReader
    <3> QED
      BY <3>1, <3>2 DEF UnderWay
  <2>3. CASE b # m
    <3>1. pc[b] # "new"
      BY <1>2, <2>3
    <3>2. a # m
      BY <1>1, <3>1 DEF TurnInv
    <3> QED
      BY <1>2, <1>6, <2>3, <3>1, <3>2 DEF TurnInv
  <2> QED
    BY <2>2, <2>3
<1>12. ClientInv'
  <2>1. ASSUME NEW n \in Messages, NEW c \in present'[n]
        PROVE  /\ conn'[c] = "on" /\ pc'[n] # "new"
               /\ UnderWay(n)' /\ c \notin moved'[n] => name'[c] \in msg'[n].to
    BY <1>1, <1>2, <1>6, <2>1 DEF ClientInv
  <2> QED
    BY <1>1, <2>1 DEF ClientInv
<1>13. BusInv'
  <2>1. \A s \in Servers : Arranged(bus[s], retried, retried)'
    <3> SUFFICES ASSUME NEW s \in Servers PROVE Arranged(bus[s], retried, retried)'
      OBVIOUS
    <3>1. \A i \in DOMAIN bus[s] : msg'[bus[s][i]] = msg[bus[s][i]]
      BY <1>2, <1>4, OnItsWay
    <3>2. Arranged(bus[s], retried, retried)
      BY DEF BusInv
    <3> QED
      BY <1>1, <3>1, <3>2 DEF Arranged, SameReader
  <2> QED
    BY <1>1, <1>2, <1>4, <1>5, <2>1 DEF BusInv
<1>14. QueueInv'
  <2>1. \A c \in Conns : Arranged(received[c], Twice(c), Late(c))'
    <3> SUFFICES ASSUME NEW c \in Conns PROVE Arranged(received[c], Twice(c), Late(c))'
      OBVIOUS
    <3>1. \A i \in DOMAIN received[c] : received[c][i] \in Messages /\ received[c][i] # m
      BY <1>4, OnItsWay
    <3>2. \A i \in DOMAIN received[c] :
             /\ msg'[received[c][i]] = msg[received[c][i]]
             /\ received[c][i] \in Twice(c)' <=> received[c][i] \in Twice(c)
             /\ received[c][i] \in Late(c)' <=> received[c][i] \in Late(c)
      BY <1>2, <1>7, <3>1
    <3>3. Arranged(received[c], Twice(c), Late(c))
      BY DEF QueueInv
    <3> QED
      BY <1>1, <3>2, <3>3 DEF Arranged, SameReader
  <2>2. \A c \in Conns, n \in Messages : Got(c, n)' =>
           pc'[n] \in {"ws", "publish", "done"} /\ (Offered(c, n)' \/ n \in Twice(c)')
    BY <1>2, <1>4, <1>5, <1>7 DEF QueueInv
  <2>3. \A c \in Conns, n, k \in Messages :
           Got(c, n)' /\ OnBus(Home[c], k)' /\ Origin(k)' # Home[c] /\ SameReader(n, k)'
           => n <= k \/ k \in retried'
    <3>1. \A c \in Conns : Home[c] \in Servers
      BY HomeAssumption
    <3> QED
      BY <1>1, <1>4, <1>5, <1>6, <3>1 DEF QueueInv
  <2> QED
    BY <2>1, <2>2, <2>3 DEF QueueInv
<1>15. ReachInv'
  <2>1. ASSUME NEW c \in Conns, NEW n \in Messages, history'[c] # None, n \in saved'[Home[c]],
               Origin(n)' = Home[c], Due(c, n)', Offered(c, n)'
        PROVE  n \in history'[c] \/ Got(c, n)' \/ <<n, c>> \in dropped'
    BY <1>1, <1>2, <1>5, <1>6, <1>7, <1>8, <2>1 DEF ReachInv
  <2>2. ASSUME NEW n \in Messages, NEW c \in present'[n], Offered(c, n)', LookedUp(n, c)'
        PROVE  \/ Got(c, n)'
               \/ <<n, c>> \in dropped'
               \/ Home[c] # Origin(n)' /\ lost'
    <3>1. c \in Conns
      BY <1>9 DEF TypeOK
    <3> QED
      BY <1>1, <1>2, <1>5, <1>6, <1>7, <1>8, <2>2, <3>1 DEF ReachInv
  <2> QED
    BY <2>1, <2>2 DEF ReachInv
<1> QED
  BY <1>9, <1>10, <1>11, <1>12, <1>13, <1>14, <1>15

\* A handler that goes on, with the message as it is, keeps the turns.
LEMMA TurnStep ==
    ASSUME DeliveryInv, NEW m \in Messages, UnderWay(m), msg' = msg,
           NEW l \in Labels \ {"new"}, pc' = [pc EXCEPT ![m] = l]
    PROVE  TurnInv' /\ pc' \in [Messages -> Labels]
<1>1. pc'[m] = l /\ \A n \in Messages : n # m => pc'[n] = pc[n]
  BY DEF DeliveryInv, TypeOK
<1>2. \A a, b \in Messages : SameReader(a, b)' = SameReader(a, b)
  BY DEF SameReader
<1>3. TurnInv'
  BY <1>1, <1>2 DEF DeliveryInv, TurnInv, UnderWay
<1> QED
  BY <1>3 DEF DeliveryInv, TypeOK

\* Reject, SaveMessage: the message has not been offered to anybody.
LEMMA SaveStep ==
    ASSUME DeliveryInv, NEW m \in Messages, Reject(m) \/ SaveMessage(m)
    PROVE  DeliveryInv'
<1> USE DEF DeliveryInv
<1>1. /\ UNCHANGED <<conn, name, renames, history, own, msg, left, received, dropped, moved>>
      /\ UNCHANGED <<bus, strays, lost, retried>>
      /\ pc[m] = "save"
  BY DEF Reject, SaveMessage, connVars, busVars
<1>2. /\ \A c, n : Got(c, n)' = Got(c, n)
      /\ \A s, n : OnBus(s, n)' = OnBus(s, n)
      /\ \A n, k : SameReader(n, k)' = SameReader(n, k)
      /\ \A n, c : LookedUp(n, c)' = LookedUp(n, c) /\ Due(c, n)' = Due(c, n)
      /\ \A n : Origin(n)' = Origin(n)
      /\ \A c : Twice(c)' = Twice(c) /\ Late(c)' = Late(c)
  BY <1>1 DEF Got, OnBus, SameReader, LookedUp, Due, ForAll, Origin, Twice, Late
<1>3. /\ \A c \in Conns : ~Got(c, m)
      /\ \A s \in Servers : ~OnBus(s, m) /\ m \notin saved[s]
      /\ left[m] = {} /\ m \notin strays
  BY <1>1, OnItsWay DEF HandlerInv, StrayInv, TypeOK
<1>4. /\ \A c \in Conns : Arranged(received[c], Twice(c), Late(c))'
      /\ \A s \in Servers : Arranged(bus[s], retried, retried)'
  <2>1. \A c \in Conns : Arranged(received[c], Twice(c), Late(c))
    BY DEF QueueInv
  <2>2. \A s \in Servers : Arranged(bus[s], retried, retried)
    BY DEF BusInv
  <2> QED
    BY <1>1, <1>2, <2>1, <2>2 DEF Arranged
<1>5. Origin(m) \in Servers
  BY <1>1, OnItsWay, HomeAssumption DEF Origin, Message
<1>6. ASSUME \A n \in Messages : n # m => pc'[n] = pc[n]
      PROVE  \A c \in Conns, n \in Messages : n # m => (Offered(c, n)' <=> Offered(c, n))
  BY <1>1, <1>2, <1>6 DEF Offered, Passed
<1>7. CASE Reject(m)
  <2>1. saved' = saved /\ pc' = [pc EXCEPT ![m] = "done"] /\ present' = [present EXCEPT ![m] = {}]
    BY <1>7 DEF Reject
  <2>2. /\ \A n \in Messages : n # m => pc'[n] = pc[n] /\ present'[n] = present[n]
        /\ pc'[m] = "done" /\ present'[m] = {}
    BY <2>1 DEF TypeOK
  <2>3. TurnInv' /\ pc' \in [Messages -> Labels]
    BY <1>1, <2>1, TurnStep DEF Labels, UnderWay
  <2>4. TypeOK'
    BY <1>1, <1>3, <2>1, <2>2, <2>3 DEF TypeOK
  <2>5. HandlerInv' /\ StrayInv'
    BY <1>1, <1>2, <1>3, <2>1, <2>2 DEF HandlerInv, StrayInv, TypeOK
  <2>6. ClientInv'
    BY <1>1, <2>2 DEF ClientInv, UnderWay
  <2>7. BusInv'
    BY <1>1, <1>2, <1>3, <1>4, <2>2 DEF BusInv
  <2>8. QueueInv'
    BY <1>1, <1>2, <1>3, <1>4, <1>6, <2>2 DEF QueueInv
  <2>9. ASSUME NEW c \in Conns, NEW n \in Messages, history'[c] # None, n \in saved'[Home[c]],
               Origin(n)' = Home[c], Due(c, n)', Offered(c, n)'
        PROVE  n \in history'[c] \/ Got(c, n)' \/ <<n, c>> \in dropped'
    BY <1>1, <1>2, <1>3, <1>6, <2>1, <2>2, <2>9, HomeAssumption DEF ReachInv
  <2>10. ASSUME NEW n \in Messages, NEW c \in present'[n], Offered(c, n)', LookedUp(n, c)'
         PROVE  \/ Got(c, n)'
                \/ <<n, c>> \in dropped'
                \/ Home[c] # Origin(n)' /\ lost'
    <3>1. c \in Conns /\ n # m
      BY <2>2, <2>4 DEF TypeOK
    <3> QED
      BY <1>1, <1>2, <1>6, <2>2, <2>10, <3>1 DEF ReachInv
  <2>11. ReachInv'
    BY <2>9, <2>10 DEF ReachInv
  <2> QED
    BY <2>3, <2>4, <2>5, <2>6, <2>7, <2>8, <2>11
<1>8. CASE SaveMessage(m)
  <2>1. /\ present' = present /\ pc' = [pc EXCEPT ![m] = "tcp"]
        /\ saved' = [saved EXCEPT ![Origin(m)] = @ \cup {m}] \/ saved' = saved
    BY <1>8 DEF SaveMessage
  <2>2. /\ \A n \in Messages : n # m => pc'[n] = pc[n]
        /\ pc'[m] = "tcp"
    BY <2>1 DEF TypeOK
  <2>3. /\ saved' \in [Servers -> SUBSET Messages]
        /\ \A s \in Servers : \A n \in saved'[s] : n = m \/ n \in saved[s]
    <3>1. CASE saved' = saved
      BY <3>1 DEF TypeOK
    <3>2. CASE saved' = [saved EXCEPT ![Origin(m)] = @ \cup {m}]
      BY <1>5, <3>2 DEF TypeOK
    <3> QED
      BY <2>1, <3>1, <3>2
  <2>4. TurnInv' /\ pc' \in [Messages -> Labels]
    BY <1>1, <2>1, TurnStep DEF Labels, UnderWay
  <2>5. TypeOK'
    BY <1>1, <1>3, <2>1, <2>2, <2>3, <2>4 DEF TypeOK
  <2>6. HandlerInv' /\ StrayInv'
    <3>1. \A s \in Servers : \A n \in saved'[s] : pc'[n] \notin {"new", "save"}
      BY <2>2, <2>3 DEF HandlerInv
    <3> QED
      BY <1>1, <1>2, <1>3, <2>2, <3>1 DEF HandlerInv, StrayInv, TypeOK
  <2>7. ClientInv'
    BY <1>1, <2>1, <2>2 DEF ClientInv, UnderWay
  <2>8. BusInv'
    BY <1>1, <1>2, <1>3, <1>4, <2>2 DEF BusInv
  <2>9. QueueInv'
    BY <1>1, <1>2, <1>3, <1>4, <1>6, <2>2 DEF QueueInv
  <2>10. \A c \in Conns : ~Offered(c, m)'
    BY <2>2 DEF Offered
  <2>11. ASSUME NEW c \in Conns, NEW n \in Messages, history'[c] # None, n \in saved'[Home[c]],
                Origin(n)' = Home[c], Due(c, n)', Offered(c, n)'
         PROVE  n \in history'[c] \/ Got(c, n)' \/ <<n, c>> \in dropped'
    BY <1>1, <1>2, <1>6, <2>2, <2>3, <2>10, <2>11, HomeAssumption DEF ReachInv
  <2>12. ASSUME NEW n \in Messages, NEW c \in present'[n], Offered(c, n)', LookedUp(n, c)'
         PROVE  \/ Got(c, n)'
                \/ <<n, c>> \in dropped'
                \/ Home[c] # Origin(n)' /\ lost'
    <3>1. c \in Conns /\ n # m
      BY <2>5, <2>10, <2>12 DEF TypeOK
    <3> QED
      BY <1>1, <1>2, <1>6, <2>1, <2>2, <2>12, <3>1 DEF ReachInv
  <2>13. ReachInv'
    BY <2>11, <2>12 DEF ReachInv
  <2> QED
    BY <2>4, <2>5, <2>6, <2>7, <2>8, <2>9, <2>13
<1> QED
  BY <1>7, <1>8

\* The handler offers m to connections D of its own server whose turn it is; the names of rest
\* are still to be looked up.
LEMMA HandlerOffers ==
    ASSUME DeliveryInv, NEW m \in Messages, NEW D \in SUBSET Conns, Offer(m, D),
           pc[m] \in {"tcp", "ws"},
           UNCHANGED <<conn, name, renames, history, own, msg, saved, present, moved>>,
           UNCHANGED <<bus, strays, lost, retried>>,
           NEW l \in {"ws", "publish", "done"}, pc' = [pc EXCEPT ![m] = l],
           NEW rest \in SUBSET Names, left' = [left EXCEPT ![m] = rest],
           l # "ws" => rest = {},
           l = "ws" /\ msg[m].mode # "group" => rest = msg[m].to,
           l = "done" => ~ForAll(m),
           \A c \in D : /\ Home[c] = Origin(m) /\ Passed(m, c, rest)
                        /\ Got(c, m) => m \in Twice(c),
           \A c \in Conns : Home[c] = Origin(m) /\ Offered(c, m) => Passed(m, c, rest),
           \A c \in Conns :
              Home[c] = Origin(m) /\ Passed(m, c, rest) /\ ~Offered(c, m) /\ name[c] \in msg[m].to
              => c \in D
    PROVE  DeliveryInv'
<1> USE DEF DeliveryInv
<1>1. /\ pc'[m] = l /\ left'[m] = rest
      /\ \A n \in Messages : n # m => pc'[n] = pc[n] /\ left'[n] = left[n]
  BY DEF TypeOK
<1>2. /\ \A s, n : OnBus(s, n)' = OnBus(s, n)
      /\ \A n, k : SameReader(n, k)' = SameReader(n, k)
      /\ \A n, c : LookedUp(n, c)' = LookedUp(n, c) /\ Due(c, n)' = Due(c, n)
      /\ \A n : Origin(n)' = Origin(n)
      /\ \A n, c, r : Passed(n, c, r)' = Passed(n, c, r)
      /\ \A c : Twice(c)' = Twice(c) /\ Late(c)' = Late(c)
  BY DEF OnBus, SameReader, LookedUp, Due, ForAll, Origin, Passed, Twice, Late
<1>3. /\ received' \in [Conns -> Seq(Messages)] /\ dropped' \subseteq Messages \X Conns
      /\ \A c \in Conns : \A n : Got(c, n) => Got(c, n)'
      /\ \A c \in Conns : \A n : Got(c, n)' => Got(c, n) \/ (n = m /\ c \in D /\ conn[c] = "on")
      /\ dropped \subseteq dropped'
      /\ \A c \in D : conn[c] = "on" => Got(c, m)' \/ <<m, c>> \in dropped'
  BY OfferFacts
<1>4. \A c \in Conns : Arranged(received[c], Twice(c), Late(c))'
  <2>1. \A c \in D, n \in Messages : Got(c, n) /\ SameReader(n, m) => n <= m \/ m \in Late(c)
    BY OnItsWay
  <2>2. \A c \in Conns : Arranged(received[c], Twice(c), Late(c))
    BY DEF QueueInv
  <2> QED
    BY <2>1, <2>2, OfferFacts
<1>5. \A c \in Conns, n \in Messages : n # m => (Offered(c, n)' <=> Offered(c, n))
  BY <1>1, <1>2 DEF Offered
<1>6. \A c \in Conns : Home[c] # Origin(m) => ~Offered(c, m) /\ (Offered(c, m)' => l = "done")
  BY <1>1, <1>2 DEF Offered
<1>7. \A c \in Conns : Home[c] = Origin(m) => (Offered(c, m)' <=> Passed(m, c, rest))
  BY <1>1, <1>2 DEF Offered
<1>8. TurnInv' /\ pc' \in [Messages -> Labels]
  BY TurnStep DEF Labels, UnderWay
<1>9. TypeOK'
  <2>1. left' \in [Messages -> SUBSET Names]
    BY DEF TypeOK
  <2>2. \A n \in Messages : pc'[n] # "ws" => left'[n] = {}
    BY <1>1 DEF TypeOK
  <2> QED
    BY <1>3, <1>8, <2>1, <2>2 DEF TypeOK
<1>10. HandlerInv' /\ StrayInv'
  <2>1. \A n \in Messages : pc'[n] # "new" => msg'[n] \in Lines[n]
    BY <1>1 DEF HandlerInv
  <2>2. \A n \in Messages : pc'[n] = "ws" /\ msg'[n].mode # "group" => left'[n] = msg'[n].to
    BY <1>1 DEF HandlerInv
  <2>3. \A s \in Servers : \A n \in saved'[s] : pc'[n] \notin {"new", "save"}
    BY <1>1 DEF HandlerInv, TypeOK
  <2>4. m \notin strays /\ strays \subseteq Messages
    BY DEF StrayInv, TypeOK
  <2>5. StrayInv'
    BY <1>1, <2>4 DEF StrayInv
  <2> QED
    BY <2>1, <2>2, <2>3, <2>5 DEF HandlerInv
<1>11. ClientInv'
  <2>1. \A n \in Messages : UnderWay(n)' => UnderWay(n)
    BY <1>1 DEF UnderWay
  <2>2. \A n \in Messages : pc[n] # "new" => pc'[n] # "new"
    BY <1>1
  <2> QED
    BY <2>1, <2>2 DEF ClientInv
<1>12. BusInv'
  <2>1. \A s \in Servers : Arranged(bus[s], retried, retried)'
    BY DEF BusInv, Arranged, SameReader
  <2>2. \A s \in Servers : ~OnBus(s, m)
    BY OnItsWay
  <2> QED
    BY <1>1, <1>2, <2>1, <2>2 DEF BusInv
<1>13. QueueInv'
  <2>1. ASSUME NEW c \in Conns, NEW n \in Messages, Got(c, n)'
        PROVE  pc'[n] \in {"ws", "publish", "done"} /\ (Offered(c, n)' \/ n \in Twice(c)')
    <3>1. CASE Got(c, n)
      <4>1. pc[n] \in {"ws", "publish", "done"} /\ (Offered(c, n) \/ n \in Twice(c))
        BY <3>1 DEF QueueInv
      <4> QED
        BY <1>1, <1>2, <1>5, <1>6, <1>7, <4>1
    <3>2. CASE n = m /\ c \in D
      BY <1>1, <1>7, <3>2
    <3> QED
      BY <1>3, <2>1, <3>1, <3>2
  <2>2. ASSUME NEW c \in Conns, NEW n \in Messages, NEW k \in Messages,
               Got(c, n)', OnBus(Home[c], k), Origin(k) # Home[c], SameReader(n, k)
        PROVE  n <= k \/ k \in retried
    <3>1. Got(c, n)
      <4>1. Origin(n) = Origin(k)
        BY <2>2 DEF SameReader, Origin
      <4> QED
        BY <1>3, <2>2, <4>1
    <3> QED
      BY <2>2, <3>1 DEF QueueInv
  <2> QED
    BY <1>2, <1>4, <2>1, <2>2 DEF QueueInv
<1>14. ReachInv'
  <2>1. ASSUME NEW c \in Conns, NEW n \in Messages, history[c] # None, n \in saved[Home[c]],
               Origin(n) = Home[c], Due(c, n), Offered(c, n)'
        PROVE  n \in history[c] \/ Got(c, n)' \/ <<n, c>> \in dropped'
    <3>1. CASE Offered(c, n)
      BY <1>3, <2>1, <3>1 DEF ReachInv
    <3>2. CASE ~Offered(c, n)
      <4>1. n = m
        BY <1>5, <2>1, <3>2
      <4>2. name[c] \in msg[m].to
        BY <2>1, <4>1, OnItsWay DEF Due, TypeOK
      <4>3. c \in D
        BY <1>7, <2>1, <3>2, <4>1, <4>2
      <4>4. conn[c] = "on"
        BY <2>1 DEF ClientInv
      <4> QED
        BY <1>3, <4>1, <4>3, <4>4
    <3> QED
      BY <3>1, <3>2
  <2>2. ASSUME NEW n \in Messages, NEW c \in present[n], Offered(c, n)', LookedUp(n, c)
        PROVE  \/ Got(c, n)'
               \/ <<n, c>> \in dropped'
               \/ Home[c] # Origin(n) /\ lost
    <3>1. c \in Conns /\ conn[c] = "on"
      BY DEF TypeOK, ClientInv
    <3>2. CASE Offered(c, n)
      BY <1>3, <2>2, <3>1, <3>2 DEF ReachInv
    <3>3. CASE ~Offered(c, n)
      <4>1. n = m
        BY <1>5, <2>2, <3>1, <3>3
      <4>2. CASE Home[c] = Origin(m)
        <5>1. name[c] \in msg[m].to
          <6>1. UnderWay(m) /\ name[c] \in Names /\ pc[m] # "new"
            BY <3>1 DEF UnderWay, TypeOK
          <6>2. CASE ForAll(m)
            BY <6>1, <6>2, OnItsWay
          <6>3. CASE c \notin moved[m]
            BY <2>2, <4>1, <6>1, <6>3 DEF ClientInv
          <6> QED
            BY <2>2, <4>1, <4>2, <6>2, <6>3 DEF LookedUp
        <5> QED
          BY <1>3, <1>7, <2>2, <3>1, <3>3, <4>1, <4>2, <5>1
      <4>3. CASE Home[c] # Origin(m)
        BY <1>6, <2>2, <3>1, <4>1, <4>3 DEF LookedUp, ForAll
      <4> QED
        BY <4>2, <4>3
    <3> QED
      BY <3>2, <3>3
  <2> QED
    BY <1>2, <2>1, <2>2 DEF ReachInv
<1> QED
  BY <1>8, <1>9, <1>10, <1>11, <1>12, <1>13, <1>14

LEMMA DeliverTCPStep ==
    ASSUME DeliveryInv, NEW m \in Messages, DeliverTCP(m)
    PROVE  DeliveryInv'
<1> DEFINE D == OnlineMap(Origin(m), msg[m].to)
           rest == msg[m].to
<1>1. /\ pc[m] = "tcp" /\ Offer(m, D)
      /\ pc' = [pc EXCEPT ![m] = "ws"] /\ left' = [left EXCEPT ![m] = rest]
      /\ UNCHANGED <<conn, name, renames, history, own, msg, saved, present, moved>>
      /\ UNCHANGED <<bus, strays, lost, retried>>
  BY DEF DeliverTCP, connVars, busVars
<1>2. \A c \in Conns : ~Offered(c, m) /\ ~Got(c, m)
  BY <1>1, OnItsWay DEF Offered
<1>3. D \in SUBSET Conns /\ rest \in SUBSET Names
  BY <1>1, OnItsWay DEF OnlineMap, At, Message
<1>4. \A c \in D : Home[c] = Origin(m) /\ Passed(m, c, rest)
  BY DEF OnlineMap, At, Passed
<1>5. \A c \in Conns : Home[c] = Origin(m) /\ Passed(m, c, rest) /\ name[c] \in msg[m].to => c \in D
  BY DEF OnlineMap, At, Passed
<1>6. msg[m].mode # "group" => rest = msg[m].to
  OBVIOUS
<1> HIDE DEF D, rest
<1>7. \A c \in D : /\ Home[c] = Origin(m) /\ Passed(m, c, rest)
                   /\ Got(c, m) => m \in Twice(c)
  BY <1>2, <1>3, <1>4
<1> QED
  BY <1>1, <1>2, <1>3, <1>5, <1>6, <1>7, HandlerOffers, ZenonT(60)

LEMMA DeliverWSStep ==
    ASSUME DeliveryInv, NEW m \in Messages, DeliverWS(m)
    PROVE  DeliveryInv'
<1>1. PICK N \in UnderOneLock(m) :
         /\ Offer(m, WSConns(Origin(m), N))
         /\ left' = [left EXCEPT ![m] = @ \ N]
         /\ pc' = [pc EXCEPT ![m] = LoopWS(m, N)]
  BY DEF DeliverWS
<1>2. /\ pc[m] = "ws"
      /\ UNCHANGED <<conn, name, renames, history, own, msg, saved, present, moved>>
      /\ UNCHANGED <<bus, strays, lost, retried>>
  BY DEF DeliverWS, connVars, busVars
<1>3. /\ N \subseteq left[m] /\ left[m] \in SUBSET Names
      /\ msg[m].mode # "group" => N = left[m] /\ left[m] = msg[m].to
  BY <1>2 DEF UnderOneLock, DeliveryInv, TypeOK, HandlerInv
<1>4. PICK l : l = LoopWS(m, N)
  OBVIOUS
<1>5. PICK rest : rest = left[m] \ N
  OBVIOUS
<1>6. PICK D : D = WSConns(Origin(m), N)
  OBVIOUS
<1>7. /\ l \in {"ws", "publish", "done"}
      /\ l # "ws" => rest = {}
      /\ l = "ws" => msg[m].mode = "group"
      /\ l = "done" => ~ForAll(m)
  BY <1>3, <1>4, <1>5 DEF LoopWS, AfterWS
<1>8. \A c \in Conns : Home[c] = Origin(m) => (Offered(c, m) <=> Passed(m, c, left[m]))
  BY <1>2 DEF Offered
<1>9. D \in SUBSET Conns /\ rest \in SUBSET Names
  BY <1>3, <1>5, <1>6 DEF WSConns, At
<1>10. \A c \in D : c \in Conns /\ Home[c] = Origin(m) /\ c \notin Tcp /\ name[c] \in N
  BY <1>6 DEF WSConns, At
<1>11. \A c \in D : Home[c] = Origin(m) /\ Passed(m, c, rest) /\ ~Passed(m, c, left[m])
  BY <1>3, <1>5, <1>10 DEF Passed
<1>12. \A c \in D : Got(c, m) => m \in Twice(c)
  <2>1. \A c \in Conns : Got(c, m) => Offered(c, m) \/ m \in Twice(c)
    BY DEF DeliveryInv, QueueInv
  <2> QED
    BY <1>8, <1>10, <1>11, <2>1
<1>13. \A c \in Conns : Home[c] = Origin(m) /\ Offered(c, m) => Passed(m, c, rest)
  <2>1. \A c \in Conns : Passed(m, c, left[m]) => Passed(m, c, rest)
    BY <1>3, <1>5 DEF Passed
  <2> QED
    BY <1>8, <2>1
<1>14. \A c \in Conns :
          Home[c] = Origin(m) /\ Passed(m, c, rest) /\ ~Offered(c, m) /\ name[c] \in msg[m].to
          => c \in D
  <2>1. ASSUME NEW c \in Conns, Home[c] = Origin(m), Passed(m, c, rest), ~Passed(m, c, left[m]),
               name[c] \in msg[m].to
        PROVE  c \in D
    <3>1. c \notin Tcp /\ name[c] \in N
      BY <1>3, <1>5, <2>1 DEF Passed
    <3> QED
      BY <1>6, <2>1, <3>1 DEF WSConns, At
  <2> QED
    BY <1>8, <2>1
<1>15. pc' = [pc EXCEPT ![m] = l] /\ left' = [left EXCEPT ![m] = rest]
  BY <1>1, <1>4, <1>5 DEF DeliveryInv, TypeOK
<1>16. Offer(m, D) /\ pc[m] \in {"tcp", "ws"}
  BY <1>1, <1>2, <1>6
<1>17. \A c \in D : /\ Home[c] = Origin(m) /\ Passed(m, c, rest)
                    /\ Got(c, m) => m \in Twice(c)
  BY <1>11, <1>12
<1>18. l = "ws" /\ msg[m].mode # "group" => rest = msg[m].to
  BY <1>7
<1> QED
  BY <1>2, <1>7, <1>9, <1>13, <1>14, <1>15, <1>16, <1>17, <1>18, HandlerOffers, ZenonT(60)

\* Steps of the bus leave the lines, the connections and what is done with a message on its own
\* server alone.
HomeAsBefore ==
    /\ UNCHANGED <<conn, name, renames, history, own, msg, left, saved, present, moved>>
    /\ bus' \in [Servers -> Seq(Messages)] /\ lost' \in BOOLEAN
    /\ received' \in [Conns -> Seq(Messages)] /\ dropped' \subseteq Messages \X Conns
    /\ retried \subseteq retried' /\ retried' \subseteq Messages /\ strays' \subseteq retried'
    /\ \A m \in strays' : m \in strays \/ pc[m] = "publish"
    /\ TurnInv' /\ pc' \in [Messages -> Labels]
    /\ \A m \in Messages : pc'[m] = pc[m] \/ (pc[m] = "publish" /\ pc'[m] = "done")
    /\ \A c \in Conns : \A m : Got(c, m) => Got(c, m)'
    /\ dropped \subseteq dropped'

LEMMA BusFrame ==
    ASSUME DeliveryInv, HomeAsBefore
    PROVE  /\ TypeOK' /\ HandlerInv' /\ StrayInv' /\ ClientInv'
           /\ \A m, n : SameReader(m, n)' = SameReader(m, n)
           /\ \A m, c : LookedUp(m, c)' = LookedUp(m, c)
           /\ \A m : Origin(m)' = Origin(m)
           /\ \A c \in Conns : Twice(c) \subseteq Twice(c)' /\ Late(c) \subseteq Late(c)'
           /\ \A c \in Conns, m \in Messages :
                 Home[c] = Origin(m) => (Offered(c, m)' <=> Offered(c, m))
           /\ \A m \in Messages :
                 pc[m] \in {"ws", "publish", "done"} => pc'[m] \in {"ws", "publish", "done"}
           /\ \A c \in Conns, m \in Messages :
                 /\ history'[c] # None /\ m \in saved'[Home[c]]
                 /\ Origin(m)' = Home[c] /\ Due(c, m)' /\ Offered(c, m)'
                 => m \in history'[c] \/ Got(c, m)' \/ <<m, c>> \in dropped'
<1> USE DEF DeliveryInv, HomeAsBefore
<1>1. /\ \A m, n : SameReader(m, n)' = SameReader(m, n)
      /\ \A m, c : LookedUp(m, c)' = LookedUp(m, c) /\ Due(c, m)' = Due(c, m)
      /\ \A m : Origin(m)' = Origin(m)
      /\ \A m, c, r : Passed(m, c, r)' = Passed(m, c, r)
  BY DEF SameReader, LookedUp, Due, ForAll, Origin, Passed
<1>2. \A c \in Conns : Twice(c) \subseteq Twice(c)' /\ Late(c) \subseteq Late(c)'
  BY <1>1 DEF Twice, Late
<1>3. \A n \in Messages :
         /\ pc[n] # "ws" <=> pc'[n] # "ws"
         /\ pc[n] \in {"ws", "publish", "done"} <=> pc'[n] \in {"ws", "publish", "done"}
         /\ pc'[n] \notin {"new", "done"} => pc[n] \notin {"new", "done"}
  OBVIOUS
<1>4. TypeOK'
  BY <1>3 DEF TypeOK
<1>5. HandlerInv' /\ StrayInv'
  <2>1. \A m \in strays' : m \in Messages
    BY DEF TypeOK
  <2>2. StrayInv'
    BY <2>1 DEF StrayInv
  <2> QED
    BY <2>2 DEF HandlerInv, TypeOK
<1>6. ClientInv'
  BY <1>3 DEF ClientInv, UnderWay
<1>7. \A c \in Conns, m \in Messages : Home[c] = Origin(m) => (Offered(c, m)' <=> Offered(c, m))
  BY <1>1, <1>3 DEF Offered
<1>8. ASSUME NEW c \in Conns, NEW m \in Messages, history[c] # None, m \in saved[Home[c]],
             Origin(m) = Home[c], Due(c, m), Offered(c, m)'
      PROVE  m \in history[c] \/ Got(c, m)' \/ <<m, c>> \in dropped'
  <2>1. Offered(c, m)
    BY <1>7, <1>8
  <2> QED
    BY <1>8, <2>1 DEF ReachInv
<1> QED
  BY <1>1, <1>2, <1>3, <1>4, <1>5, <1>6, <1>7, <1>8

\* Redis takes m for every subscription, behind the others: at the handler's PUBLISH, or when
\* one that was repeated arrives late.
LEMMA PublishedStep ==
    ASSUME DeliveryInv, NEW m \in Messages, ToSubscribers(m),
           pc[m] \in {"publish", "done"}, pc[m] = "done" => m \in retried,
           pc' = [pc EXCEPT ![m] = "done"] \/ (pc' = pc /\ m \in retried),
           strays' \subseteq strays,
           UNCHANGED <<conn, name, renames, history, own, msg, left, saved, present, moved>>,
           UNCHANGED <<received, dropped, lost, retried>>
    PROVE  DeliveryInv'
<1> USE DEF DeliveryInv
<1>1. /\ \A n \in Messages : n # m => pc'[n] = pc[n]
      /\ pc'[m] = "done" \/ (pc'[m] = "publish" /\ m \in retried)
      /\ \A n \in Messages : pc'[n] = pc[n] \/ (pc[n] = "publish" /\ pc'[n] = "done")
  BY DEF TypeOK
<1>2. TurnInv' /\ pc' \in [Messages -> Labels]
  <2>1. CASE pc' = pc
    BY <2>1 DEF TurnInv, TypeOK, SameReader
  <2>2. CASE pc[m] = "publish" /\ pc' = [pc EXCEPT ![m] = "done"]
    BY <2>2, TurnStep DEF Labels, UnderWay
  <2>3. CASE pc[m] = "done" /\ pc' = [pc EXCEPT ![m] = "done"]
    <3>1. pc' = pc
      BY <2>3 DEF TypeOK
    <3> QED
      BY <2>1, <3>1
  <2> QED
    BY <2>1, <2>2, <2>3
<1>3. \A c, n : Got(c, n)' = Got(c, n)
  BY DEF Got
<1>4. \A s \in Servers : OnBus(s, m) => m \in retried
  BY DEF BusInv
<1>5. \A n \in Messages : SameReader(n, m) /\ pc[n] # "new" => n <= m \/ m \in retried
  BY OnItsWay
<1>6. \A c \in Conns : Home[c] \in Servers
  BY HomeAssumption
<1>7. ASSUME NEW s \in Servers
      PROVE  /\ bus'[s] \in Seq(Messages)
             /\ \A n : OnBus(s, n)' <=> OnBus(s, n) \/ n = m
             /\ Arranged(bus[s], retried, retried)'
  <2>1. bus'[s] = Append(bus[s], m) /\ bus[s] \in Seq(Messages) /\ Arranged(bus[s], retried, retried)
    BY DEF TypeOK, BusInv, ToSubscribers
  <2>2. \A i \in DOMAIN bus[s] : /\ bus[s][i] = m => m \in retried
                                 /\ SameReader(bus[s][i], m) => bus[s][i] <= m \/ m \in retried
    <3>1. \A i \in DOMAIN bus[s] : bus[s][i] \in Messages /\ OnBus(s, bus[s][i])
      BY OnItsWay
    <3>2. \A n \in Messages : OnBus(s, n) => pc[n] # "new"
      BY OnItsWay
    <3> QED
      BY <1>4, <1>5, <3>1, <3>2
  <2>3. bus'[s] \in Seq(Messages) /\ Arranged(bus'[s], retried, retried)
    BY <2>1, <2>2, ArrangedAppend
  <2>4. PICK q, r : q \in Seq(Messages) /\ q = bus[s] /\ r = bus'[s]
    BY <2>1
  <2>5. \A n : (\E i \in DOMAIN r : r[i] = n) <=> (\E i \in DOMAIN q : q[i] = n) \/ n = m
    <3>1. r = Append(q, m)
      BY <2>1, <2>4
    <3> QED
      BY <3>1, ArrangedAppend
  <2>6. \A n : OnBus(s, n)' <=> OnBus(s, n) \/ n = m
    BY <2>4, <2>5 DEF OnBus
  <2> QED
    BY <2>3, <2>6 DEF Arranged, SameReader
<1>8. HomeAsBefore
  <2>1. bus' \in [Servers -> Seq(Messages)]
    BY <1>7 DEF ToSubscribers
  <2>2. strays' \subseteq retried' /\ \A n \in strays' : n \in strays
    BY DEF TypeOK
  <2> QED
    BY <1>1, <1>2, <1>3, <2>1, <2>2 DEF HomeAsBefore, TypeOK
<1>9. \A c \in Conns, n \in Messages : Home[c] # Origin(n) =>
         /\ n # m => (Offered(c, n)' <=> Offered(c, n))
         /\ ~Offered(c, m)' \/ n # m
  BY <1>1, <1>6, <1>7, <1>8, BusFrame DEF Offered
<1>10. BusInv'
  BY <1>1, <1>7, OnItsWay DEF BusInv
<1>11. QueueInv'
  <2>1. \A c \in Conns : Arranged(received[c], Twice(c), Late(c))'
    <3>1. \A c \in Conns : Arranged(received[c], Twice(c), Late(c))
      BY DEF QueueInv
    <3>2. \A c : Twice(c)' = Twice(c) /\ Late(c)' = Late(c)
      BY DEF Twice, Late, Origin
    <3> QED
      BY <3>1, <3>2 DEF Arranged, SameReader
  <2>2. ASSUME NEW c \in Conns, NEW n \in Messages, Got(c, n)
        PROVE  pc'[n] \in {"ws", "publish", "done"} /\ (Offered(c, n)' \/ n \in Twice(c)')
    <3>1. pc[n] \in {"ws", "publish", "done"} /\ (Offered(c, n) \/ n \in Twice(c))
      BY <2>2 DEF QueueInv
    <3>2. CASE Home[c] = Origin(n) \/ n # m \/ n \in Twice(c)
      BY <1>8, <1>9, <3>1, <3>2, BusFrame
    <3>3. CASE Home[c] # Origin(m) /\ n = m /\ Offered(c, m)
      <4>1. pc[m] = "done"
        BY <3>3 DEF Offered
      <4>2. m \in Twice(c)
        BY <3>3, <4>1 DEF Twice, Late
      <4> QED
        BY <1>8, <3>1, <3>3, <4>2, BusFrame
    <3> QED
      BY <3>1, <3>2, <3>3
  <2>3. ASSUME NEW c \in Conns, NEW n \in Messages, NEW k \in Messages,
               Got(c, n), OnBus(Home[c], k)', Origin(k) # Home[c], SameReader(n, k)
        PROVE  n <= k \/ k \in retried
    <3>1. CASE k = m
      BY <1>5, <2>3, <3>1, OnItsWay
    <3>2. CASE k # m
      BY <1>6, <1>7, <2>3, <3>2 DEF QueueInv
    <3> QED
      BY <3>1, <3>2
  <2> QED
    BY <1>3, <1>8, <2>1, <2>2, <2>3, BusFrame DEF QueueInv
<1>12. ReachInv'
  <2>1. ASSUME NEW n \in Messages, NEW c \in present[n], Offered(c, n)', LookedUp(n, c)
        PROVE  Got(c, n) \/ <<n, c>> \in dropped \/ (Home[c] # Origin(n) /\ lost)
    <3>1. c \in Conns
      BY DEF TypeOK
    <3>2. Offered(c, n)
      BY <1>8, <1>9, <2>1, <3>1, BusFrame
    <3> QED
      BY <2>1, <3>2 DEF ReachInv
  <2> QED
    BY <1>3, <1>8, <2>1, BusFrame DEF ReachInv
<1> QED
  BY <1>2, <1>8, <1>10, <1>11, <1>12, BusFrame

\* Publish: Redis takes the message, go-redis tries again, or the message is lost.
LEMMA PublishStep ==
    ASSUME DeliveryInv, NEW m \in Messages, Publish(m)
    PROVE  DeliveryInv'
<1> USE DEF DeliveryInv
<1>1. /\ UNCHANGED <<conn, name, renames, history, own, msg, left, saved, present, moved>>
      /\ UNCHANGED <<received, dropped>> /\ pc[m] = "publish"
  BY DEF Publish, connVars
<1>2. CASE ToSubscribers(m) /\ pc' = [pc EXCEPT ![m] = "done"] /\ UNCHANGED <<strays, lost, retried>>
  BY <1>1, <1>2, PublishedStep
<1>3. CASE \/ /\ retried' = retried \cup {m} /\ strays' = strays \cup {m}
              /\ UNCHANGED <<pc, bus, lost>>
           \/ /\ lost' = TRUE /\ pc' = [pc EXCEPT ![m] = "done"]
              /\ UNCHANGED <<bus, strays, retried>>
  <2>1. /\ \A c, n : Got(c, n)' = Got(c, n)
        /\ \A s, n : OnBus(s, n)' = OnBus(s, n)
    BY <1>1, <1>3 DEF Got, OnBus
  <2>2. /\ \A n \in Messages : n # m => pc'[n] = pc[n]
        /\ pc'[m] = "done" \/ (pc'[m] = "publish" /\ m \in retried')
        /\ \A n \in Messages : pc'[n] = pc[n] \/ (pc[n] = "publish" /\ pc'[n] = "done")
    BY <1>1, <1>3 DEF TypeOK
  <2>3. TurnInv' /\ pc' \in [Messages -> Labels]
    <3>1. CASE pc' = pc
      BY <1>1, <3>1 DEF TurnInv, TypeOK, SameReader
    <3>2. CASE pc' = [pc EXCEPT ![m] = "done"]
      BY <1>1, <3>2, TurnStep DEF Labels, UnderWay
    <3> QED
      BY <1>3, <3>1, <3>2
  <2>4. /\ retried \subseteq retried' /\ retried' \subseteq Messages /\ strays' \subseteq retried'
        /\ \A n \in strays' : n \in strays \/ n = m
        /\ bus' = bus /\ lost' \in BOOLEAN /\ (lost => lost')
    BY <1>3 DEF TypeOK
  <2>5. HomeAsBefore
    BY <1>1, <2>1, <2>2, <2>3, <2>4 DEF HomeAsBefore, TypeOK
  <2>6. \A c \in Conns : Home[c] # Origin(m) => ~Offered(c, m) /\ (Offered(c, m)' => lost')
    BY <1>1, <1>3, <2>5, BusFrame DEF Offered
  <2>7. \A c \in Conns, n \in Messages : n # m => (Offered(c, n)' <=> Offered(c, n))
    BY <2>1, <2>2, <2>5, BusFrame DEF Offered
  <2>8. BusInv'
    <3>1. \A s \in Servers : Arranged(bus[s], retried, retried)'
      <4>1. \A s \in Servers : Arranged(bus[s], retried', retried')
        BY <2>4, ArrangedMore DEF BusInv
      <4> QED
        BY <1>1, <2>4, <4>1 DEF Arranged, SameReader
    <3> QED
      BY <2>1, <2>2, <2>4, <3>1 DEF BusInv
  <2>9. QueueInv'
    <3>1. \A c \in Conns : Arranged(received[c], Twice(c), Late(c))'
      <4>1. \A c \in Conns : Arranged(received[c], Twice(c)', Late(c)')
        BY <2>5, BusFrame, ArrangedMore DEF QueueInv
      <4> QED
        BY <1>1, <4>1 DEF Arranged, SameReader
    <3>2. ASSUME NEW c \in Conns, NEW n \in Messages, Got(c, n)
          PROVE  pc'[n] \in {"ws", "publish", "done"} /\ (Offered(c, n)' \/ n \in Twice(c)')
      <4>1. pc[n] \in {"ws", "publish", "done"} /\ (Offered(c, n) \/ n \in Twice(c))
        BY <3>2 DEF QueueInv
      <4> QED
        BY <2>5, <2>6, <2>7, <4>1, BusFrame
    <3>3. \A c \in Conns, n, k \in Messages :
             Got(c, n) /\ OnBus(Home[c], k) /\ Origin(k) # Home[c] /\ SameReader(n, k)
             => n <= k \/ k \in retried'
      BY <2>4 DEF QueueInv
    <3> QED
      BY <2>1, <2>5, <3>1, <3>2, <3>3, BusFrame DEF QueueInv
  <2>10. ReachInv'
    <3>1. ASSUME NEW n \in Messages, NEW c \in present[n], Offered(c, n)', LookedUp(n, c)
          PROVE  Got(c, n) \/ <<n, c>> \in dropped \/ (Home[c] # Origin(n) /\ lost')
      <4>1. c \in Conns
        BY DEF TypeOK
      <4>2. CASE Offered(c, n)
        BY <2>4, <3>1, <4>2 DEF ReachInv
      <4>3. CASE ~Offered(c, n)
        <5>1. n = m /\ Home[c] # Origin(m)
          BY <2>5, <2>7, <3>1, <4>1, <4>3, BusFrame
        <5> QED
          BY <2>6, <3>1, <4>1, <5>1
      <4> QED
        BY <4>2, <4>3
    <3> QED
      BY <1>1, <2>1, <2>5, <3>1, BusFrame DEF ReachInv
  <2> QED
    BY <2>3, <2>5, <2>8, <2>9, <2>10, BusFrame
<1> QED
  BY <1>2, <1>3 DEF Publish

LEMMA StrayStep ==
    ASSUME DeliveryInv, NEW m \in Messages, StrayArrives(m)
    PROVE  DeliveryInv'
<1>1. /\ UNCHANGED <<conn, name, renames, history, own, msg, left, saved, present, moved>>
      /\ UNCHANGED <<received, dropped, lost, retried, pc>>
      /\ m \in strays /\ strays' \subseteq strays /\ ToSubscribers(m)
  BY DEF StrayArrives, connVars
<1>2. m \in retried /\ pc[m] \in {"publish", "done"}
  BY <1>1 DEF DeliveryInv, TypeOK, StrayInv
<1> QED
  BY <1>1, <1>2, PublishedStep, ZenonT(60)

\* The receiver of the bus takes the oldest message; the connections of its server get it unless
\* it is the server's own.
LEMMA BusReceiveStep ==
    ASSUME DeliveryInv, NEW s \in Servers, BusReceive(s)
    PROVE  DeliveryInv'
<1> USE DEF DeliveryInv
<1>1. PICK m \in Messages :
         /\ m = Head(bus[s]) /\ bus' = [bus EXCEPT ![s] = Tail(@)]
         /\ Offer(m, IF Foreign(s, m) THEN BusAudience(s, m) ELSE {})
  BY DEF BusReceive, TakeNext
<1>2. /\ UNCHANGED <<conn, name, renames, history, own, msg, left, saved, present, moved>>
      /\ UNCHANGED <<pc, strays, lost, retried>> /\ bus[s] # <<>>
  BY DEF BusReceive, connVars
<1>3. PICK D : D = IF Foreign(s, m) THEN BusAudience(s, m) ELSE {}
  OBVIOUS
<1>4. D \in SUBSET Conns /\ \A c \in D : Home[c] = s /\ Origin(m) # s
  BY <1>3 DEF Foreign, BusAudience, At
<1>5. PICK q \in Seq(Messages) : q = bus[s] /\ q # <<>> /\ Arranged(q, retried, retried)
  BY <1>2 DEF TypeOK, BusInv
<1>6. PICK r \in Seq(Messages) : r = Tail(q) /\ Arranged(r, retried, retried)
  BY <1>5, ArrangedTail
<1>7. \A n : (\E i \in DOMAIN q : q[i] = n) <=> (\E i \in DOMAIN r : r[i] = n) \/ n = m
  <2>1. \A n : (\E i \in DOMAIN q : q[i] = n)
               <=> (\E i \in DOMAIN Tail(q) : Tail(q)[i] = n) \/ n = Head(q)
    BY <1>5, ArrangedTail
  <2> QED
    BY <1>1, <1>5, <1>6, <2>1
<1>8. \A i \in DOMAIN r : /\ r[i] = m => m \in retried
                          /\ SameReader(m, r[i]) => m <= r[i] \/ r[i] \in retried
  BY <1>1, <1>5, <1>6, ArrangedTail
<1>9. bus'[s] = r /\ \A t \in Servers : t # s => bus'[t] = bus[t]
  BY <1>1, <1>5, <1>6 DEF TypeOK
<1>10. bus' \in [Servers -> Seq(Messages)]
  BY <1>1, <1>5, <1>6 DEF TypeOK
<1>11. /\ \A n : OnBus(s, n)' => OnBus(s, n)
       /\ \A n : n # m => (OnBus(s, n)' <=> OnBus(s, n))
       /\ OnBus(s, m) /\ (OnBus(s, m)' => m \in retried)
       /\ \A n : OnBus(s, n)' /\ SameReader(m, n) => m <= n \/ n \in retried
       /\ \A t \in Servers : t # s => \A n : OnBus(t, n)' <=> OnBus(t, n)
  <2>1. /\ \A n : OnBus(s, n) <=> \E i \in DOMAIN q : q[i] = n
        /\ \A n : OnBus(s, n)' <=> \E i \in DOMAIN r : r[i] = n
    BY <1>5, <1>9 DEF OnBus
  <2>2. \A t \in Servers : t # s => \A n : OnBus(t, n)' <=> OnBus(t, n)
    BY <1>9 DEF OnBus
  <2> QED
    BY <1>7, <1>8, <2>1, <2>2
<1>12. pc[m] = "done" \/ (pc[m] = "publish" /\ m \in retried)
  BY <1>11 DEF BusInv
<1>13. \A c \in D : m \in retried => m \in Late(c) /\ m \in Twice(c)
  BY <1>4 DEF Late, Twice
<1>14. /\ \A c \in D : Got(c, m) => m \in Twice(c)
       /\ \A c \in D, n \in Messages : Got(c, n) /\ SameReader(n, m) => n <= m \/ m \in Late(c)
  <2>1. \A c \in D : c \in Conns /\ Home[c] = s /\ Origin(m) # s /\ ~Offered(c, m)
    BY <1>4, <1>11 DEF Offered
  <2>2. \A c \in D : Got(c, m) => m \in Twice(c)
    BY <2>1 DEF QueueInv
  <2>3. \A c \in D, n \in Messages : Got(c, n) /\ SameReader(n, m) => n <= m \/ m \in retried
    BY <1>11, <2>1 DEF QueueInv
  <2> QED
    BY <1>13, <2>2, <2>3
<1>15. Offer(m, D)
  BY <1>1, <1>3
<1>16. /\ received' \in [Conns -> Seq(Messages)] /\ dropped' \subseteq Messages \X Conns
       /\ \A c \in Conns : \A n : Got(c, n) => Got(c, n)'
       /\ \A c \in Conns : \A n : Got(c, n)' => Got(c, n) \/ (n = m /\ c \in D /\ conn[c] = "on")
       /\ dropped \subseteq dropped'
       /\ \A c \in D : conn[c] = "on" => Got(c, m)' \/ <<m, c>> \in dropped'
  BY <1>2, <1>4, <1>15, OfferFacts
<1>17. \A c \in Conns : Arranged(received[c], Twice(c), Late(c))'
  <2>1. \A c \in Conns : Arranged(received[c], Twice(c), Late(c))
    BY DEF QueueInv
  <2> QED
    BY <1>2, <1>4, <1>14, <1>15, <2>1, OfferFacts
<1>18. HomeAsBefore
  <2>1. TurnInv' /\ pc' \in [Messages -> Labels]
    BY <1>2 DEF TurnInv, TypeOK, SameReader
  <2> QED
    BY <1>2, <1>10, <1>16, <2>1 DEF HomeAsBefore, TypeOK
<1>19. \A c \in Conns : Home[c] \in Servers
  BY HomeAssumption
<1>20. \A c \in Conns, n \in Messages :
          /\ Offered(c, n) => Offered(c, n)'
          /\ (n # m \/ Home[c] # s \/ Origin(m) = s) => (Offered(c, n)' <=> Offered(c, n))
  <2>1. \A c \in Conns, n \in Messages : Home[c] # Origin(n) =>
           /\ Offered(c, n) => Offered(c, n)'
           /\ (n # m \/ Home[c] # s) => (Offered(c, n)' <=> Offered(c, n))
    BY <1>2, <1>11, <1>18, <1>19, BusFrame DEF Offered
  <2> QED
    BY <1>18, <2>1, BusFrame
<1>21. \A c \in D : Offered(c, m)' \/ m \in Twice(c)'
  <2>1. \A c \in D : c \in Conns /\ Home[c] = s /\ Origin(m)' # s
    BY <1>4, <1>18, BusFrame
  <2>2. CASE m \in retried
    BY <1>13, <1>18, <2>1, <2>2, BusFrame
  <2>3. CASE m \notin retried
    BY <1>2, <1>11, <1>12, <2>1, <2>3 DEF Offered
  <2> QED
    BY <2>2, <2>3
<1>22. BusInv'
  <2>1. \A t \in Servers : Arranged(bus[t], retried, retried)'
    <3>1. \A t \in Servers : Arranged(bus'[t], retried, retried)
      BY <1>6, <1>9 DEF BusInv
    <3> QED
      BY <1>2, <3>1 DEF Arranged, SameReader
  <2> QED
    BY <1>2, <1>11, <2>1 DEF BusInv
<1>23. QueueInv'
  <2>1. ASSUME NEW c \in Conns, NEW n \in Messages, Got(c, n)'
        PROVE  pc'[n] \in {"ws", "publish", "done"} /\ (Offered(c, n)' \/ n \in Twice(c)')
    <3>1. CASE Got(c, n)
      <4>1. pc[n] \in {"ws", "publish", "done"} /\ (Offered(c, n) \/ n \in Twice(c))
        BY <3>1 DEF QueueInv
      <4> QED
        BY <1>18, <1>20, <4>1, BusFrame
    <3>2. CASE n = m /\ c \in D
      BY <1>2, <1>12, <1>21, <3>2
    <3> QED
      BY <1>16, <2>1, <3>1, <3>2
  <2>2. ASSUME NEW c \in Conns, NEW n \in Messages, NEW k \in Messages,
               Got(c, n)', OnBus(Home[c], k)', Origin(k) # Home[c], SameReader(n, k)
        PROVE  n <= k \/ k \in retried
    <3>1. OnBus(Home[c], k)
      BY <1>11, <1>19, <2>2
    <3>2. CASE Got(c, n)
      BY <2>2, <3>1, <3>2 DEF QueueInv
    <3>3. CASE n = m /\ c \in D
      BY <1>4, <1>11, <2>2, <3>3
    <3> QED
      BY <1>16, <2>2, <3>2, <3>3
  <2> QED
    BY <1>2, <1>17, <1>18, <2>1, <2>2, BusFrame DEF QueueInv
<1>24. ReachInv'
  <2>1. ASSUME NEW n \in Messages, NEW c \in present[n], Offered(c, n)', LookedUp(n, c)
        PROVE  \/ Got(c, n)'
               \/ <<n, c>> \in dropped'
               \/ Home[c] # Origin(n) /\ lost
    <3>1. c \in Conns /\ conn[c] = "on"
      BY DEF TypeOK, ClientInv
    <3>2. CASE Offered(c, n)
      BY <1>16, <2>1, <3>1, <3>2 DEF ReachInv
    <3>3. CASE ~Offered(c, n)
      <4>1. n = m /\ Home[c] = s /\ Origin(m) # s
        BY <1>20, <2>1, <3>1, <3>3
      <4>2. c \in D
        BY <1>3, <2>1, <3>1, <4>1 DEF Foreign, BusAudience, At, LookedUp
      <4> QED
        BY <1>16, <3>1, <4>1, <4>2
    <3> QED
      BY <3>2, <3>3
  <2> QED
    BY <1>2, <1>18, <2>1, BusFrame DEF ReachInv
<1> QED
  BY <1>18, <1>22, <1>23, <1>24, BusFrame DEF HomeAsBefore

\* What Redis had for a subscription is gone.
LEMMA BusLossStep ==
    ASSUME DeliveryInv, NEW s \in Servers, BusLoss(s)
    PROVE  DeliveryInv'
<1> USE DEF DeliveryInv
<1>1. /\ UNCHANGED <<conn, name, renames, history, own, msg, left, saved, present, moved>>
      /\ UNCHANGED <<pc, received, dropped, strays, retried>>
      /\ bus' = [bus EXCEPT ![s] = <<>>] /\ lost' = TRUE
  BY DEF BusLoss, connVars
<1>2. bus'[s] = <<>> /\ \A t \in Servers : t # s => bus'[t] = bus[t]
  BY <1>1 DEF TypeOK
<1>3. bus' \in [Servers -> Seq(Messages)]
  <2>1. <<>> \in Seq(Messages)
    OBVIOUS
  <2> QED
    BY <1>1, <2>1 DEF TypeOK
<1>4. /\ \A t \in Servers : \A n : OnBus(t, n)' => OnBus(t, n)
      /\ \A c, n : Got(c, n)' = Got(c, n)
  BY <1>1, <1>2 DEF OnBus, Got
<1>5. HomeAsBefore
  <2>1. TurnInv' /\ pc' \in [Messages -> Labels]
    BY <1>1 DEF TurnInv, TypeOK, SameReader
  <2> QED
    BY <1>1, <1>3, <1>4, <2>1 DEF HomeAsBefore, TypeOK
<1>6. \A c \in Conns : Home[c] \in Servers
  BY HomeAssumption
<1>7. \A c \in Conns, n \in Messages : Offered(c, n) => Offered(c, n)'
  <2>1. \A c \in Conns, n \in Messages : Home[c] # Origin(n) => (Offered(c, n) => Offered(c, n)')
    BY <1>1, <1>4, <1>5, <1>6, BusFrame DEF Offered
  <2> QED
    BY <1>5, <2>1, BusFrame
<1>8. BusInv'
  <2>1. Arranged(<<>>, retried, retried)
    BY DEF Arranged
  <2>2. \A t \in Servers : Arranged(bus'[t], retried, retried)
    BY <1>2, <2>1 DEF BusInv
  <2>3. \A t \in Servers : Arranged(bus[t], retried, retried)'
    BY <1>1, <2>2 DEF Arranged, SameReader
  <2> QED
    BY <1>1, <1>4, <2>3 DEF BusInv
<1>9. QueueInv'
  <2>1. \A c \in Conns : Arranged(received[c], Twice(c), Late(c))'
    <3>1. \A c \in Conns : Arranged(received[c], Twice(c), Late(c))
      BY DEF QueueInv
    <3>2. \A c : Twice(c)' = Twice(c) /\ Late(c)' = Late(c)
      BY <1>1 DEF Twice, Late, Origin
    <3> QED
      BY <1>1, <3>1, <3>2 DEF Arranged, SameReader
  <2> QED
    BY <1>1, <1>4, <1>5, <1>6, <1>7, <2>1, BusFrame DEF QueueInv
<1>10. ReachInv'
  <2>1. ASSUME NEW n \in Messages, NEW c \in present'[n], Offered(c, n)', LookedUp(n, c)'
        PROVE  Got(c, n)' \/ <<n, c>> \in dropped' \/ Home[c] # Origin(n)
    <3>1. c \in Conns /\ c \in present[n]
      BY <1>1 DEF TypeOK
    <3> QED
      BY <1>1, <1>4, <1>5, <2>1, <3>1, BusFrame DEF ReachInv
  <2> QED
    BY <1>1, <1>5, <2>1, BusFrame DEF ReachInv
<1> QED
  BY <1>5, <1>8, <1>9, <1>10, BusFrame DEF HomeAsBefore

LEMMA DeliveryStutter == DeliveryInv /\ UNCHANGED vars => DeliveryInv'
<1> SUFFICES ASSUME DeliveryInv, UNCHANGED vars PROVE DeliveryInv'
  OBVIOUS
<1> USE DEF DeliveryInv, vars
<1>1. /\ \A c, m : Got(c, m)' = Got(c, m) /\ Offered(c, m)' = Offered(c, m)
                   /\ LookedUp(m, c)' = LookedUp(m, c) /\ Due(c, m)' = Due(c, m)
      /\ \A s, m : OnBus(s, m)' = OnBus(s, m)
      /\ \A m, n : SameReader(m, n)' = SameReader(m, n)
      /\ \A m : Origin(m)' = Origin(m) /\ UnderWay(m)' = UnderWay(m)
      /\ \A c : Twice(c)' = Twice(c) /\ Late(c)' = Late(c)
  BY DEF Got, Offered, Passed, OnBus, SameReader, Origin, LookedUp, Due, ForAll, UnderWay, Twice, Late
<1>2. TypeOK' /\ HandlerInv' /\ TurnInv' /\ ClientInv' /\ StrayInv'
  BY <1>1 DEF TypeOK, HandlerInv, TurnInv, ClientInv, StrayInv
<1>3. BusInv'
  BY <1>1 DEF BusInv, Arranged
<1>4. QueueInv'
  BY <1>1 DEF QueueInv, Arranged
<1>5. ReachInv'
  BY <1>1 DEF ReachInv
<1> QED
  BY <1>2, <1>3, <1>4, <1>5

LEMMA DeliveryStep == DeliveryInv /\ [Next]_vars => DeliveryInv'
<1> SUFFICES ASSUME DeliveryInv, [Next]_vars PROVE DeliveryInv'
  OBVIOUS
<1>1. CASE \E c \in Conns : Connect(c) \/ Disconnect(c)
  BY <1>1, ConnectStep, DisconnectStep
<1>2. CASE \E c \in Conns, n \in Names : Rename(c, n)
  BY <1>2, RenameStep
<1>3. ASSUME NEW c \in Conns, NEW n \in {name[c], FirstName[c]}, LoadHistory(c, n)
      PROVE  DeliveryInv'
  <2>1. n \in Names
    BY NamesAssumption DEF DeliveryInv, TypeOK
  <2> QED
    BY <1>3, <2>1, LoadHistoryStep
<1>4. ASSUME NEW m \in Messages, NEW q \in Lines[m],
             handleWSMessage(m, q) \/ handleSend(m, q) \/ Announce(m, q)
      PROVE  DeliveryInv'
  <2>1. Send(m, q)
    BY <1>4 DEF handleWSMessage, handleSend, Announce
  <2>2. q.via = "reader" =>
           \A n \in Messages : UnderWay(n) /\ msg[n].via = "reader" => msg[n].from # q.from
    BY <1>4 DEF handleWSMessage, handleSend, Announce
  <2> QED
    BY <2>1, <2>2, SendStep
<1>5. ASSUME NEW m \in Messages, Deliver(m) \/ StrayArrives(m)
      PROVE  DeliveryInv'
  BY <1>5, SaveStep, DeliverTCPStep, DeliverWSStep, PublishStep, StrayStep DEF Deliver
<1>6. CASE \E s \in Servers : BusReceive(s) \/ BusLoss(s)
  BY <1>6, BusReceiveStep, BusLossStep
<1>7. CASE UNCHANGED vars
  BY <1>7, DeliveryStutter
<1> QED
  BY <1>1, <1>2, <1>3, <1>4, <1>5, <1>6, <1>7 DEF Next

-----------------------------------------------------------------------------
(* The theorems.                                                           *)

LEMMA DeliveryAlways == Spec => []DeliveryInv
BY DeliveryInit, DeliveryStep, PTL DEF Spec

\* The variables of Delivery keep their types; a handler leaves its WebSocket loop only when it
\* has looked up every name (server.go: the loops over WSConns and over the members of a group).
THEOREM DeliveryTypes == Spec => []TypeOK
<1>1. DeliveryInv => TypeOK
  BY DEF DeliveryInv
<1> QED
  BY <1>1, DeliveryAlways, PTL

\* Nobody gets a message twice, though the sender's server delivers it and the bus gives it back,
\* unless it was renamed during a group's loop or go-redis repeated the PUBLISH to its
\* server; and everybody gets the lines of one reader in the order in which they were said,
\* repeated ones excepted: over any number of servers, connections, senders, renames and losses.
THEOREM DeliveryOrder == Spec => [](AtMostOnce /\ SenderOrder)
<1>1. DeliveryInv => AtMostOnce /\ SenderOrder
  <2> SUFFICES ASSUME DeliveryInv PROVE AtMostOnce /\ SenderOrder
    OBVIOUS
  <2>1. \A c \in Conns : Arranged(received[c], Twice(c), Late(c)) /\ received[c] \in Seq(Messages)
    BY DEF DeliveryInv, QueueInv, TypeOK
  <2>2. \A c \in Conns : \A i, j \in DOMAIN received[c] : i = j \/ i < j \/ j < i
    <3>1. \A c \in Conns : DOMAIN received[c] = 1 .. Len(received[c]) /\ Len(received[c]) \in Nat
      BY <2>1, LenProperties
    <3> QED
      BY <3>1
  <2>3. AtMostOnce
    <3>1. ASSUME NEW c \in Conns, NEW i \in DOMAIN received[c], NEW j \in DOMAIN received[c],
                 received[c][i] = received[c][j], i # j
          PROVE  received[c][i] \in Twice(c)
      BY <2>1, <2>2, <3>1 DEF Arranged
    <3> QED
      BY <3>1 DEF AtMostOnce, Twice, Late
  <2>4. SenderOrder
    <3>1. ASSUME NEW c \in Conns, NEW i \in DOMAIN received[c], NEW j \in DOMAIN received[c], i < j,
                 SameReader(received[c][i], received[c][j])
          PROVE  received[c][i] <= received[c][j] \/ received[c][j] \in Late(c)
      BY <2>1, <3>1 DEF Arranged
    <3> QED
      BY <3>1 DEF SenderOrder, SameReader, Late
  <2> QED
    BY <2>3, <2>4
<1> QED
  BY <1>1, DeliveryAlways, PTL

\* Nothing falls between the history and the queue of a client that registers before it loads the
\* history, and a message that is done with has reached everybody who is certain to be
\* looked up and stayed, unless a queue was full or Redis failed, whoever is renamed meanwhile.
THEOREM DeliveryReach == Spec => [](NoGap /\ AudienceReached)
<1>1. DeliveryInv => NoGap /\ AudienceReached
  <2> SUFFICES ASSUME DeliveryInv PROVE NoGap /\ AudienceReached
    OBVIOUS
  <2> USE DEF DeliveryInv
  <2>1. \A m \in Messages : pc[m] = "done" => left[m] = {}
    BY DEF TypeOK
  <2>2. NoGap
    <3>1. \A c \in Conns, m \in Messages : pc[m] = "done" /\ Origin(m) = Home[c] => Offered(c, m)
      BY <2>1 DEF Offered, Passed
    <3> QED
      BY <3>1 DEF NoGap, ReachInv, Due
  <2>3. AudienceReached
    <3>1. \A m \in Messages : OffTheBus(m) => \A s \in Servers : ~OnBus(s, m)
      BY DEF OffTheBus, OnBus
    <3>2. \A c \in Conns : Home[c] \in Servers
      BY HomeAssumption
    <3>3. \A c \in Conns, m \in Messages : pc[m] = "done" /\ OffTheBus(m) => Offered(c, m)
      BY <2>1, <3>1, <3>2 DEF Offered, Passed
    <3>4. \A m \in Messages : \A c \in present[m] : c \in Conns
      BY DEF TypeOK
    <3> QED
      BY <3>3, <3>4 DEF AudienceReached, ReachInv
  <2> QED
    BY <2>2, <2>3
<1> QED
  BY <1>1, DeliveryAlways, PTL

=============================================================================
