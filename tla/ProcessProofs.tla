--------------------------- MODULE ProcessProofs ----------------------------
(***************************************************************************)
(* The two programs as processes. The chat server: who can still be let in *)
(* once the shutdown has closed the database, and what a panic needs. The  *)
(* gateway: that polls get every line of a session, once and in order, for *)
(* any number of sessions, polls and lines, and any sizes of the channel and *)
(* of an answer.                                                           *)
(***************************************************************************)
EXTENDS Lifecycle, Gateway, SequenceTheorems, TLAPS

-----------------------------------------------------------------------------
(***************************************************************************)
(* Lifecycle.                                                              *)
(***************************************************************************)

\* Shutdown has not closed the web listener yet.
BeforeWeb == down \in {"idle", "lookWeb", "closeWeb"}

\* The statements of Shutdown after the one that closes the listener of s.
Passed(s) ==
    down \in IF s = "web" THEN {"lookTcp", "closeTcp", "stores", "db", "wait", "returned"}
                          ELSE {"stores", "db", "wait", "returned"}

\* A goroutine's place tells about its socket and its field.
ServerInv ==
    \A s \in Servers :
        /\ pc[s] = "serve" => field[s] /\ open[s] # "none"
        /\ pc[s] = "bound" => open[s] = "open"
        /\ pc[s] = "new" => open[s] = "none"
        /\ pc[s] = "ending" => open[s] = "closed"

\* Once Shutdown is past a listener, that is not open, nobody accepts on it, or it was missed.
PassedInv ==
    /\ \A s \in Servers :
          Passed(s) /\ s \notin missed =>
              /\ open[s] # "open" \/ pc[s] \in {"ending", "done"}
              /\ pc[s] \notin {"new", "bound"}
    /\ down = "closeWeb" /\ "web" \notin missed => pc["web"] \notin {"new", "bound"}
    /\ down = "closeTcp" /\ "tcp" \notin missed => pc["tcp"] \notin {"new", "bound"}
    /\ dbClosed => down \in {"wait", "returned"}
    /\ main = "run" => down = "idle"

\* Shutdown finds a field empty that it has seen set only where http.Serve has failed.
FieldInv ==
    /\ BeforeWeb /\ open["web"] = "closed" => failed
    /\ down = "closeWeb" /\ ~field["web"] => failed
    /\ down = "closeTcp" => field["tcp"]
    /\ field["tcp"] => pc["tcp"] \in {"serve", "done"}
    /\ field["web"] => pc["web"] \in {"serve", "ending"}

LifeInv ==
    TypeOK /\ ServerInv /\ PassedInv /\ FieldInv /\ LateOnlyIfMissed /\ PanicOnlyIfServeFailed

LEMMA LifeInit == Init => LifeInv
<1> SUFFICES ASSUME Init
             PROVE  LifeInv
  OBVIOUS
<1>1. pc \in [Workers -> {"new", "bound", "serve", "ending", "done"}]
  BY DEF Init
<1>2. conns \in [Servers -> 0 .. MaxConns]
  BY LifecycleAssumption DEF Init
<1>3. TypeOK
  BY <1>1, <1>2 DEF Init, TypeOK, DownLabels, MainLabels
<1>4. ServerInv /\ PassedInv /\ FieldInv
  BY DEF Init, ServerInv, PassedInv, FieldInv, BeforeWeb, Passed, Servers, Workers
<1> QED
  BY <1>3, <1>4 DEF Init, LifeInv, LateOnlyIfMissed, PanicOnlyIfServeFailed

LEMMA ServerStep ==
    ASSUME LifeInv, NEW s \in Servers, ServerSteps(s)
    PROVE  LifeInv'
<1> USE DEF LifeInv, TypeOK, ServerInv, PassedInv, FieldInv, LateOnlyIfMissed,
            PanicOnlyIfServeFailed, BeforeWeb, Passed, Servers, Workers, notServer, Step
<1>1. CASE Listen(s)
  BY <1>1 DEF Listen
<1>2. CASE SetListener(s)
  BY <1>2 DEF SetListener
<1>3. CASE ClearListener
  BY <1>3 DEF ClearListener
<1> QED
  BY <1>1, <1>2, <1>3 DEF ServerSteps

LEMMA ServeStep ==
    ASSUME LifeInv, StartEnds \/ ServeEnds \/ BackgroundEnds \/ \E s \in Servers : Accept(s)
    PROVE  LifeInv'
<1> USE DEF LifeInv, TypeOK, ServerInv, PassedInv, FieldInv, LateOnlyIfMissed,
            PanicOnlyIfServeFailed, BeforeWeb, Passed, Servers, Workers, notServer, Step
<1>1. CASE ServeEnds
  BY <1>1 DEF ServeEnds
<1>2. ASSUME NEW s \in Servers, Accept(s)
      PROVE  LifeInv'
  <2>1. conns' \in [Servers -> 0 .. MaxConns]
    BY <1>2, LifecycleAssumption DEF Accept
  <2>2. dbClosed => s \in missed
    BY <1>2 DEF Accept
  <2> QED
    BY <1>2, <2>1, <2>2 DEF Accept
<1>3. CASE StartEnds
  BY <1>3 DEF StartEnds, AcceptEnds
<1>4. CASE BackgroundEnds
  BY <1>4 DEF BackgroundEnds
<1> QED
  BY <1>1, <1>2, <1>3, <1>4

LEMMA DownStep ==
    ASSUME LifeInv, Signal \/ Shutdown \/ Done \/ Timeout
    PROVE  LifeInv'
<1> USE DEF LifeInv, TypeOK, ServerInv, PassedInv, FieldInv, LateOnlyIfMissed,
            PanicOnlyIfServeFailed, BeforeWeb, Passed, Servers, Workers, notMain,
            DownLabels, MainLabels
<1>1. CASE Signal
  BY <1>1 DEF Signal, Cancel
<1>2. CASE Look("web", "lookWeb", "closeWeb", "lookTcp")
  BY <1>2 DEF Look
<1>3. CASE CloseListener("web", "closeWeb", "lookTcp")
  BY <1>3 DEF CloseListener
<1>4. CASE Look("tcp", "lookTcp", "closeTcp", "stores")
  BY <1>4 DEF Look
<1>5. CASE CloseListener("tcp", "closeTcp", "stores")
  BY <1>5 DEF CloseListener
<1>6. CASE CloseStores
  BY <1>6 DEF CloseStores
<1>7. CASE CloseDB
  BY <1>7 DEF CloseDB
<1>8. CASE WgWait
  BY <1>8 DEF WgWait
<1>9. CASE Done
  BY <1>9 DEF Done
<1>10. CASE Timeout
  BY <1>10 DEF Timeout
<1> QED
  BY <1>1, <1>2, <1>3, <1>4, <1>5, <1>6, <1>7, <1>8, <1>9, <1>10 DEF Shutdown

LEMMA LifeStep == LifeInv /\ [Next]_vars => LifeInv'
<1> SUFFICES ASSUME LifeInv, [Next]_vars
             PROVE  LifeInv'
  OBVIOUS
<1>1. CASE UNCHANGED vars
  BY <1>1 DEF vars, LifeInv, TypeOK, ServerInv, PassedInv, FieldInv, LateOnlyIfMissed,
              PanicOnlyIfServeFailed, BeforeWeb, Passed
<1> QED
  BY <1>1, ServerStep, ServeStep, DownStep DEF Next

\* In whatever order Shutdown, Start, StartWeb and the connections run, and however many
\* connections come: a server lets a connection in after the database was closed only if
\* Shutdown passed over its listener before it was set, and Shutdown panics only if
\* http.Serve had failed before.
THEOREM ShutdownSafety == Spec => [](LateOnlyIfMissed /\ PanicOnlyIfServeFailed)
<1>1. LifeInv => LateOnlyIfMissed /\ PanicOnlyIfServeFailed
  BY DEF LifeInv
<1> QED
  BY <1>1, LifeInit, LifeStep, PTL DEF Spec

-----------------------------------------------------------------------------
(***************************************************************************)
(* Gateway.                                                                *)
(***************************************************************************)

\* Every variable has the type of what it models.
Types ==
    /\ sessions \subseteq Sids
    /\ closed \in [Sids -> BOOLEAN]
    /\ peer \in [Sids -> {"none", "open", "ended"}]
    /\ sent \in [Sids -> Nat]
    /\ wire \in [Sids -> Seq(Nat)]
    /\ rpc \in [Sids -> {"new", "read", "select", "done"}]
    /\ line \in [Sids -> Nat]
    /\ messages \in [Sids -> Seq(Nat)]
    /\ poll \in [Polls -> [pc : {"idle", "collect", "wait", "reply"}, sid : Sids \cup {None},
                           msgs : Seq(Nat)]]
    /\ answered \in [Sids -> SUBSET Nat]

\* Poll p has taken line n of session s out of the channel and not answered yet.
Holds(p, s, n) == poll[p].sid = s /\ \E i \in DOMAIN poll[p].msgs : poll[p].msgs[i] = n

\* Line n of session s is in an answer or in a poll.
Taken(s, n) == n \in answered[s] \/ \E p \in Polls : Holds(p, s, n)

\* q is b + 1, b + 2, ...
Run(q, b) == \A i \in 1 .. Len(q) : q[i] = b + i

\* What readTCPToChannel has read when the polls have taken a lines.
ReadUpTo(s, a) == a + Len(messages[s]) + IF rpc[s] = "select" THEN 1 ELSE 0

\* The first a lines of s, and no others, have been taken; the channel, the hand of the reader
\* and the socket have the next ones in order, up to the last that was sent.
Cut(s, a) ==
    /\ \A n \in Nat : Taken(s, n) <=> n \in 1 .. a
    /\ Run(messages[s], a)
    /\ rpc[s] = "select" => line[s] = ReadUpTo(s, a)
    /\ rpc[s] # "done" => Run(wire[s], ReadUpTo(s, a)) /\ ReadUpTo(s, a) + Len(wire[s]) = sent[s]
    /\ rpc[s] = "done" /\ s \in sessions => ReadUpTo(s, a) = sent[s]

\* Only handleClose, which forgets the session, closes it under a reader at work.
EndInv ==
    \A s \in Sids :
        /\ rpc[s] = "new" => s \notin sessions /\ ~closed[s]
        /\ rpc[s] = "done" => closed[s]
        /\ s \in sessions /\ closed[s] => rpc[s] = "done"

\* What polls hold is in order, in no answer yet, and in no other poll.
PollInv ==
    /\ \A p \in Polls : poll[p].pc = "idle" => poll[p] = NoPoll
    /\ \A p \in Polls : poll[p].pc # "idle" => poll[p].sid \in Sids
    /\ \A p \in Polls : \A i, j \in DOMAIN poll[p].msgs :
          i < j => poll[p].msgs[i] < poll[p].msgs[j]
    /\ \A p \in Polls, s \in Sids, n \in Nat : Holds(p, s, n) =>
          n \notin answered[s] /\ \A q \in Polls \ {p} : ~Holds(q, s, n)

GatewayInv == Types /\ EndInv /\ PollInv /\ \A s \in Sids : \E a \in Nat : Cut(s, a)

-----------------------------------------------------------------------------
(* Runs of consecutive lines.                                              *)

LEMMA RunAppend ==
    ASSUME NEW q \in Seq(Nat), NEW b \in Nat, Run(q, b), NEW x \in Nat, x = b + Len(q) + 1
    PROVE  Append(q, x) \in Seq(Nat) /\ Run(Append(q, x), b) /\ Len(Append(q, x)) = Len(q) + 1
<1> DEFINE r == Append(q, x)
<1>1. Len(q) \in Nat /\ x \in Nat
  OBVIOUS
<1>2. /\ r \in Seq(Nat) /\ Len(r) = Len(q) + 1
      /\ \A i \in 1 .. Len(q) : r[i] = q[i]
      /\ r[Len(q) + 1] = x
  BY <1>1, AppendProperties
<1> HIDE DEF r
<1>3. ASSUME NEW i \in 1 .. Len(r)
      PROVE  r[i] = b + i
  <2>1. CASE i \in 1 .. Len(q)
    BY <1>2, <2>1 DEF Run
  <2>2. CASE i = Len(q) + 1
    <3>1. x = b + i
      BY <1>1, <2>2
    <3> QED
      BY <1>2, <2>2, <3>1
  <2> QED
    BY <1>1, <1>2, <2>1, <2>2
<1>4. Run(r, b)
  BY <1>3 DEF Run
<1> QED
  BY <1>2, <1>4 DEF r

\* Append adds its element to those of the sequence, and keeps it increasing if that is larger.
LEMMA AppendElements ==
    ASSUME NEW q \in Seq(Nat), NEW x \in Nat, NEW r, r = Append(q, x)
    PROVE  /\ \A n : (\E i \in DOMAIN r : r[i] = n) <=> (\E i \in DOMAIN q : q[i] = n) \/ n = x
           /\ (/\ \A i \in DOMAIN q : q[i] < x
               /\ \A i, j \in DOMAIN q : i < j => q[i] < q[j])
              => \A i, j \in DOMAIN r : i < j => r[i] < r[j]
<1> DEFINE k == Len(q)
<1>1. /\ r \in Seq(Nat) /\ k \in Nat /\ DOMAIN q = 1 .. k /\ DOMAIN r = 1 .. k + 1
      /\ \A i \in 1 .. k : r[i] = q[i]
      /\ r[k + 1] = x
  BY AppendProperties, LenProperties
<1> HIDE DEF k
<1>2. DOMAIN r = DOMAIN q \cup {k + 1} /\ \A i \in DOMAIN q : i < k + 1 /\ ~(k + 1 < i)
  BY <1>1
<1>3. ASSUME NEW n
      PROVE  (\E i \in DOMAIN r : r[i] = n) <=> (\E i \in DOMAIN q : q[i] = n) \/ n = x
  BY <1>1, <1>2
<1>4. ASSUME \A i \in DOMAIN q : q[i] < x, \A i, j \in DOMAIN q : i < j => q[i] < q[j],
             NEW i \in DOMAIN r, NEW j \in DOMAIN r, i < j
      PROVE  r[i] < r[j]
  <2>1. CASE j \in DOMAIN q
    <3>1. i \in DOMAIN q
      BY <1>1, <1>2, <1>4, <2>1
    <3> QED
      BY <1>1, <1>4, <2>1, <3>1
  <2>2. CASE j = k + 1
    <3>1. i \in DOMAIN q
      BY <1>1, <1>4, <2>2
    <3> QED
      BY <1>1, <1>4, <2>2, <3>1
  <2> QED
    BY <1>2, <2>1, <2>2
<1> QED
  BY <1>3, <1>4

LEMMA RunTail ==
    ASSUME NEW q \in Seq(Nat), NEW b \in Nat, Run(q, b), q # <<>>
    PROVE  /\ Head(q) = b + 1
           /\ Tail(q) \in Seq(Nat) /\ Run(Tail(q), b + 1)
           /\ Len(Tail(q)) \in Nat /\ Len(q) = Len(Tail(q)) + 1
<1>1. /\ Head(q) = q[1] /\ Tail(q) \in Seq(Nat) /\ Len(q) \in Nat /\ Len(q) >= 1
      /\ Len(Tail(q)) = Len(q) - 1
      /\ \A i \in 1 .. Len(Tail(q)) : Tail(q)[i] = q[i + 1]
  BY HeadTailProperties
<1>2. ASSUME NEW i \in 1 .. Len(Tail(q))
      PROVE  Tail(q)[i] = (b + 1) + i
  <2>1. i + 1 \in 1 .. Len(q) /\ i \in Nat
    BY <1>1
  <2>2. q[i + 1] = b + (i + 1)
    BY <2>1 DEF Run
  <2> QED
    BY <1>1, <2>1, <2>2
<1>3. q[1] = b + 1
  BY <1>1 DEF Run
<1> QED
  BY <1>1, <1>2, <1>3 DEF Run

LEMMA RunConcat ==
    ASSUME NEW q \in Seq(Nat), NEW r \in Seq(Nat), NEW b \in Nat, Run(q, b), Run(r, b + Len(q))
    PROVE  q \o r \in Seq(Nat) /\ Run(q \o r, b) /\ Len(q \o r) = Len(q) + Len(r)
<1>1. Len(q) \in Nat /\ Len(r) \in Nat
  OBVIOUS
<1>2. /\ q \o r \in Seq(Nat) /\ Len(q \o r) = Len(q) + Len(r)
      /\ \A i \in 1 .. Len(q) + Len(r) :
            (q \o r)[i] = IF i <= Len(q) THEN q[i] ELSE r[i - Len(q)]
  BY ConcatProperties
<1>3. ASSUME NEW i \in 1 .. Len(q) + Len(r)
      PROVE  (q \o r)[i] = b + i
  <2>1. CASE i <= Len(q)
    BY <1>1, <1>2, <2>1 DEF Run
  <2>2. CASE ~(i <= Len(q))
    <3>1. i - Len(q) \in 1 .. Len(r)
      BY <1>1, <2>2
    <3>2. r[i - Len(q)] = (b + Len(q)) + (i - Len(q))
      BY <3>1 DEF Run
    <3> QED
      BY <1>1, <1>2, <2>2, <3>1, <3>2
  <2> QED
    BY <2>1, <2>2
<1> QED
  BY <1>2, <1>3 DEF Run

-----------------------------------------------------------------------------
LEMMA GatewayInvInit == GatewayInit => GatewayInv
<1> SUFFICES ASSUME GatewayInit
             PROVE  GatewayInv
  OBVIOUS
<1>1. NoPoll \in [pc : {"idle", "collect", "wait", "reply"}, sid : Sids \cup {None},
                  msgs : Seq(Nat)]
  BY DEF NoPoll
<1>2. Types
  BY <1>1 DEF GatewayInit, Types
<1>3. \A p \in Polls : poll[p] = NoPoll /\ NoPoll.pc = "idle" /\ NoPoll.msgs = <<>>
  BY DEF GatewayInit, NoPoll
<1>4. \A p \in Polls, s \in Sids, n \in Nat : ~Holds(p, s, n)
  BY <1>3 DEF Holds
<1>5. EndInv /\ PollInv
  BY <1>3, <1>4 DEF GatewayInit, EndInv, PollInv
<1>6. ASSUME NEW s \in Sids
      PROVE  Cut(s, 0)
  BY <1>4 DEF GatewayInit, Cut, Taken, ReadUpTo, Run
<1> QED
  BY <1>2, <1>5, <1>6 DEF GatewayInv

\* The server, the reader and the sessions leave alone what has been taken.
LEMMA TakenUnchanged ==
    ASSUME UNCHANGED <<poll, answered>>
    PROVE  /\ PollInv => PollInv'
           /\ \A s, n : Taken(s, n)' <=> Taken(s, n)
BY DEF PollInv, Taken, Holds

\* Nothing changes for a session that a step does not touch.
LEMMA CutUnchanged ==
    ASSUME NEW s \in Sids, NEW a \in Nat, Cut(s, a),
           \A n \in Nat : Taken(s, n)' <=> Taken(s, n),
           messages'[s] = messages[s], wire'[s] = wire[s], line'[s] = line[s], rpc'[s] = rpc[s],
           sent'[s] = sent[s], s \in sessions' => s \in sessions
    PROVE  Cut(s, a)'
<1>1. Run(messages[s], a)' <=> Run(messages[s], a)
  BY DEF Run
<1>2. ReadUpTo(s, a)' = ReadUpTo(s, a)
  BY DEF ReadUpTo
<1>3. Run(wire[s], ReadUpTo(s, a))' <=> Run(wire[s], ReadUpTo(s, a))
  BY <1>2 DEF Run
<1> QED
  BY <1>1, <1>2, <1>3 DEF Cut

LEMMA PeerStep ==
    ASSUME GatewayInv, NEW s \in Sids, ServerSends(s) \/ ServerEnds(s)
    PROVE  GatewayInv'
<1> USE DEF GatewayInv
<1>1. UNCHANGED <<sessions, closed, rpc, line, messages, poll, answered>>
  BY DEF ServerSends, ServerEnds
<1>2. EndInv' /\ PollInv' /\ \A r, n : Taken(r, n)' <=> Taken(r, n)
  BY <1>1, TakenUnchanged DEF EndInv
<1>3. CASE ServerEnds(s)
  <2>1. Types'
    BY <1>3 DEF ServerEnds, Types
  <2>2. \A r \in Sids, a \in Nat : Cut(r, a) => Cut(r, a)'
    BY <1>1, <1>2, <1>3, CutUnchanged DEF ServerEnds
  <2> QED
    BY <1>2, <2>1, <2>2
<1>4. CASE ServerSends(s)
  <2>1. Types'
    BY <1>4 DEF ServerSends, Types
  <2>2. ASSUME NEW r \in Sids, NEW a \in Nat, Cut(r, a)
        PROVE  Cut(r, a)'
    <3>1. Run(messages[r], a)' <=> Run(messages[r], a)
      BY <1>1 DEF Run
    <3>2. ReadUpTo(r, a)' = ReadUpTo(r, a)
      BY <1>1 DEF ReadUpTo
    <3>3. CASE r # s
      <4>1. wire'[r] = wire[r] /\ sent'[r] = sent[r]
        BY <1>4, <3>3 DEF ServerSends, Types
      <4> QED
        BY <1>1, <1>2, <2>2, <4>1, CutUnchanged
    <3>4. CASE r = s
      <4> DEFINE b == ReadUpTo(s, a)
      <4>1. wire[s] \in Seq(Nat) /\ wire'[s] = Append(wire[s], sent[s] + 1)
        BY <1>4 DEF ServerSends, Types
      <4>2. sent[s] \in Nat /\ sent'[s] = sent[s] + 1
        BY <1>4 DEF ServerSends, Types
      <4>3. b \in Nat
        BY DEF ReadUpTo, Types
      <4>4. (rpc[s] # "done" /\ rpc'[s] = rpc[s]) \/ s \notin sessions
        BY <1>1, <1>4 DEF ServerSends, EndInv, Types
      <4> HIDE DEF b
      <4>5. ASSUME rpc[s] # "done"
            PROVE  Run(wire'[s], b) /\ b + Len(wire'[s]) = sent'[s]
        <5>1. Run(wire[s], b) /\ b + Len(wire[s]) = sent[s]
          BY <2>2, <3>4, <4>5 DEF Cut, b
        <5>2. Len(wire[s]) \in Nat
          BY <4>1
        <5>3. b + Len(wire[s]) + 1 = sent[s] + 1 /\ b + (Len(wire[s]) + 1) = sent[s] + 1
          BY <4>3, <5>1, <5>2
        <5>4. Run(wire'[s], b) /\ Len(wire'[s]) = Len(wire[s]) + 1
          <6>1. PICK w \in Seq(Nat), x \in Nat : w = wire[s] /\ x = sent[s] + 1
            BY <4>1, <4>2
          <6>2. Run(w, b) /\ x = b + Len(w) + 1
            BY <5>1, <5>3, <6>1
          <6>3. Run(Append(w, x), b) /\ Len(Append(w, x)) = Len(w) + 1
            BY <4>3, <6>2, RunAppend
          <6> QED
            BY <4>1, <6>1, <6>3
        <5> QED
          BY <4>2, <5>3, <5>4
      <4> QED
        BY <1>1, <1>2, <2>2, <3>1, <3>2, <3>4, <4>4, <4>5 DEF Cut, b
    <3> QED
      BY <3>3, <3>4
  <2> QED
    BY <1>2, <2>1, <2>2
<1> QED
  BY <1>3, <1>4

LEMMA SessionStep ==
    ASSUME GatewayInv, NEW s \in Sids, handleConnect(s) \/ handleClose(s)
    PROVE  GatewayInv'
<1> USE DEF GatewayInv
<1>1. UNCHANGED <<sent, wire, line, messages, poll, answered>>
  BY DEF handleConnect, handleClose
<1>2. PollInv' /\ \A r, n : Taken(r, n)' <=> Taken(r, n)
  BY <1>1, TakenUnchanged
<1>3. CASE handleConnect(s)
  <2>1. Types' /\ EndInv'
    BY <1>3 DEF handleConnect, Types, EndInv
  <2>2. ASSUME NEW r \in Sids, NEW a \in Nat, Cut(r, a)
        PROVE  Cut(r, a)'
    <3>1. CASE r # s
      <4>1. rpc'[r] = rpc[r] /\ (r \in sessions' => r \in sessions)
        BY <1>3, <3>1 DEF handleConnect, Types
      <4> QED
        BY <1>1, <1>2, <2>2, <4>1, CutUnchanged
    <3>2. CASE r = s
      <4>1. rpc[s] = "new" /\ rpc'[s] = "read"
        BY <1>3 DEF handleConnect, Types
      <4>2. ReadUpTo(s, a)' = ReadUpTo(s, a)
        BY <1>1, <4>1 DEF ReadUpTo
      <4>3. /\ Run(messages[s], a)' <=> Run(messages[s], a)
            /\ Run(wire[s], ReadUpTo(s, a))' <=> Run(wire[s], ReadUpTo(s, a))
        BY <1>1, <4>2 DEF Run
      <4> QED
        BY <1>1, <1>2, <2>2, <3>2, <4>1, <4>2, <4>3 DEF Cut
    <3> QED
      BY <3>1, <3>2
  <2> QED
    BY <1>2, <2>1, <2>2
<1>4. CASE handleClose(s)
  <2>1. rpc' = rpc /\ \A r \in Sids : r \in sessions' => r \in sessions
    BY <1>4 DEF handleClose
  <2>2. Types' /\ EndInv'
    BY <1>4 DEF handleClose, close, Types, EndInv
  <2>3. \A r \in Sids, a \in Nat : Cut(r, a) => Cut(r, a)'
    BY <1>1, <1>2, <2>1, CutUnchanged
  <2> QED
    BY <1>2, <2>2, <2>3
<1> QED
  BY <1>3, <1>4

\* The reader takes the next line from the socket.
LEMMA ReadLineCut ==
    ASSUME GatewayInv, NEW s \in Sids, ReadLine(s), NEW a \in Nat, Cut(s, a)
    PROVE  Cut(s, a)'
<1> USE DEF GatewayInv
<1> DEFINE b == ReadUpTo(s, a)
<1>1. UNCHANGED <<sessions, sent, messages, poll, answered>>
  BY DEF ReadLine
<1>2. \A n : Taken(s, n)' <=> Taken(s, n)
  BY <1>1, TakenUnchanged
<1>3. /\ rpc[s] = "read" /\ rpc'[s] = "select"
      /\ wire[s] # <<>> /\ wire'[s] = Tail(wire[s]) /\ line'[s] = Head(wire[s])
  BY DEF ReadLine, Types
<1>4. b \in Nat /\ wire[s] \in Seq(Nat) /\ ReadUpTo(s, a)' = b + 1
  BY <1>1, <1>3 DEF ReadUpTo, Types
<1>5. Run(wire[s], b) /\ b + Len(wire[s]) = sent[s]
  BY <1>3 DEF Cut
<1> HIDE DEF b
<1>6. /\ line'[s] = b + 1 /\ Run(wire'[s], b + 1)
      /\ Len(wire'[s]) \in Nat /\ Len(wire[s]) = Len(wire'[s]) + 1
  BY <1>3, <1>4, <1>5, RunTail
<1>7. (b + 1) + Len(wire'[s]) = sent'[s]
  <2>1. sent'[s] = b + Len(wire[s])
    BY <1>1, <1>5
  <2>2. b \in Nat /\ Len(wire'[s]) \in Nat /\ Len(wire[s]) = Len(wire'[s]) + 1
    BY <1>4, <1>6
  <2>3. \A x, y \in Nat : x + (y + 1) = (x + 1) + y
    OBVIOUS
  <2>4. b + (Len(wire'[s]) + 1) = (b + 1) + Len(wire'[s])
    BY <2>2, <2>3
  <2> QED
    BY <2>1, <2>2, <2>4, Zenon
<1>8. Run(messages[s], a)' <=> Run(messages[s], a)
  BY <1>1 DEF Run
<1>9. Run(wire[s], ReadUpTo(s, a))' <=> Run(wire'[s], b + 1)
  BY <1>4 DEF Run
<1> QED
  BY <1>2, <1>3, <1>4, <1>6, <1>7, <1>8, <1>9 DEF Cut

\* It puts the line that it has in hand behind the others.
LEMMA EnqueueCut ==
    ASSUME GatewayInv, NEW s \in Sids, ReadSelect(s), Enqueue(s), NEW a \in Nat, Cut(s, a)
    PROVE  Cut(s, a)'
<1> USE DEF GatewayInv
<1>1. UNCHANGED <<sessions, sent, wire, poll, answered>>
  BY DEF ReadSelect
<1>2. \A n : Taken(s, n)' <=> Taken(s, n)
  BY <1>1, TakenUnchanged
<1>3. rpc[s] = "select" /\ rpc'[s] = "read" /\ messages'[s] = Append(messages[s], line[s])
  BY DEF ReadSelect, Enqueue, Types
<1>4. messages[s] \in Seq(Nat) /\ Len(messages[s]) \in Nat /\ line[s] \in Nat
  BY DEF Types
<1>5. line[s] = a + Len(messages[s]) + 1 /\ ReadUpTo(s, a) = a + Len(messages[s]) + 1
  BY <1>3 DEF Cut, ReadUpTo
<1>6. Run(messages'[s], a) /\ Len(messages'[s]) = Len(messages[s]) + 1
  BY <1>3, <1>4, <1>5, RunAppend DEF Cut
<1>7. ReadUpTo(s, a)' = ReadUpTo(s, a)
  <2>1. ReadUpTo(s, a)' = a + Len(messages'[s]) + 0
    BY <1>3 DEF ReadUpTo
  <2> QED
    BY <1>4, <1>5, <1>6, <2>1
<1>8. /\ Run(messages[s], a)'
      /\ Run(wire[s], ReadUpTo(s, a))' <=> Run(wire[s], ReadUpTo(s, a))
  BY <1>1, <1>6, <1>7 DEF Run
<1> QED
  BY <1>1, <1>2, <1>3, <1>7, <1>8 DEF Cut

\* It ends, and what is lost belongs to a session that handleClose has forgotten.
LEMMA ReaderEndsCut ==
    ASSUME GatewayInv, NEW s \in Sids, ReadError(s) \/ (ReadSelect(s) /\ GiveUp(s)),
           NEW a \in Nat, Cut(s, a)
    PROVE  Cut(s, a)'
<1> USE DEF GatewayInv
<1>1. UNCHANGED <<sessions, sent, wire, messages, poll, answered>>
  BY DEF ReadError, ReadSelect, GiveUp
<1>2. \A n : Taken(s, n)' <=> Taken(s, n)
  BY <1>1, TakenUnchanged
<1>3. rpc'[s] = "done"
  BY DEF ReadError, ReadSelect, GiveUp, Types
<1>4. s \in sessions => rpc[s] = "read" /\ wire[s] = <<>>
  BY DEF ReadError, CanFail, ReadSelect, GiveUp, EndInv, Types
<1>5. s \in sessions => ReadUpTo(s, a)' = sent[s]
  <2>1. rpc[s] = "read" => ReadUpTo(s, a)' = ReadUpTo(s, a) /\ ReadUpTo(s, a) \in Nat
    BY <1>1, <1>3 DEF ReadUpTo, Types
  <2>2. wire[s] = <<>> => Len(wire[s]) = 0
    OBVIOUS
  <2>3. rpc[s] = "read" => ReadUpTo(s, a) + Len(wire[s]) = sent[s]
    BY DEF Cut
  <2> QED
    BY <1>4, <2>1, <2>2, <2>3
<1>6. Run(messages[s], a)' <=> Run(messages[s], a)
  BY <1>1 DEF Run
<1> QED
  BY <1>1, <1>2, <1>3, <1>5, <1>6 DEF Cut

LEMMA ReaderStep ==
    ASSUME GatewayInv, NEW s \in Sids, readTCPToChannel(s)
    PROVE  GatewayInv'
<1> USE DEF GatewayInv
<1>1. UNCHANGED <<sessions, sent, poll, answered>>
  BY DEF readTCPToChannel, ReadLine, ReadError, ReadSelect
<1>2. PollInv' /\ \A r, n : Taken(r, n)' <=> Taken(r, n)
  BY <1>1, TakenUnchanged
<1>3. Types'
  <2>1. CASE ReadLine(s)
    BY <2>1, HeadTailProperties DEF ReadLine, Types
  <2>2. CASE ReadError(s)
    BY <2>2 DEF ReadError, close, Types
  <2>3. CASE ReadSelect(s)
    <3>1. line[s] \in Nat /\ messages[s] \in Seq(Nat) /\ Append(messages[s], line[s]) \in Seq(Nat)
      BY DEF Types
    <3>2. messages' \in [Sids -> Seq(Nat)]
      BY <2>3, <3>1 DEF ReadSelect, Enqueue, GiveUp, Types
    <3> QED
      BY <2>3, <3>2 DEF ReadSelect, Enqueue, GiveUp, Types
  <2> QED
    BY <2>1, <2>2, <2>3 DEF readTCPToChannel
<1>4. EndInv'
  BY DEF readTCPToChannel, ReadLine, ReadError, CanFail, close, ReadSelect, Enqueue, GiveUp,
         EndInv, Types
<1>5. ASSUME NEW a \in Nat, Cut(s, a)
      PROVE  Cut(s, a)'
  BY <1>5, ReadLineCut, EnqueueCut, ReaderEndsCut DEF readTCPToChannel, ReadSelect
<1>6. ASSUME NEW r \in Sids, r # s, NEW a \in Nat, Cut(r, a)
      PROVE  Cut(r, a)'
  <2>1. wire'[r] = wire[r] /\ rpc'[r] = rpc[r] /\ line'[r] = line[r] /\ messages'[r] = messages[r]
    BY <1>6 DEF readTCPToChannel, ReadLine, ReadError, ReadSelect, Enqueue, GiveUp, Types
  <2> QED
    BY <1>1, <1>2, <1>6, <2>1, CutUnchanged
<1> QED
  BY <1>2, <1>3, <1>4, <1>5, <1>6

\* A poll that begins, or that goes from one select to another, holds what it held.
LEMMA PollMoves ==
    ASSUME GatewayInv, NEW p \in Polls,
           UNCHANGED <<notPoll, messages, answered>>,
           NEW x, poll' = [poll EXCEPT ![p] = x],
           x \in [pc : {"collect", "wait", "reply"}, sid : Sids, msgs : Seq(Nat)],
           x.msgs = poll[p].msgs, x.sid = poll[p].sid \/ poll[p] = NoPoll
    PROVE  GatewayInv'
<1> USE DEF GatewayInv, notPoll
<1>1. Types' /\ EndInv'
  BY DEF Types, EndInv
<1>2. poll'[p] = x /\ \A q \in Polls \ {p} : poll'[q] = poll[q]
  BY DEF Types
<1>3. poll[p] = NoPoll => poll[p].msgs = <<>>
  BY DEF NoPoll
<1>4. \A q \in Polls : \A r, n : Holds(q, r, n)' <=> Holds(q, r, n)
  BY <1>2, <1>3 DEF Holds
<1>5. \A r, n : Taken(r, n)' <=> Taken(r, n)
  BY <1>4 DEF Taken
<1>6. PollInv'
  <2>1. x.pc # "idle" /\ x.sid \in Sids
    OBVIOUS
  <2>2. \A q \in Polls : poll'[q].msgs = poll[q].msgs
    BY <1>2
  <2> QED
    BY <1>2, <1>4, <2>1, <2>2 DEF PollInv
<1>7. \A r \in Sids, a \in Nat : Cut(r, a) => Cut(r, a)'
  BY <1>5, CutUnchanged
<1> QED
  BY <1>1, <1>6, <1>7

\* A poll takes the oldest line, which is newer than all that were taken before.
LEMMA ReceiveStep ==
    ASSUME GatewayInv, NEW p \in Polls, poll[p].pc # "idle", Receive(p, poll[p].sid),
           UNCHANGED <<notPoll, answered>>
    PROVE  GatewayInv'
<1> USE DEF GatewayInv, notPoll
<1> DEFINE x == poll'[p]
<1>1. PICK s \in Sids : s = poll[p].sid
  BY DEF PollInv
<1> DEFINE m == Head(messages[s])
<1>2. messages[s] # <<>> /\ messages[s] \in Seq(Nat) /\ poll[p].msgs \in Seq(Nat)
  BY <1>1 DEF Receive, Types
<1>3. PICK a \in Nat : Cut(s, a)
  BY <1>2
<1>4. /\ m = a + 1 /\ Run(Tail(messages[s]), a + 1) /\ Tail(messages[s]) \in Seq(Nat)
      /\ Len(Tail(messages[s])) \in Nat /\ Len(messages[s]) = Len(Tail(messages[s])) + 1
  BY <1>2, <1>3, RunTail DEF Cut
<1>5. /\ x.pc \in {"collect", "reply"} /\ x.sid = s /\ x.msgs = Append(poll[p].msgs, m)
      /\ x \in [pc : {"idle", "collect", "wait", "reply"}, sid : Sids \cup {None}, msgs : Seq(Nat)]
      /\ \A q \in Polls \ {p} : poll'[q] = poll[q]
      /\ poll' = [poll EXCEPT ![p] = x]
  <2>1. m \in Nat /\ Append(poll[p].msgs, m) \in Seq(Nat)
    BY <1>2, <1>4
  <2>2. poll[p] \in [pc : {"idle", "collect", "wait", "reply"}, sid : Sids \cup {None},
                     msgs : Seq(Nat)]
    BY DEF Types
  <2> DEFINE c == IF Len(poll[p].msgs) + 1 >= Batch /\ poll[p].pc = "collect"
                  THEN "reply" ELSE "collect"
  <2>3. poll \in [Polls -> [pc : {"idle", "collect", "wait", "reply"}, sid : Sids \cup {None},
                           msgs : Seq(Nat)]]
    BY DEF Types
  <2>4. c \in {"collect", "reply"}
    OBVIOUS
  <2>5. poll' = [poll EXCEPT ![p] = [poll[p] EXCEPT !.msgs = Append(poll[p].msgs, m), !.pc = c]]
    BY <1>1, <2>2, <2>3 DEF Receive
  <2> HIDE DEF c, m
  <2>6. x = [poll[p] EXCEPT !.msgs = Append(poll[p].msgs, m), !.pc = c]
    BY <2>3, <2>5
  <2> HIDE DEF x
  <2>7. x.pc = c /\ x.sid = s /\ x.msgs = Append(poll[p].msgs, m)
    BY <1>1, <2>2, <2>6
  <2>8. x = [pc |-> c, sid |-> s, msgs |-> Append(poll[p].msgs, m)]
    BY <1>1, <2>2, <2>6
  <2>9. poll' = [poll EXCEPT ![p] = x] /\ \A q \in Polls \ {p} : poll'[q] = poll[q]
    BY DEF Receive, Types, x
  <2> QED
    BY <2>1, <2>4, <2>7, <2>8, <2>9
<1>6. messages'[s] = Tail(messages[s]) /\ \A r \in Sids \ {s} : messages'[r] = messages[r]
  BY <1>1, <1>2 DEF Receive, Types
<1>7. Types' /\ EndInv'
  <2>1. messages' \in [Sids -> Seq(Nat)]
    BY <1>1, <1>2, <1>4 DEF Receive, Types
  <2> QED
    BY <1>5, <2>1 DEF Types, EndInv
<1> HIDE DEF m, x
<1>8. /\ \A n : (\E i \in DOMAIN x.msgs : x.msgs[i] = n)
                <=> (\E i \in DOMAIN poll[p].msgs : poll[p].msgs[i] = n) \/ n = a + 1
      /\ (/\ \A i \in DOMAIN poll[p].msgs : poll[p].msgs[i] < a + 1
          /\ \A i, j \in DOMAIN poll[p].msgs : i < j => poll[p].msgs[i] < poll[p].msgs[j])
         => \A i, j \in DOMAIN x.msgs : i < j => x.msgs[i] < x.msgs[j]
  <2>1. x.msgs = Append(poll[p].msgs, a + 1) /\ a + 1 \in Nat
    BY <1>4, <1>5
  <2> QED
    BY <1>2, <2>1, AppendElements
<1>9. /\ \A n : Holds(p, s, n)' <=> Holds(p, s, n) \/ n = a + 1
      /\ \A r, n : r # s => ~Holds(p, r, n)' /\ ~Holds(p, r, n)
      /\ \A q \in Polls \ {p} : \A r, n : Holds(q, r, n)' <=> Holds(q, r, n)
  BY <1>1, <1>5, <1>8 DEF Holds, x
<1>10. /\ \A n \in Nat : Taken(s, n)' <=> n \in 1 .. a + 1
       /\ \A r \in Sids \ {s} : \A n : Taken(r, n)' <=> Taken(r, n)
  <2>1. \A n \in Nat : Taken(s, n)' <=> Taken(s, n) \/ n = a + 1
    BY <1>9 DEF Taken
  <2>2. \A n \in Nat : Taken(s, n) <=> n \in 1 .. a
    BY <1>3 DEF Cut
  <2> QED
    BY <1>9, <2>1, <2>2 DEF Taken
<1>11. PollInv'
  <2>1. \A n \in Nat : n >= a + 1 => ~Taken(s, n)
    BY <1>3 DEF Cut
  <2>2. \A i \in DOMAIN poll[p].msgs : poll[p].msgs[i] \in Nat /\ poll[p].msgs[i] < a + 1
    <3>1. ASSUME NEW i \in DOMAIN poll[p].msgs
          PROVE  poll[p].msgs[i] \in Nat /\ Taken(s, poll[p].msgs[i])
      BY <1>1, <1>2 DEF Taken, Holds
    <3> QED
      BY <2>1, <3>1
  <2>3. \A i, j \in DOMAIN x.msgs : i < j => x.msgs[i] < x.msgs[j]
    <3>1. \A i, j \in DOMAIN poll[p].msgs : i < j => poll[p].msgs[i] < poll[p].msgs[j]
      BY DEF PollInv
    <3> QED
      BY <1>8, <2>2, <3>1
  <2>4. ASSUME NEW q \in Polls, NEW r \in Sids, NEW n \in Nat, Holds(q, r, n)'
        PROVE  n \notin answered[r] /\ \A o \in Polls \ {q} : ~Holds(o, r, n)'
    <3>1. a + 1 \notin answered[s] /\ \A o \in Polls : ~Holds(o, s, a + 1)
      BY <2>1 DEF Taken
    <3>2. CASE Holds(q, r, n)
      <4>1. n \notin answered[r] /\ \A o \in Polls \ {q} : ~Holds(o, r, n)
        BY <3>2 DEF PollInv
      <4> QED
        BY <1>9, <3>1, <3>2, <4>1
    <3>3. CASE ~Holds(q, r, n)
      <4>1. q = p /\ r = s /\ n = a + 1
        BY <1>9, <2>4, <3>3
      <4> QED
        BY <1>9, <3>1, <4>1
    <3> QED
      BY <3>2, <3>3
  <2>5. \A q \in Polls : /\ poll'[q].pc = "idle" => poll'[q] = NoPoll
                         /\ poll'[q].pc # "idle" => poll'[q].sid \in Sids
    BY <1>2, <1>5 DEF PollInv, x
  <2>6. \A q \in Polls : \A i, j \in DOMAIN poll'[q].msgs :
          i < j => poll'[q].msgs[i] < poll'[q].msgs[j]
    BY <1>5, <2>3 DEF PollInv, x
  <2> QED
    BY <2>4, <2>5, <2>6 DEF PollInv
<1>12. Cut(s, a + 1)'
  <2>1. PICK d \in {0, 1} : /\ ReadUpTo(s, a) = a + Len(messages[s]) + d
                            /\ ReadUpTo(s, a + 1)' = a + 1 + Len(messages'[s]) + d
    BY DEF ReadUpTo
  <2>2. ReadUpTo(s, a + 1)' = ReadUpTo(s, a)
    <3>1. \A k \in Nat : a + 1 + k + d = a + (k + 1) + d
      OBVIOUS
    <3> QED
      BY <1>4, <1>6, <2>1, <3>1
  <2>3. Run(messages'[s], a + 1)
    BY <1>4, <1>6
  <2> QED
    BY <1>3, <1>5, <1>10, <2>2, <2>3 DEF Cut, Run
<1>13. \A r \in Sids \ {s}, b \in Nat : Cut(r, b) => Cut(r, b)'
  BY <1>6, <1>10, CutUnchanged
<1>14. a + 1 \in Nat
  OBVIOUS
<1> QED
  BY <1>7, <1>11, <1>12, <1>13, <1>14

\* An answer moves lines from a poll to the answered ones.
LEMMA ReplyStep ==
    ASSUME GatewayInv, NEW p \in Polls, Reply(p)
    PROVE  GatewayInv'
<1> USE DEF GatewayInv, notPoll
<1>1. PICK s \in Sids : s = poll[p].sid
  BY DEF Reply, PollInv
<1>2. /\ answered' = [answered EXCEPT ![s] = answered[s] \cup ToSet(poll[p].msgs)]
      /\ poll' = [poll EXCEPT ![p] = NoPoll]
      /\ UNCHANGED <<notPoll, messages>>
  BY <1>1 DEF Reply
<1>3. /\ poll'[p] = NoPoll /\ \A q \in Polls \ {p} : poll'[q] = poll[q]
      /\ \A r \in Sids \ {s} : answered'[r] = answered[r]
      /\ answered'[s] = answered[s] \cup ToSet(poll[p].msgs)
  BY <1>2 DEF Types
<1>4. /\ NoPoll \in [pc : {"idle", "collect", "wait", "reply"}, sid : Sids \cup {None},
                     msgs : Seq(Nat)]
      /\ NoPoll.pc = "idle" /\ NoPoll.msgs = <<>>
  BY DEF NoPoll
<1>5. ToSet(poll[p].msgs) \subseteq Nat
  BY DEF ToSet, Types
<1>6. Types' /\ EndInv'
  BY <1>2, <1>4, <1>5 DEF Types, EndInv
<1>7. /\ \A r, n : ~Holds(p, r, n)'
      /\ \A q \in Polls \ {p} : \A r, n : Holds(q, r, n)' <=> Holds(q, r, n)
      /\ \A r, n : Holds(p, r, n) <=> r = s /\ n \in ToSet(poll[p].msgs)
  BY <1>1, <1>3, <1>4 DEF Holds, ToSet
<1>8. \A r \in Sids : \A n : Taken(r, n)' <=> Taken(r, n)
  BY <1>3, <1>7 DEF Taken
<1>9. PollInv'
  <2>1. \A q \in Polls : \A i, j \in DOMAIN poll'[q].msgs :
          i < j => poll'[q].msgs[i] < poll'[q].msgs[j]
    BY <1>3, <1>4 DEF PollInv
  <2>2. ASSUME NEW q \in Polls, NEW r \in Sids, NEW n \in Nat, Holds(q, r, n)'
        PROVE  n \notin answered'[r] /\ \A o \in Polls \ {q} : ~Holds(o, r, n)'
    <3>1. q # p /\ Holds(q, r, n)
      BY <1>7, <2>2
    <3>2. n \notin answered[r] /\ ~Holds(p, r, n) /\ \A o \in Polls \ {q} : ~Holds(o, r, n)
      BY <3>1 DEF PollInv
    <3> QED
      BY <1>3, <1>7, <3>2
  <2> QED
    BY <1>3, <1>4, <2>1, <2>2 DEF PollInv
<1>10. \A r \in Sids, a \in Nat : Cut(r, a) => Cut(r, a)'
  BY <1>2, <1>8, CutUnchanged
<1> QED
  BY <1>6, <1>9, <1>10

LEMMA PollStep ==
    ASSUME GatewayInv, NEW p \in Polls,
           Collect(p) \/ Wait(p) \/ Reply(p) \/ \E s \in Sids : handlePoll(p, s)
    PROVE  GatewayInv'
<1> USE DEF GatewayInv
<1>1. poll[p] \in [pc : {"idle", "collect", "wait", "reply"}, sid : Sids \cup {None},
                   msgs : Seq(Nat)]
  BY DEF Types
<1>2. ASSUME NEW s \in Sids, handlePoll(p, s)
      PROVE  GatewayInv'
  <2> DEFINE x == [pc |-> "collect", sid |-> s, msgs |-> <<>>]
  <2>1. /\ x \in [pc : {"collect", "wait", "reply"}, sid : Sids, msgs : Seq(Nat)]
        /\ x.msgs = <<>> /\ NoPoll.msgs = <<>>
    BY DEF NoPoll
  <2> HIDE DEF x
  <2>2. /\ poll' = [poll EXCEPT ![p] = x] /\ poll[p] = NoPoll
        /\ UNCHANGED <<notPoll, messages, answered>>
    BY <1>2 DEF handlePoll, x
  <2> QED
    BY <2>1, <2>2, PollMoves
<1>3. ASSUME NEW c \in {"collect", "wait", "reply"}, poll[p].pc # "idle", Goto(p, c),
             UNCHANGED <<notPoll, messages, answered>>
      PROVE  GatewayInv'
  <2> DEFINE x == [poll[p] EXCEPT !.pc = c]
  <2>1. /\ x \in [pc : {"collect", "wait", "reply"}, sid : Sids, msgs : Seq(Nat)]
        /\ x.msgs = poll[p].msgs /\ x.sid = poll[p].sid
    BY <1>1, <1>3 DEF PollInv
  <2>2. poll' = [poll EXCEPT ![p] = x]
    BY <1>3 DEF Goto
  <2> HIDE DEF x
  <2> QED
    BY <1>3, <2>1, <2>2, PollMoves
<1>4. CASE Collect(p)
  <2>1. poll[p].pc # "idle" /\ UNCHANGED <<notPoll, answered>>
    BY <1>4 DEF Collect
  <2>2. CASE Receive(p, poll[p].sid)
    BY <2>1, <2>2, ReceiveStep
  <2>3. CASE (\E c \in {"collect", "wait", "reply"} : Goto(p, c)) /\ messages' = messages
    BY <1>3, <2>1, <2>3
  <2> QED
    BY <1>4, <2>2, <2>3 DEF Collect
<1>5. CASE Wait(p)
  <2>1. poll[p].pc # "idle" /\ UNCHANGED <<notPoll, answered>>
    BY <1>5 DEF Wait
  <2>2. CASE Receive(p, poll[p].sid)
    BY <2>1, <2>2, ReceiveStep
  <2>3. CASE (\E c \in {"collect", "wait", "reply"} : Goto(p, c)) /\ messages' = messages
    BY <1>3, <2>1, <2>3
  <2> QED
    BY <1>5, <2>2, <2>3 DEF Wait, Timer
<1> QED
  BY <1>2, <1>4, <1>5, ReplyStep

LEMMA GatewayStep == GatewayInv /\ [GatewayNext]_gatewayVars => GatewayInv'
<1> SUFFICES ASSUME GatewayInv, [GatewayNext]_gatewayVars
             PROVE  GatewayInv'
  OBVIOUS
<1>1. CASE UNCHANGED gatewayVars
  <2>1. Types' /\ EndInv' /\ PollInv'
    BY <1>1 DEF gatewayVars, GatewayInv, Types, EndInv, PollInv, Holds
  <2>2. \A s, n : Taken(s, n)' <=> Taken(s, n)
    BY <1>1, TakenUnchanged DEF gatewayVars
  <2>3. \A s \in Sids, a \in Nat : Cut(s, a) => Cut(s, a)'
    BY <1>1, <2>2, CutUnchanged DEF gatewayVars
  <2> QED
    BY <2>1, <2>3 DEF GatewayInv
<1> QED
  BY <1>1, PeerStep, SessionStep, ReaderStep, PollStep DEF GatewayNext

-----------------------------------------------------------------------------
(* What the invariant says of the lines on their way.                      *)

\* The backlog of a session is the run of lines behind the taken ones, and reaches to the last
\* line that was sent if the session is in the map.
LEMMA BacklogRun ==
    ASSUME GatewayInv, NEW s \in Sids, NEW a \in Nat, Cut(s, a)
    PROVE  /\ Backlog(s) \in Seq(Nat) /\ Run(Backlog(s), a)
           /\ s \in sessions => a + Len(Backlog(s)) = sent[s]
<1>1. PICK m \in Seq(Nat), w \in Seq(Nat), l \in Nat :
        m = messages[s] /\ w = wire[s] /\ l = line[s]
  BY DEF GatewayInv, Types
<1>2. /\ Len(m) \in Nat /\ Len(w) \in Nat
      /\ sent[s] \in Nat /\ rpc[s] \in {"new", "read", "select", "done"}
  BY DEF GatewayInv, Types
<1>3. Run(m, a)
  BY <1>1 DEF Cut
<1>4. CASE rpc[s] = "done"
  <2>1. Run(<<>>, a + Len(m)) /\ <<>> \in Seq(Nat) /\ Len(<<>>) = 0
    BY DEF Run
  <2>2. Backlog(s) = m \o <<>>
    BY <1>1, <1>4 DEF Backlog
  <2>3. Backlog(s) \in Seq(Nat) /\ Run(Backlog(s), a) /\ Len(Backlog(s)) = Len(m)
    BY <1>2, <1>3, <2>2, ConcatEmptySeq
  <2>4. s \in sessions => ReadUpTo(s, a) = sent[s] /\ ReadUpTo(s, a) = a + Len(m) + 0
    BY <1>1, <1>4 DEF Cut, ReadUpTo
  <2> QED
    BY <1>2, <2>3, <2>4
<1>5. CASE rpc[s] \in {"new", "read"}
  <2>1. ReadUpTo(s, a) = a + Len(m) + 0
    BY <1>1, <1>5 DEF ReadUpTo
  <2>2. ReadUpTo(s, a) = a + Len(m)
    BY <1>2, <2>1
  <2>3. Run(w, a + Len(m)) /\ a + Len(m) + Len(w) = sent[s]
    BY <1>1, <1>5, <2>2 DEF Cut
  <2>4. Backlog(s) = m \o w
    BY <1>1, <1>5 DEF Backlog
  <2>5. Backlog(s) \in Seq(Nat) /\ Run(Backlog(s), a) /\ Len(Backlog(s)) = Len(m) + Len(w)
    BY <1>2, <1>3, <2>3, <2>4, RunConcat
  <2>6. \A x, y \in Nat : a + (x + y) = a + x + y
    OBVIOUS
  <2> QED
    BY <1>2, <2>3, <2>5, <2>6
<1>6. CASE rpc[s] = "select"
  <2> DEFINE b == a + Len(m)
             v == <<l>> \o w
  <2>1. ReadUpTo(s, a) = b + 1 /\ b \in Nat
    BY <1>1, <1>2, <1>6 DEF ReadUpTo
  <2>2. Run(w, b + 1) /\ b + 1 + Len(w) = sent[s] /\ l = b + 1
    BY <1>1, <1>6, <2>1 DEF Cut
  <2>3. <<l>> \in Seq(Nat) /\ Len(<<l>>) = 1 /\ Run(<<l>>, b)
    BY <1>2, <2>2 DEF Run
  <2>4. v \in Seq(Nat) /\ Run(v, b) /\ Len(v) = 1 + Len(w)
    BY <1>2, <2>1, <2>2, <2>3, RunConcat
  <2>5. Backlog(s) = m \o v
    BY <1>1, <1>6 DEF Backlog
  <2> HIDE DEF v
  <2>6. Backlog(s) \in Seq(Nat) /\ Run(Backlog(s), a) /\ Len(Backlog(s)) = Len(m) + Len(v)
    <3>1. m \o v \in Seq(Nat) /\ Run(m \o v, a) /\ Len(m \o v) = Len(m) + Len(v)
      BY <1>3, <2>4, RunConcat
    <3> QED
      BY <2>5, <3>1
  <2>7. \A x, y \in Nat : a + (x + (1 + y)) = a + x + 1 + y
    OBVIOUS
  <2>8. a + Len(Backlog(s)) = sent[s]
    BY <1>2, <2>2, <2>4, <2>6, <2>7
  <2> QED
    BY <2>6, <2>8
<1> QED
  BY <1>2, <1>4, <1>5, <1>6

LEMMA RunSet ==
    ASSUME NEW q \in Seq(Nat), NEW b \in Nat, Run(q, b)
    PROVE  ToSet(q) = b + 1 .. b + Len(q)
<1>1. Len(q) \in Nat /\ DOMAIN q = 1 .. Len(q)
  BY LenProperties
<1>2. ASSUME NEW n \in b + 1 .. b + Len(q)
      PROVE  \E i \in 1 .. Len(q) : n = q[i]
  <2>1. n - b \in 1 .. Len(q) /\ b + (n - b) = n
    BY <1>1
  <2> QED
    BY <2>1 DEF Run
<1>3. ASSUME NEW i \in 1 .. Len(q)
      PROVE  q[i] \in b + 1 .. b + Len(q)
  <2>1. b + i \in b + 1 .. b + Len(q)
    BY <1>1
  <2> QED
    BY <2>1 DEF Run
<1> QED
  BY <1>1, <1>2, <1>3 DEF ToSet

LEMMA TakenSet ==
    ASSUME GatewayInv, NEW s \in Sids, NEW a \in Nat, Cut(s, a)
    PROVE  answered[s] \cup Collected(s) = 1 .. a
<1>1. ASSUME NEW n
      PROVE  n \in Collected(s) <=> \E p \in Polls : Holds(p, s, n)
  BY DEF Collected, Holds, ToSet
<1>2. ASSUME NEW n, Taken(s, n)
      PROVE  n \in Nat
  BY <1>2 DEF Taken, Holds, GatewayInv, Types
<1>3. ASSUME NEW n
      PROVE  n \in answered[s] \cup Collected(s) <=> Taken(s, n)
  BY <1>1 DEF Taken
<1> QED
  BY <1>2, <1>3 DEF Cut

LEMMA GatewayLosesNothing == GatewayInv => NothingLost
<1> SUFFICES ASSUME GatewayInv, NEW s \in sessions
             PROVE  answered[s] \cup Collected(s) \cup ToSet(Backlog(s)) = 1 .. sent[s]
  BY DEF NothingLost
<1>1. s \in Sids
  BY DEF GatewayInv, Types
<1>2. PICK a \in Nat : Cut(s, a)
  BY <1>1 DEF GatewayInv
<1>3. /\ Backlog(s) \in Seq(Nat) /\ Run(Backlog(s), a)
      /\ a + Len(Backlog(s)) = sent[s]
  BY <1>1, <1>2, BacklogRun
<1>4. answered[s] \cup Collected(s) = 1 .. a
  BY <1>1, <1>2, TakenSet
<1>5. ToSet(Backlog(s)) = a + 1 .. sent[s]
  BY <1>3, RunSet
<1>6. PICK k \in Nat : k = Len(Backlog(s))
  BY <1>3, LenProperties
<1>7. (1 .. a) \cup (a + 1 .. a + k) = 1 .. a + k
  OBVIOUS
<1> QED
  BY <1>3, <1>4, <1>5, <1>6, <1>7

LEMMA GatewayKeepsOrder == GatewayInv => InOrderOnce
<1> SUFFICES ASSUME GatewayInv
             PROVE  InOrderOnce
  OBVIOUS
<1>1. ASSUME NEW s \in Sids
      PROVE  /\ \A i, j \in DOMAIN Backlog(s) : i < j => Backlog(s)[i] < Backlog(s)[j]
             /\ \A n \in ToSet(Backlog(s)) : \A m \in answered[s] \cup Collected(s) : m < n
  <2>1. PICK a \in Nat : Cut(s, a)
    BY DEF GatewayInv
  <2>2. PICK q \in Seq(Nat) : q = Backlog(s) /\ Run(q, a)
    BY <2>1, BacklogRun
  <2>3. answered[s] \cup Collected(s) = 1 .. a
    BY <2>1, TakenSet
  <2>4. Len(q) \in Nat /\ DOMAIN q = 1 .. Len(q) /\ ToSet(q) = a + 1 .. a + Len(q)
    BY <2>2, RunSet, LenProperties
  <2>5. ASSUME NEW i \in 1 .. Len(q), NEW j \in 1 .. Len(q), i < j
        PROVE  q[i] < q[j]
    <3>1. q[i] = a + i /\ q[j] = a + j
      BY <2>2 DEF Run
    <3>2. a + i < a + j
      BY <2>4, <2>5
    <3> QED
      BY <3>1, <3>2
  <2>6. \A n \in a + 1 .. a + Len(q), m \in 1 .. a : m < n
    BY <2>4
  <2> QED
    BY <2>2, <2>3, <2>4, <2>5, <2>6
<1>2. \A p \in Polls : \A i, j \in DOMAIN poll[p].msgs :
        i < j => poll[p].msgs[i] < poll[p].msgs[j]
  BY DEF GatewayInv, PollInv
<1>3. \A p \in Polls : \A n \in ToSet(poll[p].msgs) :
        n \in Nat /\ Holds(p, poll[p].sid, n)
  BY DEF Holds, ToSet, GatewayInv, Types
<1>4. \A p \in Polls : poll[p].pc = "idle" => ToSet(poll[p].msgs) = {}
  BY DEF GatewayInv, PollInv, NoPoll, ToSet
<1>5. \A p \in Polls : poll[p].pc # "idle" => poll[p].sid \in Sids
  BY DEF GatewayInv, PollInv
<1>6. \A p, q \in Polls : p # q /\ poll[p].sid = poll[q].sid =>
        ToSet(poll[p].msgs) \cap ToSet(poll[q].msgs) = {}
  BY <1>3, <1>4, <1>5 DEF GatewayInv, PollInv
<1>7. \A p \in Polls : poll[p].pc # "idle" =>
        ToSet(poll[p].msgs) \cap answered[poll[p].sid] = {}
  BY <1>3, <1>5 DEF GatewayInv, PollInv
<1> QED
  BY <1>1, <1>2, <1>6, <1>7 DEF InOrderOnce

\* For every capacity of the channel, size of an answer, number of sessions and of competing
\* polls: as long as handleClose is not called no line is lost, also when the server ends the
\* connection; and no line is in two answers or in front of an older one.
THEOREM GatewaySafety == GatewaySpec => [](NothingLost /\ InOrderOnce)
<1>1. GatewayInv => NothingLost /\ InOrderOnce
  BY GatewayLosesNothing, GatewayKeepsOrder
<1> QED
  BY <1>1, GatewayInvInit, GatewayStep, PTL DEF GatewaySpec
=============================================================================
