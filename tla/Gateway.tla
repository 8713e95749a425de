------------------------------ MODULE Gateway ------------------------------
(***************************************************************************)
(* The TCP-to-HTTP gateway cmd/web/main.go: a session is a TCP connection  *)
(* to the chat server, a goroutine that reads lines from it into a bounded *)
(* channel (rpc), and any number of long polls that take lines out of the  *)
(* channel (poll). A session ends when the server ends the connection or   *)
(* when handleClose is called, and both close the same two things once.    *)
(*                                                                         *)
(* The lines of a connection are 1, 2, 3, ... in the order in which the    *)
(* server sends them. handleSend writes to the socket and changes nothing  *)
(* here: what it makes the server do is covered by the server being free   *)
(* to send a line or to end the connection at any time.                    *)
(***************************************************************************)
EXTENDS Naturals, Sequences, SequencesExt

CONSTANTS
    Sids,       \* session ids; they are random and none is used twice
    Polls,      \* poll requests that may be under way together
    Cap,        \* the capacity of session.messages (256 in the code)
    Batch,      \* the most lines of one answer (20 in the code)
    MaxLines,   \* bound: lines that the server sends on a connection
    None

ASSUME GatewayAssumption == {Cap, Batch} \subseteq Nat \ {0} /\ MaxLines \in Nat
ASSUME NoneAssumption == None \notin Sids

VARIABLES
    sessions,   \* the keys of the map sessions
    closed,     \* session.closed is closed, and tcpConn with it
    peer,       \* the server's side of the connection: "none", "open" or "ended"
    sent,       \* the number of lines the server has sent
    wire,       \* lines that the reader has not read yet
    rpc,        \* readTCPToChannel
    line,       \* its local: the line it is about to put into the channel, 0 if none
    messages,   \* session.messages
    poll,       \* handlePoll: where it is, its session and the lines it has collected
    answered    \* lines in answers that were written, whether the browser got them or not

gatewayVars == <<sessions, closed, peer, sent, wire, rpc, line, messages, poll, answered>>

NoPoll == [pc |-> "idle", sid |-> None, msgs |-> <<>>]

GatewayInit ==
    /\ sessions = {}
    /\ closed = [s \in Sids |-> FALSE]
    /\ peer = [s \in Sids |-> "none"]
    /\ sent = [s \in Sids |-> 0]
    /\ wire = [s \in Sids |-> <<>>]
    /\ rpc = [s \in Sids |-> "new"]
    /\ line = [s \in Sids |-> 0]
    /\ messages = [s \in Sids |-> <<>>]
    /\ poll = [p \in Polls |-> NoPoll]
    /\ answered = [s \in Sids |-> {}]

-----------------------------------------------------------------------------
(* The chat server, as far as a connection sees it.                        *)

ServerSends(s) ==
    /\ peer[s] = "open"
    /\ ~closed[s]
    /\ sent[s] < MaxLines
    /\ sent' = [sent EXCEPT ![s] = @ + 1]
    /\ wire' = [wire EXCEPT ![s] = Append(@, sent[s] + 1)]
    /\ UNCHANGED <<sessions, closed, peer, rpc, line, messages, poll, answered>>

ServerEnds(s) ==
    /\ peer[s] = "open"
    /\ peer' = [peer EXCEPT ![s] = "ended"]
    /\ UNCHANGED <<sessions, closed, sent, wire, rpc, line, messages, poll, answered>>

-----------------------------------------------------------------------------
(* Sessions.                                                               *)

\* handleConnect, when the dial succeeds; otherwise there is an error and no session.
handleConnect(s) ==
    /\ rpc[s] = "new"
    /\ sessions' = sessions \cup {s}
    /\ peer' = [peer EXCEPT ![s] = "open"]
    /\ rpc' = [rpc EXCEPT ![s] = "read"]
    /\ UNCHANGED <<closed, sent, wire, line, messages, poll, answered>>

\* session.close, under its sync.Once: a second call has no effect.
close(s) == closed' = [closed EXCEPT ![s] = TRUE]

\* handleClose takes the session out of the map, then closes it.
handleClose(s) ==
    /\ s \in sessions
    /\ sessions' = sessions \ {s}
    /\ close(s)
    /\ UNCHANGED <<peer, sent, wire, rpc, line, messages, poll, answered>>

-----------------------------------------------------------------------------
(* readTCPToChannel.                                                       *)

\* ReadString returned a line. The reader may have buffered some that are there after
\* the socket has been closed. Empty lines are skipped and never seen.
ReadLine(s) ==
    /\ rpc[s] = "read"
    /\ wire[s] # <<>>
    /\ line' = [line EXCEPT ![s] = Head(wire[s])]
    /\ wire' = [wire EXCEPT ![s] = Tail(@)]
    /\ rpc' = [rpc EXCEPT ![s] = "select"]
    /\ UNCHANGED <<sessions, closed, peer, sent, messages, poll, answered>>

\* ReadString fails at the end of the stream and on a closed socket.
CanFail(s) == closed[s] \/ (peer[s] = "ended" /\ wire[s] = <<>>)

ReadError(s) ==
    /\ rpc[s] = "read"
    /\ CanFail(s)
    /\ close(s)
    /\ rpc' = [rpc EXCEPT ![s] = "done"]
    /\ UNCHANGED <<sessions, peer, sent, wire, line, messages, poll, answered>>

\* Mutant: a full channel loses the line (a select with a default).
EnqueueOrDrop(s) ==
    /\ messages' = [messages EXCEPT ![s] =
                       IF Len(@) < Cap THEN Append(@, line[s]) ELSE @]
    /\ rpc' = [rpc EXCEPT ![s] = "read"]

\* case s.messages <- line: waits for room.
Enqueue(s) ==
    /\ Len(messages[s]) < Cap
    /\ messages' = [messages EXCEPT ![s] = Append(@, line[s])]
    /\ rpc' = [rpc EXCEPT ![s] = "read"]

\* Mutant: the reader only waits for room.
GiveUpNever(s) == FALSE /\ UNCHANGED <<rpc, messages>>

\* case <-s.closed.
GiveUp(s) ==
    /\ closed[s]
    /\ rpc' = [rpc EXCEPT ![s] = "done"]
    /\ messages' = messages

ReadSelect(s) ==
    /\ rpc[s] = "select"
    /\ Enqueue(s) \/ GiveUp(s)
    /\ line' = [line EXCEPT ![s] = 0]
    /\ UNCHANGED <<sessions, closed, peer, sent, wire, poll, answered>>

readTCPToChannel(s) == ReadLine(s) \/ ReadError(s) \/ ReadSelect(s)

-----------------------------------------------------------------------------
(* handlePoll.                                                             *)

\* What no statement of handlePoll touches.
notPoll == <<sessions, closed, peer, sent, wire, rpc, line>>

\* getSession: from here on the request has the session, in the map or not.
handlePoll(p, s) ==
    /\ poll[p] = NoPoll
    /\ s \in sessions
    /\ poll' = [poll EXCEPT ![p] = [pc |-> "collect", sid |-> s, msgs |-> <<>>]]
    /\ UNCHANGED <<notPoll, messages, answered>>

Goto(p, pc) == poll' = [poll EXCEPT ![p].pc = pc]

\* Mutant: a poll looks at the line and takes it out of the channel later.
ReceivePeek(p, s) ==
    /\ messages[s] # <<>>
    /\ \E left \in {messages[s], Tail(messages[s])} : messages' = [messages EXCEPT ![s] = left]
    /\ poll' = [poll EXCEPT ![p].msgs = Append(@, Head(messages[s])), ![p].pc = "reply"]

\* <-s.messages; the outer select goes on until the answer has Batch lines.
Receive(p, s) ==
    /\ messages[s] # <<>>
    /\ messages' = [messages EXCEPT ![s] = Tail(@)]
    /\ poll' = [poll EXCEPT ![p].msgs = Append(@, Head(messages[s])),
                            ![p].pc = IF Len(poll[p].msgs) + 1 >= Batch /\ @ = "collect"
                                      THEN "reply" ELSE "collect"]

\* The outer select. Both channels may be ready, and then either is taken; default is
\* when neither is.
Collect(p) ==
    /\ poll[p].pc = "collect"
    /\ LET s == poll[p].sid IN
       \/ closed[s] /\ Goto(p, "reply") /\ messages' = messages
       \/ Receive(p, s)
       \/ /\ ~closed[s] /\ messages[s] = <<>>
          /\ Goto(p, IF poll[p].msgs = <<>> THEN "wait" ELSE "reply")
          /\ messages' = messages
    /\ UNCHANGED <<notPoll, answered>>

\* Mutant: the inner select has no case for the timer.
PollTimerNever(p) == FALSE /\ Goto(p, "reply")

\* case <-timer.C, twelve seconds after the request began.
Timer(p) == Goto(p, "reply")

\* The inner select.
Wait(p) ==
    /\ poll[p].pc = "wait"
    /\ LET s == poll[p].sid IN
       \/ closed[s] /\ Goto(p, "reply") /\ messages' = messages
       \/ Receive(p, s)
       \/ Timer(p) /\ messages' = messages
    /\ UNCHANGED <<notPoll, answered>>

\* writeJSON; its error is dropped, so a browser that has gone loses these lines.
Reply(p) ==
    /\ poll[p].pc = "reply"
    /\ answered' = [answered EXCEPT ![poll[p].sid] = @ \cup ToSet(poll[p].msgs)]
    /\ poll' = [poll EXCEPT ![p] = NoPoll]
    /\ UNCHANGED <<notPoll, messages>>

-----------------------------------------------------------------------------
GatewayNext ==
    \/ \E s \in Sids :
          \/ ServerSends(s)
          \/ ServerEnds(s)
          \/ handleConnect(s)
          \/ handleClose(s)
          \/ readTCPToChannel(s)
          \/ \E p \in Polls : handlePoll(p, s)
    \/ \E p \in Polls : Collect(p) \/ Wait(p) \/ Reply(p)

\* The reader and the polls run when they can, and the timer of a poll fires. Nothing is
\* assumed of the server or of the browser.
GatewayFairness ==
    /\ \A s \in Sids : WF_gatewayVars(readTCPToChannel(s))
    /\ \A p \in Polls : WF_gatewayVars(Collect(p) \/ Wait(p) \/ Reply(p))

GatewaySpec == GatewayInit /\ [][GatewayNext]_gatewayVars

-----------------------------------------------------------------------------
(* Properties.                                                             *)

\* The lines on their way to a poll, oldest first. What a reader that has ended leaves in the
\* socket is lost.
Backlog(s) ==
    messages[s] \o CASE rpc[s] = "select" -> <<line[s]>> \o wire[s]
                     [] rpc[s] = "done" -> <<>>
                     [] OTHER -> wire[s]

\* The lines that polls hold.
Collected(s) == UNION {ToSet(poll[p].msgs) : p \in {q \in Polls : poll[q].sid = s}}

\* As long as handleClose is not called, every line the server has sent is in an answer, in
\* a poll or on its way to one, also after the server has ended the connection: neither a
\* full channel nor the end of the stream loses any.
NothingLost ==
    \A s \in sessions : answered[s] \cup Collected(s) \cup ToSet(Backlog(s)) = 1 .. sent[s]

\* No line is in two answers, and an answer has its lines in the order of the server,
\* however many polls compete for the channel: what is still to come is newer than
\* anything any poll has taken.
InOrderOnce ==
    /\ \A s \in Sids :
          \A i, j \in DOMAIN Backlog(s) : i < j => Backlog(s)[i] < Backlog(s)[j]
    /\ \A s \in Sids : \A n \in ToSet(Backlog(s)) :
          \A m \in answered[s] \cup Collected(s) : m < n
    /\ \A p \in Polls : \A i, j \in DOMAIN poll[p].msgs :
          i < j => poll[p].msgs[i] < poll[p].msgs[j]
    /\ \A p, q \in Polls : p # q /\ poll[p].sid = poll[q].sid =>
          ToSet(poll[p].msgs) \cap ToSet(poll[q].msgs) = {}
    /\ \A p \in Polls : poll[p].pc # "idle" =>
          ToSet(poll[p].msgs) \cap answered[poll[p].sid] = {}

\* Every poll is answered: at once with what there is, or when the timer fires, although other
\* polls may empty the channel under it.
PollReturns == \A p \in Polls : poll[p].pc # "idle" ~> poll[p].pc = "idle"

\* Whoever closes a session, its reader ends, although it may be waiting for room in a channel
\* that nobody reads any more.
ReaderEnds == \A s \in Sids : closed[s] ~> rpc[s] = "done"
=============================================================================
