----------------------------- MODULE CliClient -----------------------------
(***************************************************************************)
(* The command line client cmd/client/main.go and, as far as its           *)
(* connection sees it, the server behind it (Handler, Online and DoMessage *)
(* of internal/server).                                                    *)
(*                                                                         *)
(* The client logs in before it shows its menu: it sends a line, reads one *)
(* line and looks for the words of success in it. Only after that does it  *)
(* start the goroutine that copies what the server sends to the screen.    *)
(* The server puts every connection into OnlineMap when it accepts it, so  *)
(* broadcasts reach the client from then on.                               *)
(***************************************************************************)
EXTENDS Naturals, Sequences, SequencesExt

CONSTANTS
    MaxTalk,    \* bound: lines that other users cause
    MaxCommands \* bound: lines that the client sends

\* What a line from the server is: the announcement of a connection or a login, something that
\* another user said, perhaps with the words of success in it, or one of the answers.
\* Answers end in a newline of their own, so an empty line follows each.
Lines == {"online", "chat", "quote", "ok", "registered", "refused", "blank"}

VARIABLES
    accepted,   \* Server.Handler: "online" until it has announced the connection, then "serving"
    ended,      \* the server has closed the connection (idle timeout)
    isAuth,     \* User.IsAuthenticated
    up,         \* lines from the client that the server has not handled
    down,       \* lines from the server that the client has not read
    talk,       \* lines of others so far
    sent,       \* lines of the client so far
    pc,         \* Run: "auth" (authMenu), "answer" (in ReadString), "menu" or "exit"
    asked,      \* the command whose answer is awaited, or was last
    buffer,     \* lines in c.reader that ReadString has not returned
    listening   \* DealResponse runs

vars == <<accepted, ended, isAuth, up, down, talk, sent, pc, asked, buffer, listening>>

client == <<pc, asked, buffer, listening, sent>>
server == <<accepted, ended, isAuth, talk>>

Init ==
    /\ accepted = "online"
    /\ ended = FALSE
    /\ isAuth = FALSE
    /\ up = <<>>
    /\ down = <<>>
    /\ talk = 0
    /\ sent = 0
    /\ pc = "auth"
    /\ asked = "none"
    /\ buffer = <<>>
    /\ listening = FALSE

-----------------------------------------------------------------------------
(* The server.                                                             *)

\* Handler: Online has stored the user, its BroadCast reaches the user itself; then the
\* reader starts.
AnnounceConnection ==
    /\ accepted = "online"
    /\ accepted' = "serving"
    /\ down' = Append(down, "online")
    /\ UNCHANGED <<ended, isAuth, talk, up, client>>

\* fanoutTCP on behalf of somebody else.
OthersTalk(l) ==
    /\ ~ended
    /\ talk < MaxTalk
    /\ talk' = talk + 1
    /\ down' = Append(down, l)
    /\ UNCHANGED <<accepted, ended, isAuth, up, client>>

\* DoMessage: what the user gets for a command. An accepted login is announced to everybody,
\* the user included, before it is answered; other commands of a user who is logged in
\* may be answered or not.
Answers(cmd) ==
    IF isAuth THEN {<<>>, <<"chat", "blank">>}
    ELSE CASE cmd = "login" -> {<<"online", "ok", "blank">>, <<"refused", "blank">>}
           [] cmd = "register" -> {<<"registered", "blank">>, <<"refused", "blank">>}
           [] OTHER -> {<<"refused", "blank">>}

DoMessage ==
    /\ accepted = "serving" /\ ~ended
    /\ up # <<>>
    /\ up' = Tail(up)
    /\ \E answer \in Answers(Head(up)) :
          /\ down' = down \o answer
          /\ isAuth' = (isAuth \/ Contains(answer, "ok"))
    /\ UNCHANGED <<accepted, ended, talk, client>>

\* The idle timeout: what was written is still read, then the stream ends.
ServerEnds ==
    /\ accepted = "serving" /\ ~ended
    /\ ended' = TRUE
    /\ UNCHANGED <<accepted, isAuth, talk, up, down, client>>

-----------------------------------------------------------------------------
(* The client.                                                             *)

Send(cmd) ==
    /\ sent < MaxCommands
    /\ sent' = sent + 1
    /\ up' = Append(up, cmd)

\* authMenu, doLogin and doRegister up to the Flush.
authMenu(cmd) ==
    /\ pc = "auth"
    /\ Send(cmd)
    /\ asked' = cmd
    /\ pc' = "answer"
    /\ UNCHANGED <<server, down, buffer, listening>>

\* A choice of 0, or anything that is no choice.
Quit ==
    /\ pc = "auth"
    /\ pc' = "exit"
    /\ UNCHANGED <<server, up, down, asked, buffer, listening, sent>>

\* The reader takes whatever has arrived, at least one line, into its buffer.
Fill ==
    /\ pc = "answer"
    /\ buffer = <<>>
    /\ \E n \in 1 .. Len(down) :
          /\ buffer' = SubSeq(down, 1, n)
          /\ down' = SubSeq(down, n + 1, Len(down))
    /\ UNCHANGED <<server, up, pc, asked, listening, sent>>

\* strings.Contains(resp, ...): a login goes on to the menu, a registration back to
\* authMenu; on any other line Run returns.
AfterAnswer(cmd, l) ==
    CASE cmd = "login" /\ l \in {"ok", "quote"} -> "menu"
      [] cmd = "register" /\ l = "registered" -> "auth"
      [] OTHER -> "exit"

\* ReadString returns the first line in the buffer, which is taken for the answer.
ReadAnswer ==
    /\ pc = "answer"
    /\ buffer # <<>>
    /\ buffer' = Tail(buffer)
    /\ pc' = AfterAnswer(asked, Head(buffer))
    /\ listening' = (pc' = "menu")
    /\ UNCHANGED <<server, up, down, asked, sent>>

\* ReadString fails: the stream has ended.
ReadFails ==
    /\ pc = "answer"
    /\ ended /\ down = <<>> /\ buffer = <<>>
    /\ pc' = "exit"
    /\ UNCHANGED <<server, up, down, asked, buffer, listening, sent>>

\* PublicChat, Privatechat, GroupChat, UpdateName, SearchUsers.
MenuCommand ==
    /\ pc = "menu"
    /\ Send("command")
    /\ UNCHANGED <<server, down, pc, asked, buffer, listening>>

Leave ==
    /\ pc = "menu"
    /\ pc' = "exit"
    /\ UNCHANGED <<server, up, down, asked, buffer, listening, sent>>

\* DealResponse copies from the connection, past what c.reader has buffered.
DealResponse ==
    /\ listening /\ pc = "menu"
    /\ down # <<>>
    /\ down' = Tail(down)
    /\ UNCHANGED <<server, up, client>>

Next ==
    \/ AnnounceConnection
    \/ \E l \in {"chat", "quote"} : OthersTalk(l)
    \/ DoMessage
    \/ ServerEnds
    \/ \E cmd \in {"login", "register"} : authMenu(cmd)
    \/ Quit
    \/ Fill
    \/ ReadAnswer
    \/ ReadFails
    \/ MenuCommand
    \/ Leave
    \/ DealResponse

Spec == Init /\ [][Next]_vars

-----------------------------------------------------------------------------
(* Properties.                                                             *)

\* doLogin: "read the server's response". When the line that the client takes for the answer to
\* its login makes it give up, the server has not accepted that login. Leaving later,
\* from the menu, is no giving up.
GivesUpOnlyIfRefused ==
    [][pc = "answer" /\ pc' = "exit" /\ asked = "login" /\ ~ended => ~isAuth]_vars
=============================================================================
