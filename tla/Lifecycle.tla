----------------------------- MODULE Lifecycle -----------------------------
(***************************************************************************)
(* Start-up and shutdown: main.go with New, Start, StartWeb, Shutdown,     *)
(* cleanupSessions and startBusReceiver of internal/server.                *)
(*                                                                         *)
(* Three goroutines are counted in Server.wg: "tcp" (Start), "web"         *)
(* (StartWeb) and "bg", which is the cleaner of the in-memory sessions or  *)
(* the receiver of the bus. main waits for a signal, then for Shutdown or  *)
(* for fifteen seconds. Shutdown and the two servers share the fields      *)
(* tcpListener and webListener without any lock: a step of theirs is one   *)
(* access to such a field.                                                 *)
(***************************************************************************)
EXTENDS Naturals

CONSTANT MaxConns   \* bound: connections accepted on each listener

ASSUME LifecycleAssumption == MaxConns \in Nat

Servers == {"tcp", "web"}
Workers == Servers \cup {"bg"}

VARIABLES
    usesBus,    \* cfg.App.SessionBackend = "redis": "bg" is the receiver of the bus
    pc,         \* the goroutines in wg: "new", "bound" (listening, the field not yet set),
                \* "serve", "ending" (Serve has returned) and "done"
    open,       \* the listening socket: "none", "open" or "closed"
    field,      \* whether Server.tcpListener and Server.webListener are set
    ctxDone,    \* s.cancel() was called
    busClosed,  \* s.bus.Close() was called
    dbClosed,   \* s.DB.Close() was called
    down,       \* the statement that Shutdown has reached
    main,       \* main: "run", "select" after the signal, or how the process ended
    conns,      \* connections accepted so far on each listener
    missed,     \* history: servers whose listener Shutdown looked for before it was set
    late,       \* history: servers that accepted a connection after the database was closed
    failed      \* history: http.Serve returned while its listener was open

vars == <<usesBus, pc, open, field, ctxDone, busClosed, dbClosed, down, main, conns, missed, late,
          failed>>

DownLabels == {"idle", "lookWeb", "closeWeb", "lookTcp", "closeTcp", "stores", "db", "wait",
               "returned"}
MainLabels == {"run", "select", "done", "timeout", "panic"}

\* The process exists until main returns or a goroutine panics.
Running == main \in {"run", "select"}

-----------------------------------------------------------------------------
\* New has opened the stores and started "bg"; main has added Start and StartWeb to wg.
Init ==
    /\ usesBus \in BOOLEAN
    /\ pc = [w \in Workers |-> IF w = "bg" THEN "serve" ELSE "new"]
    /\ open = [s \in Servers |-> "none"]
    /\ field = [s \in Servers |-> FALSE]
    /\ ctxDone = FALSE
    /\ busClosed = FALSE
    /\ dbClosed = FALSE
    /\ down = "idle"
    /\ main = "run"
    /\ conns = [s \in Servers |-> 0]
    /\ missed = {}
    /\ late = {}
    /\ failed = FALSE

Step(w, from, to) == pc[w] = from /\ pc' = [pc EXCEPT ![w] = to]

\* What the servers do not touch.
notServer == <<usesBus, ctxDone, busClosed, dbClosed, down, main, missed>>

\* listenWithFallback or tls.Listen: it tries up to twenty ports and returns a listener or
\* an error, upon which the goroutine ends.
Listen(s) ==
    /\ \/ Step(s, "new", "bound") /\ open' = [open EXCEPT ![s] = "open"]
       \/ Step(s, "new", "done") /\ open' = open
    /\ UNCHANGED <<field, conns, late, failed, notServer>>

\* s.tcpListener = listener, s.webListener = listener.
SetListener(s) ==
    /\ Step(s, "bound", "serve")
    /\ field' = [field EXCEPT ![s] = TRUE]
    /\ UNCHANGED <<open, conns, late, failed, notServer>>

\* Accept returned a connection, whose handler is not counted in wg.
Accept(s) ==
    /\ pc[s] = "serve"
    /\ open[s] = "open"
    /\ conns[s] < MaxConns
    /\ conns' = [conns EXCEPT ![s] = @ + 1]
    /\ late' = IF dbClosed THEN late \cup {s} ELSE late
    /\ UNCHANGED <<pc, open, field, failed, notServer>>

\* Mutant: Start goes on accepting after an error, whatever the context says.
AcceptEndsNever == FALSE /\ Step("tcp", "serve", "done")

\* Start: Accept failed, on a closed listener or for a reason of its own. Start returns if
\* the context is done, and otherwise tries again.
AcceptEnds == Step("tcp", "serve", "done") /\ ctxDone

StartEnds ==
    /\ AcceptEnds
    /\ UNCHANGED <<open, field, conns, late, failed, notServer>>

\* StartWeb: http.Serve returns because its listener was closed, or on an error of Accept
\* that it takes for permanent ...
ServeEnds ==
    /\ Step("web", "serve", "ending")
    /\ failed' = (failed \/ open["web"] = "open")
    /\ open' = [open EXCEPT !["web"] = "closed"]
    /\ UNCHANGED <<field, conns, late, notServer>>

\* ... and the deferred function sets the field to nil.
ClearListener ==
    /\ Step("web", "ending", "done")
    /\ field' = [field EXCEPT !["web"] = FALSE]
    /\ UNCHANGED <<open, conns, late, failed, notServer>>

\* cleanupSessions ends with the context. The receiver sits in a read of the subscription
\* and looks at the context when that fails: once the bus is closed, or when Redis is lost.
BackgroundEnds ==
    /\ Step("bg", "serve", "done")
    /\ ctxDone
    /\ UNCHANGED <<open, field, conns, late, failed, notServer>>

-----------------------------------------------------------------------------
(* main and Shutdown.                                                      *)

\* What main and Shutdown do not touch.
notMain == <<usesBus, pc, field, conns, late, failed>>

\* Mutant: Shutdown closes the database before the listeners.
CancelAndCloseDB == ctxDone' = TRUE /\ dbClosed' = TRUE

\* s.cancel().
Cancel == ctxDone' = TRUE /\ dbClosed' = dbClosed

\* SIGINT or SIGTERM: main starts the goroutine that calls Shutdown.
Signal ==
    /\ main = "run"
    /\ main' = "select"
    /\ Cancel
    /\ down' = "lookWeb"
    /\ UNCHANGED <<open, busClosed, missed, notMain>>

\* Mutant: the test for nil the wrong way round.
LookInverted(s, from, toClose, next) ==
    /\ down = from
    /\ down' = IF field[s] THEN next ELSE toClose
    /\ missed' = IF pc[s] \in {"new", "bound"} THEN missed \cup {s} ELSE missed
    /\ UNCHANGED <<open, ctxDone, busClosed, dbClosed, main, notMain>>

\* if s.webListener != nil, if s.tcpListener != nil: a field that is not set yet is passed
\* over.
Look(s, from, toClose, next) ==
    /\ down = from
    /\ down' = IF field[s] THEN toClose ELSE next
    /\ missed' = IF pc[s] \in {"new", "bound"} THEN missed \cup {s} ELSE missed
    /\ UNCHANGED <<open, ctxDone, busClosed, dbClosed, main, notMain>>

\* s.webListener.Close(), s.tcpListener.Close(): the field is read again, and a nil panics.
CloseListener(s, from, next) ==
    /\ down = from
    /\ \/ /\ field[s]
          /\ open' = [open EXCEPT ![s] = "closed"]
          /\ down' = next
          /\ main' = main
       \/ /\ ~field[s]
          /\ main' = "panic"
          /\ UNCHANGED <<open, down>>
    /\ UNCHANGED <<ctxDone, busClosed, dbClosed, missed, notMain>>

\* s.Sessions.Close(), s.bus.Close().
CloseStores ==
    /\ down = "stores"
    /\ busClosed' = usesBus
    /\ down' = "db"
    /\ UNCHANGED <<open, ctxDone, dbClosed, main, missed, notMain>>

\* s.DB.Close().
CloseDB ==
    /\ down = "db"
    /\ dbClosed' = TRUE
    /\ down' = "wait"
    /\ UNCHANGED <<open, ctxDone, busClosed, main, missed, notMain>>

\* s.wg.Wait() returns when every goroutine has called Done.
WgWait ==
    /\ down = "wait"
    /\ \A w \in Workers : pc[w] = "done"
    /\ down' = "returned"
    /\ UNCHANGED <<open, ctxDone, busClosed, dbClosed, main, missed, notMain>>

Shutdown ==
    \/ Look("web", "lookWeb", "closeWeb", "lookTcp")
    \/ CloseListener("web", "closeWeb", "lookTcp")
    \/ Look("tcp", "lookTcp", "closeTcp", "stores")
    \/ CloseListener("tcp", "closeTcp", "stores")
    \/ CloseStores
    \/ CloseDB
    \/ WgWait

\* case <-done.
Done ==
    /\ main = "select"
    /\ down = "returned"
    /\ main' = "done"
    /\ UNCHANGED <<open, ctxDone, busClosed, dbClosed, down, missed, notMain>>

\* case <-time.After(15 * time.Second).
Timeout ==
    /\ main = "select"
    /\ main' = "timeout"
    /\ UNCHANGED <<open, ctxDone, busClosed, dbClosed, down, missed, notMain>>

ServerSteps(s) ==
    \/ Listen(s)
    \/ SetListener(s)
    \/ s = "web" /\ ClearListener

Next ==
    /\ Running
    /\ \/ \E s \in Servers : ServerSteps(s) \/ Accept(s)
       \/ StartEnds
       \/ ServeEnds
       \/ BackgroundEnds
       \/ Signal
       \/ Shutdown
       \/ Done
       \/ Timeout

\* Goroutines run when they can; a call that blocks on a listener returns once it is closed,
\* and the receiver's once the bus is. Neither signals nor connections have to come, and
\* nothing has to fail.
Fairness ==
    /\ \A s \in Servers : WF_vars(Running /\ ServerSteps(s))
    /\ WF_vars(Running /\ open["tcp"] = "closed" /\ StartEnds)
    /\ WF_vars(Running /\ open["web"] = "closed" /\ ServeEnds)
    /\ WF_vars(Running /\ (usesBus => busClosed) /\ BackgroundEnds)
    /\ WF_vars(Running /\ (Shutdown \/ Done))

Spec == Init /\ [][Next]_vars

-----------------------------------------------------------------------------
(* Properties.                                                             *)

\* Every variable has the type of what it models.
TypeOK ==
    /\ usesBus \in BOOLEAN
    /\ pc \in [Workers -> {"new", "bound", "serve", "ending", "done"}]
    /\ open \in [Servers -> {"none", "open", "closed"}]
    /\ field \in [Servers -> BOOLEAN]
    /\ ctxDone \in BOOLEAN /\ busClosed \in BOOLEAN /\ dbClosed \in BOOLEAN
    /\ failed \in BOOLEAN
    /\ down \in DownLabels
    /\ main \in MainLabels
    /\ conns \in [Servers -> 0 .. MaxConns]
    /\ missed \in SUBSET Servers
    /\ late \in SUBSET Servers

\* Shutdown closes the listeners before it closes the database: nobody is let in whose requests
\* would all fail, except through a listener that came up while Shutdown was looking for it.
LateOnlyIfMissed == late \subseteq missed

\* wg.Wait returns: every goroutine in it notices the closed listener, the cancelled context
\* or the closed bus in whatever state Shutdown meets it. The exception is a server whose
\* listener Shutdown passed over because it was not there yet: it goes on serving.
ShutdownReturns ==
    down = "wait" ~> (down = "returned" \/ ~Running \/ \E s \in missed : pc[s] = "serve")

\* The field of the web listener is read twice without a lock. The second read meets nil, and
\* the process panics in its shutdown, only if http.Serve had given up by itself.
PanicOnlyIfServeFailed == main = "panic" => failed
=============================================================================
