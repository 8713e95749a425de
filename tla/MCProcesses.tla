---------------------------- MODULE MCProcesses -----------------------------
(***************************************************************************)
(* Small instances of the two programs as processes: the start-up and      *)
(* shutdown of the chat server, and the gateway.  They share no state, so  *)
(* a behaviour runs one of them while the other rests in an initial state. *)
(***************************************************************************)
EXTENDS Lifecycle, Gateway

CONSTANTS s1, p1, p2

OneSid == {s1}
TwoPolls == {p1, p2}

VARIABLE program    \* the one that runs

ProcessInit ==
    /\ program \in {"server", "gateway"}
    /\ Init
    /\ program = "gateway" => ~usesBus
    /\ GatewayInit

ProcessNext ==
    \/ program = "server" /\ Next /\ UNCHANGED <<program, gatewayVars>>
    \/ program = "gateway" /\ GatewayNext /\ UNCHANGED <<program, vars>>

ProcessSpec ==
    /\ ProcessInit
    /\ [][ProcessNext]_<<program, vars, gatewayVars>>
    /\ program = "server" => Fairness
    /\ program = "gateway" => GatewayFairness
=============================================================================
