------------------------------ MODULE MCWebApi ------------------------------
(***************************************************************************)
(* Small instances of the two components behind the HTTP API that keep to  *)
(* themselves: a limiter and the history of a conversation.  They share no *)
(* state, so a behaviour runs one of them while the other rests in an      *)
(* initial state.                                                          *)
(***************************************************************************)
EXTENDS RateLimiter, History

CONSTANTS a1, a2

TwoKeys == {a1, a2}
ZeroToTwo == 0 .. 2

VARIABLE part   \* the component that runs

ApiInit ==
    /\ part \in {"limiter", "history"}
    /\ LimiterInit
    /\ part = "history" => limit = 0 /\ reply.key = a1
    /\ Init

ApiNext ==
    \/ part = "limiter" /\ LimiterNext /\ UNCHANGED <<part, vars>>
    \/ part = "history" /\ Next /\ UNCHANGED <<part, limiterVars>>

ApiSpec == ApiInit /\ [][ApiNext]_<<part, limiterVars, vars>> /\ Fairness
=============================================================================
