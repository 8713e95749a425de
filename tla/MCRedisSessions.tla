-------------------------- MODULE MCRedisSessions --------------------------
(* A small instance of RedisSessions for TLC. *)
EXTENDS RedisSessions, TLC

CONSTANTS t1, t2, alice, bob, r1, r2

TwoTokens == {t1, t2}
TwoNames == {alice, bob}
TwoRequests == {r1, r2}
EverAndShort == {0, 6}

Symmetry == Permutations(TwoTokens) \cup Permutations(TwoNames) \cup Permutations(TwoRequests)
=============================================================================
