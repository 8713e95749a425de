---------------------------- MODULE MCWsClients ----------------------------
(* Small instances of WsClients for TLC. *)
EXTENDS WsClients, TLC

CONSTANTS w1, w2, w3, q1, q2, t1, alice, nick

ThreeClients == {w1, w2, w3}
TwoRequests == {q1, q2}
OneToken == {t1}
Alice == {alice}
Nick == {nick}
=============================================================================
