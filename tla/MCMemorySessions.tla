-------------------------- MODULE MCMemorySessions --------------------------
(* A small instance of MemorySessions for TLC. *)
EXTENDS MemorySessions, TLC

CONSTANTS t1, t2, alice, bob

TwoTokens == {t1, t2}
TwoNames == {alice, bob}
=============================================================================
