----------------------------- MODULE MCStorage -----------------------------
(* Small instances of Storage for TLC. *)
EXTENDS Storage, TLC

CONSTANTS r1, r2, r3, u1, u2, g1

ThreeRequests == {r1, r2, r3}
TwoUsers == {u1, u2}
OneGroup == {g1}

Symmetry == Permutations(ThreeRequests) \cup Permutations(TwoUsers)
=============================================================================
