----------------------------- MODULE MCTcpUsers -----------------------------
(* Small instances of TcpUsers for TLC. *)
EXTENDS TcpUsers, TLC

CONSTANTS c1, c2, alice, bob

TwoConns == {c1, c2}
OneConn == {c1}
TwoNames == {alice, bob}
Alice == {alice}

\* Connections are interchangeable when both send lines (no run with a liveness property
\* uses this).
ConnSymmetry == Permutations(TwoConns)
==============================================================================
