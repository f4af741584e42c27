------------------------------- MODULE MCTcp -------------------------------
(* Small instances: connections and descriptors are interchangeable, but   *)
(* the liveness checks rule symmetry out.                                  *)
EXTENDS TcpServer

CONSTANTS c1, c2, c3, f1, f2

Conns == {c1, c2, c3}
Fds == {f1, f2}
=============================================================================
