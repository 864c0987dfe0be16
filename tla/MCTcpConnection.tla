--------------------------- MODULE MCTcpConnection ---------------------------
(* TcpConnection for TLC: the connections are interchangeable.              *)
EXTENDS TcpConnection, TLC

ConnSymmetry == Permutations(Conns)
=============================================================================
