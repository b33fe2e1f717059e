---------------------------- MODULE MCTcpServer -----------------------------
(***************************************************************************)
(* A small instance of TcpServer.                                          *)
(***************************************************************************)
EXTENDS TcpServer

CONSTANTS c1, c2, c3, w1, w2

ThreeClients == {c1, c2, c3}

TwoWorkers == {w1, w2}
=============================================================================
