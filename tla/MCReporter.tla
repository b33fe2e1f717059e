----------------------------- MODULE MCReporter -----------------------------
(***************************************************************************)
(* A small instance of Reporter.                                           *)
(***************************************************************************)
EXTENDS Reporter

CONSTANTS a1, a2, w1, w2

TwoAgents == {a1, a2}

OneAgent == {a1}

TwoWorkers == {w1, w2}

Everything == {"slow", "refuse", "close", "short", "fatal", "query"}
=============================================================================
