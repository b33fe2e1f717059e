----------------------------- MODULE MCLbAgent ------------------------------
(***************************************************************************)
(* A small instance of LbAgent.                                            *)
(***************************************************************************)
EXTENDS LbAgent

CONSTANTS m1, m2, h1, h2

TwoMods == {m1, m2}

TwoHosts == {h1, h2}

Everything == {"early", "refuse", "close", "short", "fatal"}
=============================================================================
