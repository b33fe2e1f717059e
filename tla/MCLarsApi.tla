----------------------------- MODULE MCLarsApi ------------------------------
(***************************************************************************)
(* Small instances of LarsApi.                                             *)
(***************************************************************************)
EXTENDS LarsApi

CONSTANTS c1, c2, host, other

TwoClients == {c1, c2}

OneAnswer == {host}

(* With two, bytes that parse to an answer need not be the answer. *)
TwoAnswers == {host, other}

Everything == {"loss", "sendto", "EINTR"}
=============================================================================
