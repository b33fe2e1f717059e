---------------------------- MODULE MCDnsService ----------------------------
(***************************************************************************)
(* Small instances of DnsService.                                          *)
(***************************************************************************)
EXTENDS DnsService

CONSTANTS f1, m1, m2

OneFd == {f1}

OneMod == {m1}

TwoMods == {m1, m2}

Nothing == {}

Everything == {"statements", "db error", "overlap", "boot", "second", "full"}
=============================================================================
