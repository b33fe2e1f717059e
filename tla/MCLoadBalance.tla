--------------------------- MODULE MCLoadBalance ----------------------------
(***************************************************************************)
(* Small instances of LoadBalance.  Addresses are interchangeable: the     *)
(* allocator may hand out any of them.                                     *)
(***************************************************************************)
EXTENDS LoadBalance, TLC

CONSTANTS a1, a2, a3

TwoKeys == {1, 2}

ThreeKeys == {1, 2, 3}

ThreeAddrs == {a1, a2, a3}

AddrSymmetry == Permutations(Addrs)

(* Garbage below zero, inside and above the range 0..ProbeNum. *)
AnyAccessCnt == {-1, 1, 3}

ZeroAccessCnt == {0}
=============================================================================
