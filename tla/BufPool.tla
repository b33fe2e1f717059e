------------------------------- MODULE BufPool ------------------------------
(***************************************************************************)
(* The memory of lars_reactor: the pool of blocks (buf_pool.cpp), a block  *)
(* (io_buf.cpp) and the buffers that connections keep in blocks            *)
(* (reactor_buf.cpp), as operators on values.                              *)
(*                                                                         *)
(* A pool is a record: idle[c] blocks of capacity c in its lists, made[c]  *)
(* blocks made so far, and _total_mem, what the pool thinks they take.  A  *)
(* buffer is NoBlock, or a block with its capacity, the offset head of its *)
(* first used byte, and the bytes from there on.  The mutex of the pool    *)
(* makes alloc_buf and revert one step each.                               *)
(***************************************************************************)
EXTENDS Naturals, Sequences, FiniteSets, FiniteSetsExt

CONSTANTS Caps,     \* MEM_CAP: the capacities of blocks
          Num,      \* the number of blocks of each capacity the pool counts
          MemLimit  \* EXTRA_MEM_LIMIT, in the unit of Caps

ASSUME BufPoolConstants ==
    /\ Caps \subseteq Nat \ {0} /\ IsFiniteSet(Caps) /\ Caps # {}
    /\ Num \in Nat /\ MemLimit \in Nat

NoBlock == [cap |-> 0, head |-> 0, data |-> << >>]

MaxCap == Max(Caps)

Total(count) == MapThenSumSet(LAMBDA c : c * count[c], Caps)

(* buf_pool(): each list gets one block more than make_io_buf_list counts. *)
MakePool ==
    LET blocks == [c \in Caps |-> Num + 1]
    IN  [idle |-> blocks, made |-> blocks,
         _total_mem |-> Total([c \in Caps |-> Num])]

(* The blocks that the pool starts with are within its limit. *)
ASSUME PoolFits == Total([c \in Caps |-> Num]) < MemLimit

(* The list alloc_buf takes a block for n bytes from. *)
CapFor(n) == Min({c \in Caps : c >= n})

TooLarge(n) == n > MaxCap

(* alloc_buf exits: the list is empty, and a new block is over the limit. *)
Exhausted(pool, n) ==
    /\ ~TooLarge(n)
    /\ pool.idle[CapFor(n)] = 0
    /\ pool._total_mem + CapFor(n) >= MemLimit

(* Mutant: a new block is not added to _total_mem. *)
AllocBufUncounted(pool, n) ==
    LET c == CapFor(n) IN
    IF pool.idle[c] = 0 THEN [pool EXCEPT !.made[c] = @ + 1]
    ELSE [pool EXCEPT !.idle[c] = @ - 1]

(* The pool after alloc_buf(n) has handed out a block. *)
AllocBuf(pool, n) ==
    LET c == CapFor(n) IN
    IF pool.idle[c] = 0
    THEN [pool EXCEPT !.made[c] = @ + 1, !._total_mem = @ + c]
    ELSE [pool EXCEPT !.idle[c] = @ - 1]

(* revert: the block goes to the list of its capacity. *)
Revert(pool, buf) ==
    IF buf = NoBlock THEN pool ELSE [pool EXCEPT !.idle[buf.cap] = @ + 1]

(***************************************************************************)
(* What an operation on a buffer leaves: the buffer, the pool, and how it  *)
(* ended: "ok", "null" (no block: the call returns -1), "exit" (the pool   *)
(* ends the process) or "assert" (an assertion does).                      *)
(***************************************************************************)
Outcome(buf, pool, end) == [buf |-> buf, pool |-> pool, end |-> end]

(* Mutant: the bytes that are already there are not counted. *)
ReserveShort(buf, pool, n) ==
    CASE buf.head # 0 -> Outcome(buf, pool, "assert")
      [] buf.head = 0 /\ buf # NoBlock /\ buf.cap >= n -> Outcome(buf, pool, "ok")
      [] OTHER ->
           CASE TooLarge(n) -> Outcome(buf, pool, "null")
             [] Exhausted(pool, n) -> Outcome(buf, pool, "exit")
             [] OTHER -> Outcome([buf EXCEPT !.cap = CapFor(n)],
                                 Revert(AllocBuf(pool, n), buf), "ok")

(***************************************************************************)
(* Make room for n bytes behind those in buf, in a larger block if need    *)
(* be: the common part of read_data and send_data.                         *)
(***************************************************************************)
Reserve(buf, pool, n) ==
    LET want == Len(buf.data) + n IN
    CASE buf.head # 0 -> Outcome(buf, pool, "assert")
      [] buf.head = 0 /\ buf # NoBlock /\ buf.cap >= want -> Outcome(buf, pool, "ok")
      [] OTHER ->
           CASE TooLarge(want) -> Outcome(buf, pool, "null")
             [] Exhausted(pool, want) -> Outcome(buf, pool, "exit")
             [] OTHER -> Outcome([buf EXCEPT !.cap = CapFor(want)],
                                 Revert(AllocBuf(pool, want), buf), "ok")

Extend(buf, bytes) == [buf EXCEPT !.data = @ \o bytes]

(* output_buf::send_data *)
SendData(buf, pool, bytes) ==
    LET r == Reserve(buf, pool, Len(bytes))
    IN  IF r.end = "ok" THEN [r EXCEPT !.buf = Extend(@, bytes)] ELSE r

(* reactor_buf::pop: a block that becomes empty goes back to the pool. *)
Pop(buf, pool, n) ==
    IF buf = NoBlock \/ n > Len(buf.data) THEN Outcome(buf, pool, "assert")
    ELSE LET rest == [buf EXCEPT !.head = @ + n,
                                 !.data = SubSeq(@, n + 1, Len(@))]
         IN  IF rest.data = << >> THEN Outcome(NoBlock, Revert(pool, buf), "ok")
             ELSE Outcome(rest, pool, "ok")

(* io_buf::adjust *)
Adjust(buf) == [buf EXCEPT !.head = 0]

(* After write2fd has written n bytes; the buffer keeps an empty block. *)
Written(buf, n) == [buf EXCEPT !.data = SubSeq(@, n + 1, Len(@))]

-----------------------------------------------------------------------------
(***************************************************************************)
(* No block is lost or in two places: what is not in the pool's lists is   *)
(* what the buffers in bufs own and held[c] blocks of other connections.   *)
(***************************************************************************)
Accounted(pool, bufs, held) ==
    \A c \in Caps : pool.idle[c] + held[c] + Cardinality({i \in DOMAIN bufs : bufs[i].cap = c})
                      = pool.made[c]

(***************************************************************************)
(* "The total must not exceed EXTRA_MEM_LIMIT": it does not, but for the   *)
(* one block of each list that make_io_buf_list does not count.            *)
(***************************************************************************)
WithinLimit(pool) == Total(pool.made) < MemLimit + Total([c \in Caps |-> 1])
=============================================================================
