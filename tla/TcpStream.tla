----------------------------- MODULE TcpStream ------------------------------
(***************************************************************************)
(* One end of a TCP connection between lars processes: the byte stream     *)
(* read by do_read, cut into messages and dispatched, and the messages     *)
(* that send_message puts into the output buffer and do_write writes.      *)
(* tcp_conn.cpp and tcp_client.cpp share all of this and differ in         *)
(* clean_conn, so role says which of the two the end is.  Its two buffers  *)
(* take their blocks from the pool of module BufPool, as do the            *)
(* connections of the other threads.                                       *)
(*                                                                         *)
(* A byte is <<message, offset, length of the message's body>>: the first  *)
(* HeadLen bytes of a message are its msg_head.  How tcp_client connects   *)
(* is module TcpClient; here a connection is there at once.                *)
(***************************************************************************)
EXTENDS BufPool, SequencesExt

CONSTANTS HeadLen,    \* MESSAGE_HEAD_LEN
          LenLimit,   \* MESSAGE_LENGTH_LIMIT
          InLens,     \* lengths of the bodies the peer sends
          OutLens,    \* lengths of the bodies passed to send_message
          MaxIn,      \* bound: messages the peer sends
          MaxOut,     \* bound: calls of send_message
          MaxCloses,  \* bound: connections the peer closes
          MaxHeld     \* bound: blocks held by other connections

ASSUME TcpStreamConstants ==
    /\ HeadLen \in Nat \ {0}
    /\ InLens \subseteq Nat /\ OutLens \subseteq Nat
    /\ {LenLimit, MaxIn, MaxOut, MaxCloses, MaxHeld} \subseteq Nat

VARIABLES
    role,    \* "tcp_conn" or "tcp_client"
    conn,    \* the connection: "open", "eof" (the peer closed it), "closed"
    wire,    \* bytes from the peer, not yet read
    ibuf, obuf, pool,
    armed,   \* EPOLLOUT is registered
    at,      \* do_read: "idle", "parse" (its loop), "call" (the callback)
    msglen,  \* head.msglen of the message being dispatched
    held,    \* held[c]: blocks of other connections
    dead,    \* "no", or how the process ended: "exit", "assert"
    nin, nout, closes,  \* what the bounds count
    due,     \* history: the message that is to be dispatched next
    out,     \* history: bytes written, on this connection and those it took over from
    start,   \* history: how many of them were written before this connection
    expect,  \* history: bytes of the messages that send_message accepted
    events   \* history: what has happened, see the properties

bufVars == <<ibuf, obuf, pool>>
readVars == <<at, msglen, due>>
writeVars == <<armed, out, start, expect>>
bounds == <<nin, nout, closes>>
vars == <<role, conn, wire, bufVars, readVars, writeVars, held, dead, bounds, events>>

Bytes(n, len) == [i \in 1 .. HeadLen + len |-> <<n, i, len>>]

Init ==
    /\ role \in {"tcp_conn", "tcp_client"}
    /\ conn = "open" /\ wire = << >>
    /\ ibuf = NoBlock /\ obuf = NoBlock /\ pool = MakePool
    /\ armed = FALSE
    /\ at = "idle" /\ msglen = 0
    /\ held = [c \in Caps |-> 0]
    /\ dead = "no"
    /\ nin = 0 /\ nout = 0 /\ closes = 0
    /\ due = 1 /\ out = << >> /\ start = 0 /\ expect = << >>
    /\ events = {}

Running == dead = "no"

Open == Running /\ conn # "closed"

-----------------------------------------------------------------------------
(* The peer and the other connections *)

PeerSends(len) ==
    /\ Running /\ conn = "open" /\ nin < MaxIn
    /\ wire' = wire \o Bytes(nin + 1, len)
    /\ nin' = nin + 1
    /\ UNCHANGED <<role, conn, bufVars, readVars, writeVars, held, dead, nout, closes, events>>

PeerCloses ==
    /\ Running /\ conn = "open" /\ closes < MaxCloses
    /\ conn' = "eof"
    /\ closes' = closes + 1
    /\ UNCHANGED <<role, wire, bufVars, readVars, writeVars, held, dead, nin, nout, events>>

(* Another connection takes a block ... *)
OtherTakes(c) ==
    /\ Running /\ MapThenSumSet(LAMBDA d : held[d], Caps) < MaxHeld
    /\ IF Exhausted(pool, c)
         THEN dead' = "exit" /\ UNCHANGED <<pool, held>>
         ELSE /\ pool' = AllocBuf(pool, c)
              /\ held' = [held EXCEPT ![c] = @ + 1]
              /\ UNCHANGED dead
    /\ UNCHANGED <<role, conn, wire, ibuf, obuf, readVars, writeVars, bounds, events>>

(* ... and gives it back. *)
OtherReturns(c) ==
    /\ Running /\ held[c] > 0
    /\ held' = [held EXCEPT ![c] = @ - 1]
    /\ pool' = Revert(pool, [NoBlock EXCEPT !.cap = c])
    /\ UNCHANGED <<role, conn, wire, ibuf, obuf, readVars, writeVars, dead, bounds, events>>

(* A client connects: do_accept makes a new tcp_conn. *)
Accepted ==
    /\ Running /\ conn = "closed"
    /\ conn' = "open"
    /\ due' = nin + 1
    /\ UNCHANGED <<role, wire, bufVars, writeVars, at, msglen, held, dead, bounds, events>>

-----------------------------------------------------------------------------
(* clean_conn *)

(* Mutant: tcp_conn forgets the block of its input buffer. *)
CleanConnLeaks(in, p) ==
    /\ role = "tcp_conn"
    /\ conn' = "closed" /\ armed' = FALSE
    /\ ibuf' = NoBlock /\ obuf' = NoBlock
    /\ pool' = Revert(p, obuf)
    /\ at' = "idle"
    /\ wire' = << >> /\ out' = << >> /\ start' = 0 /\ expect' = << >>
    /\ UNCHANGED <<due, events>>

(***************************************************************************)
(* clean_conn, with in the input buffer it finds and p the pool.  tcp_conn *)
(* clears its buffers and ends.  tcp_client connects again and keeps both: *)
(* the new connection goes on with the output where the old one stopped.   *)
(***************************************************************************)
CleanConn(in, p) ==
    \/ /\ role = "tcp_conn"
       /\ conn' = "closed" /\ armed' = FALSE
       /\ ibuf' = NoBlock /\ obuf' = NoBlock
       /\ pool' = Revert(Revert(p, in), obuf)
       /\ at' = "idle"
       /\ wire' = << >> /\ out' = << >> /\ start' = 0 /\ expect' = << >>
       /\ UNCHANGED <<due, events>>
    \/ /\ role = "tcp_client"
       /\ conn' = "open" /\ armed' = (obuf.data # << >>)
       /\ ibuf' = Adjust(in) /\ pool' = p /\ UNCHANGED obuf
       /\ at' = "idle"
       /\ wire' = << >>
       /\ due' = nin + 1
       /\ start' = Len(out) /\ UNCHANGED <<out, expect>>
       /\ events' = events \cup (IF in.data = << >> THEN {} ELSE {"kept input"})

-----------------------------------------------------------------------------
(* do_read *)

(* read_data finds k bytes; without a block for them, the connection goes. *)
DoRead(k) ==
    /\ Open /\ at = "idle"
    /\ LET r == Reserve(ibuf, pool, k) IN
       \/ /\ r.end = "ok"
          /\ ibuf' = Extend(r.buf, SubSeq(wire, 1, k))
          /\ pool' = r.pool
          /\ wire' = SubSeq(wire, k + 1, Len(wire))
          /\ at' = "parse"
          /\ UNCHANGED <<conn, obuf, due, writeVars, events, dead>>
       \/ r.end = "null" /\ CleanConn(ibuf, pool) /\ UNCHANGED dead
       \/ /\ r.end \in {"exit", "assert"}
          /\ dead' = r.end
          /\ UNCHANGED <<conn, wire, bufVars, at, due, writeVars, events>>
    /\ UNCHANGED <<role, msglen, held, bounds>>

(* read() returns 0, after a block was taken for nothing. *)
DoReadEof ==
    /\ Open /\ at = "idle" /\ conn = "eof" /\ wire = << >>
    /\ LET r == Reserve(ibuf, pool, 0) IN
       \/ r.end = "ok" /\ CleanConn(r.buf, r.pool) /\ UNCHANGED dead
       \/ /\ r.end # "ok"
          /\ dead' = r.end
          /\ UNCHANGED <<conn, wire, bufVars, at, due, writeVars, events>>
    /\ UNCHANGED <<role, msglen, held, bounds>>

(***************************************************************************)
(* What msglen is read from data: of a head, its field; of bytes that are  *)
(* no head, anything.                                                      *)
(***************************************************************************)
MsgLens(data) ==
    IF \A i \in 1..HeadLen : data[i] = <<data[1][1], i, data[1][3]>>
    THEN {data[1][3]} ELSE InLens

(* Mutant: what is left stays where it is. *)
LoopEndsAsIs ==
    /\ at' = "idle"
    /\ UNCHANGED <<ibuf, obuf, pool, msglen, due, conn, wire, writeVars, events>>

(* The loop of do_read ends: what is left moves to the front. *)
LoopEnds ==
    /\ at' = "idle" /\ ibuf' = Adjust(ibuf)
    /\ UNCHANGED <<obuf, pool, msglen, due, conn, wire, writeVars, events>>

(* Mutant: do_read dispatches one message per event. *)
ParseStopsEarly ==
    /\ Open /\ at = "parse"
    /\ \/ Len(ibuf.data) < HeadLen \/ ibuf.head > 0
       \/ Len(ibuf.data) >= HeadLen /\ \E len \in MsgLens(ibuf.data) :
             len <= LenLimit /\ Len(ibuf.data) < HeadLen + len
    /\ LoopEnds
    /\ UNCHANGED <<role, held, dead, bounds>>

(* The loop stops: less than a head, or less than a message, is there. *)
ParseStops ==
    /\ Open /\ at = "parse"
    /\ \/ Len(ibuf.data) < HeadLen
       \/ /\ Len(ibuf.data) >= HeadLen
          /\ \E len \in MsgLens(ibuf.data) :
                len <= LenLimit /\ Len(ibuf.data) < HeadLen + len
    /\ LoopEnds
    /\ UNCHANGED <<role, held, dead, bounds>>

(* "data format error, need close" *)
ParseError ==
    /\ Open /\ at = "parse" /\ Len(ibuf.data) >= HeadLen
    /\ \E len \in MsgLens(ibuf.data) : len > LenLimit
    /\ CleanConn(ibuf, pool)
    /\ UNCHANGED <<role, msglen, held, dead, bounds>>

(* What dispatching a message of length len shows. *)
Observed(len) ==
    (IF SubSeq(ibuf.data, 1, HeadLen + len) = Bytes(due, len) THEN {} ELSE {"wrong message"})
      \cup (IF len = 0 /\ Len(ibuf.data) = HeadLen THEN {"empty body"} ELSE {})

(* A whole message: pop the head and call the router. *)
Dispatch ==
    /\ Open /\ at = "parse" /\ Len(ibuf.data) >= HeadLen
    /\ \E len \in MsgLens(ibuf.data) :
          /\ len <= LenLimit /\ Len(ibuf.data) >= HeadLen + len
          /\ LET r == Pop(ibuf, pool, HeadLen)
             IN  ibuf' = r.buf /\ pool' = r.pool
          /\ msglen' = len
          /\ events' = events \cup Observed(len)
    /\ at' = "call" /\ due' = due + 1
    /\ UNCHANGED <<role, conn, wire, obuf, writeVars, held, dead, bounds>>

(* Mutant: a byte of the body is left behind. *)
PopBodyLess ==
    /\ Open /\ at = "call"
    /\ LET r == Pop(ibuf, pool, IF msglen > 0 THEN msglen - 1 ELSE 0) IN
       /\ ibuf' = r.buf /\ pool' = r.pool
       /\ \/ r.end = "ok" /\ at' = "parse" /\ UNCHANGED dead
          \/ r.end # "ok" /\ dead' = r.end /\ UNCHANGED at
    /\ msglen' = 0
    /\ UNCHANGED <<role, conn, wire, obuf, due, writeVars, held, bounds, events>>

(* The callback has returned: pop the body. *)
PopBody ==
    /\ Open /\ at = "call"
    /\ LET r == Pop(ibuf, pool, msglen) IN
       /\ ibuf' = r.buf /\ pool' = r.pool
       /\ \/ r.end = "ok" /\ at' = "parse" /\ UNCHANGED dead
          \/ r.end # "ok" /\ dead' = r.end /\ UNCHANGED at
    /\ msglen' = 0
    /\ UNCHANGED <<role, conn, wire, obuf, due, writeVars, held, bounds, events>>

-----------------------------------------------------------------------------
(* send_message and do_write *)

Refused(buf, p, seen) ==
    /\ obuf' = buf /\ pool' = p
    /\ events' = events \cup seen
    /\ UNCHANGED <<armed, expect, dead>>

(* Mutant: EPOLLOUT is always left as it is. *)
SendMessageUnarmed(len) ==
    /\ Open /\ at \in {"idle", "call"} /\ nout < MaxOut
    /\ nout' = nout + 1
    /\ LET bytes == Bytes(nout + 1, len)
           h == SendData(obuf, pool, SubSeq(bytes, 1, HeadLen))
           b == SendData(h.buf, h.pool, SubSeq(bytes, HeadLen + 1, HeadLen + len))
       IN  /\ h.end = "ok" /\ b.end = "ok"
           /\ obuf' = b.buf /\ pool' = b.pool
           /\ expect' = expect \o bytes
           /\ UNCHANGED <<armed, events, dead>>
    /\ UNCHANGED <<role, conn, wire, ibuf, readVars, out, start, held, nin, closes>>

(***************************************************************************)
(* send_message, from a callback of do_read or of another event: the head, *)
(* then the body.  If there is no block for the body, the first HeadLen    *)
(* bytes of the buffer are popped.                                         *)
(***************************************************************************)
SendMessage(len) ==
    /\ Open /\ at \in {"idle", "call"} /\ nout < MaxOut
    /\ nout' = nout + 1
    /\ LET bytes == Bytes(nout + 1, len)
           h == SendData(obuf, pool, SubSeq(bytes, 1, HeadLen))
           b == SendData(h.buf, h.pool, SubSeq(bytes, HeadLen + 1, HeadLen + len))
           back == Pop(h.buf, h.pool, HeadLen)
       IN  \/ /\ h.end = "ok" /\ b.end = "ok"
              /\ obuf' = b.buf /\ pool' = b.pool
              /\ expect' = expect \o bytes
              /\ armed' = (armed \/ obuf.data = << >>)
              /\ UNCHANGED <<events, dead>>
           \/ h.end = "null" /\ Refused(obuf, pool, {})
           \/ /\ h.end = "ok" /\ b.end = "null"
              /\ Refused(back.buf, back.pool, IF obuf.data = << >> THEN {} ELSE {"rollback"})
           \/ LET end == IF h.end = "ok" THEN b.end ELSE h.end
              IN  /\ end \in {"exit", "assert"}
                  /\ dead' = end /\ UNCHANGED <<obuf, pool, armed, expect, events>>
    /\ UNCHANGED <<role, conn, wire, ibuf, readVars, out, start, held, nin, closes>>

(* Mutant: what was written is written again. *)
DoWriteAgain ==
    /\ Open /\ at = "idle" /\ armed /\ obuf.data # << >> /\ obuf.head = 0
    /\ \E k \in 1 .. Len(obuf.data) :
          /\ obuf' = Written(obuf, k - 1)
          /\ out' = out \o SubSeq(obuf.data, 1, k)
          /\ armed' = (k < Len(obuf.data))
    /\ UNCHANGED <<role, conn, wire, ibuf, pool, readVars, start, expect, held, dead, bounds, events>>

(* do_write: the kernel takes k bytes; an empty buffer disarms EPOLLOUT. *)
DoWrite ==
    /\ Open /\ at = "idle" /\ armed /\ obuf.data # << >> /\ obuf.head = 0
    /\ \E k \in 1 .. Len(obuf.data) :
          /\ obuf' = Written(obuf, k)
          /\ out' = out \o SubSeq(obuf.data, 1, k)
          /\ armed' = (k < Len(obuf.data))
    /\ UNCHANGED <<role, conn, wire, ibuf, pool, readVars, start, expect, held, dead, bounds, events>>

(* write2fd asserts that the bytes begin at the front of the block. *)
DoWriteAsserts ==
    /\ Open /\ at = "idle" /\ armed /\ obuf.head # 0
    /\ dead' = "assert"
    /\ UNCHANGED <<role, conn, wire, bufVars, readVars, writeVars, held, bounds, events>>

DoWriteError ==
    /\ Open /\ at = "idle" /\ armed /\ conn = "eof" /\ obuf.head = 0
    /\ CleanConn(ibuf, pool)
    /\ UNCHANGED <<role, msglen, held, dead, bounds>>

Reading ==
    \/ \E k \in 1 .. Len(wire) : DoRead(k)
    \/ DoReadEof \/ ParseStops \/ ParseError \/ Dispatch \/ PopBody

Writing == DoWrite \/ DoWriteAsserts \/ DoWriteError

Next ==
    \/ \E len \in InLens : PeerSends(len)
    \/ PeerCloses
    \/ \E c \in Caps : OtherTakes(c) \/ OtherReturns(c)
    \/ Accepted
    \/ Reading
    \/ \E len \in OutLens : SendMessage(len)
    \/ Writing

Spec == Init /\ [][Next]_vars

(***************************************************************************)
(* Fairness: the thread of the connection serves what its event loop       *)
(* reports, and the peer goes on reading.                                  *)
(***************************************************************************)
FairSpec == Spec /\ WF_vars(Reading) /\ WF_vars(Writing)

-----------------------------------------------------------------------------
(* Properties. *)

(* Blocks stay within their capacity, and every variable has its type. *)
TypeOK ==
    /\ \A b \in {ibuf, obuf} :
          b = NoBlock \/ (b.cap \in Caps /\ b.head + Len(b.data) <= b.cap)
    /\ pool._total_mem \in Nat /\ \A c \in Caps : pool.idle[c] \in Nat
    /\ at \in {"idle", "parse", "call"}
    /\ dead \in {"no", "exit", "assert"}
    /\ (at # "idle" => conn # "closed")

(***************************************************************************)
(* Every message the peer sent on the connection is dispatched once, in    *)
(* order and whole, however the stream is cut by read().  The exception is *)
(* a tcp_client that still has a part of a message of an earlier           *)
(* connection in its input buffer, which clean_conn does not clear.        *)
(***************************************************************************)
DispatchedAsSent == "wrong message" \in events => "kept input" \in events

(* Byte b is not the last of its message. *)
Inside(b) == b[2] < HeadLen + b[3]

(***************************************************************************)
(* The stream that goes out is made of the accepted messages, in order and *)
(* without a gap, and nothing of a refused one: "if the body cannot be     *)
(* written, take back the head".  Popping at the wrong end of the buffer   *)
(* does not garble the stream, as write2fd would rather end the process.   *)
(* What a connection carries begins with a message.  The one exception is  *)
(* a tcp_client whose connection was lost in the middle of a message: what *)
(* clean_conn leaves in obuf, the rest of it, opens the next stream.       *)
(***************************************************************************)
StreamAsAccepted ==
    /\ IsPrefix(out, expect)
    /\ Open /\ "rollback" \notin events => out \o obuf.data = expect
    /\ start < Len(out) /\ out[start + 1][2] # 1 => start > 0 /\ Inside(out[start])

(***************************************************************************)
(* The memory of the connections is sound: what a buffer holds fits its    *)
(* block; no block is lost or in two places at once (Accounted in BufPool) *)
(* however buffers grow, are rolled back or die with their connection; and *)
(* the pool keeps its limit but for the blocks it does not count           *)
(* (WithinLimit).                                                          *)
(***************************************************************************)
PoolSound ==
    /\ TypeOK
    /\ Running => Accounted(pool, <<ibuf, obuf>>, held)
    /\ WithinLimit(pool)

(***************************************************************************)
(* Two things and no others make an assertion fail in the buffers: a       *)
(* message with an empty body that is the last in the input buffer, and a  *)
(* send_message that was refused behind data that is still to be written.  *)
(***************************************************************************)
AssertsOnlyIf == dead = "assert" => events \cap {"empty body", "rollback"} # {}

(* A whole message is in the input buffer. *)
HasMessage ==
    /\ Len(ibuf.data) >= HeadLen
    /\ \A len \in MsgLens(ibuf.data) :
          len <= LenLimit /\ Len(ibuf.data) >= HeadLen + len

(***************************************************************************)
(* What arrives is dispatched and what was accepted is written: again and  *)
(* again all that came was read and the buffer holds no whole message, and *)
(* nothing is left to write, unless the process or the connection has      *)
(* ended.                                                                  *)
(***************************************************************************)
StreamMoves ==
    /\ []<>(~Open \/ (wire = << >> /\ at = "idle" /\ ~HasMessage))
    /\ []<>(~Open \/ obuf.data = << >>)
=============================================================================
