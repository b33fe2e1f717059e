------------------------------ MODULE TcpClient -----------------------------
(***************************************************************************)
(* The reconnecting TCP client of lars_reactor (tcp_client.cpp) with the   *)
(* callbacks it registers in its event loop, fed by a thread_queue as in   *)
(* the agent's dns_client.cpp and report_client.cpp.                       *)
(*                                                                         *)
(* One thread runs all of it; what makes it hard is the order in which the *)
(* kernel reports events.  The registration of the socket in the loop is   *)
(* part of the state: io_ev says which callback EPOLLIN and EPOLLOUT call. *)
(* The event loop serves EPOLLIN before EPOLLOUT.  The kernel and the      *)
(* server are the environment.                                             *)
(*                                                                         *)
(* Allow names the disturbances an instance admits:                        *)
(*   "early"   the queue's callback runs before connection_succ has run    *)
(*   "refuse"  a connect fails after EINPROGRESS                           *)
(*   "close"   the server closes the connection                            *)
(*   "short"   write() takes only a part of a message                      *)
(*   "fatal"   connect() fails at once, and the process exits              *)
(***************************************************************************)
EXTENDS Naturals, Sequences

CONSTANTS Allow,     \* see above
          MaxFaults  \* bound: connects refused and connections closed, in all

ASSUME TcpClientConstants ==
    /\ Allow \subseteq {"early", "refuse", "close", "short", "fatal"}
    /\ MaxFaults \in Nat

VARIABLES
    sock,    \* the socket: "connecting", "connected", "failed" (SO_ERROR is
             \* set), "dead" (it was read), "closed" (by the peer), "exited"
    io_ev,   \* the socket's entry of _io_evs: a callback for each event
    obuf,    \* messages in the output buffer
    torn,    \* the front of obuf is what is left of a message
    split,   \* the stream of this connection began inside a message
    net,     \* messages on their way to the server
    inbox,   \* messages received by the kernel, not yet read
    faults   \* disturbances of the connection so far

connVars == <<sock, io_ev, obuf, torn, split, net, inbox, faults>>

(* add_io_event for one event of the socket. *)
AddIoEvent(ev, mask, proc) == [ev EXCEPT ![mask] = proc]

(* del_io_event for one event, and for both. *)
DelIoEvent(ev, mask) == [ev EXCEPT ![mask] = "none"]

NoEvents == [mask \in {"EPOLLIN", "EPOLLOUT"} |-> "none"]

(* What a new connection registers, with out its output buffer. *)
Listening(out) ==
    LET ev == AddIoEvent(NoEvents, "EPOLLIN", "do_read")
    IN  IF out # << >> THEN AddIoEvent(ev, "EPOLLOUT", "do_write") ELSE ev

Connecting == AddIoEvent(NoEvents, "EPOLLOUT", "connection_succ")

(***************************************************************************)
(* do_connect, with out the output buffer it finds: connect() succeeds at  *)
(* once, is in progress, or fails and the process exits.                   *)
(***************************************************************************)
DoConnect(out) ==
    /\ net' = << >>
    /\ inbox' = << >>
    /\ \/ sock' = "connected" /\ io_ev' = Listening(out)
       \/ sock' = "connecting" /\ io_ev' = Connecting
       \/ "fatal" \in Allow /\ sock' = "exited" /\ io_ev' = NoEvents

(***************************************************************************)
(* clean_conn: the output buffer is kept as it is, and reconnect.  If what *)
(* is left of a message is at its front, it stays there, and this and any  *)
(* further connection begins with it until it is written.                  *)
(***************************************************************************)
CleanConn ==
    /\ DoConnect(obuf)
    /\ obuf' = obuf
    /\ torn' = torn
    /\ split' = torn
    /\ faults' = faults

(* The constructor: do_connect, with an empty output buffer. *)
ConnInit ==
    /\ \/ sock = "connected" /\ io_ev = Listening(<< >>)
       \/ sock = "connecting" /\ io_ev = Connecting
       \/ "fatal" \in Allow /\ sock = "exited" /\ io_ev = NoEvents
    /\ obuf = << >>
    /\ torn = FALSE
    /\ split = FALSE
    /\ net = << >>
    /\ inbox = << >>
    /\ faults = 0

-----------------------------------------------------------------------------
(* The kernel. *)

ConnectCompletes ==
    /\ sock = "connecting"
    /\ sock' = "connected"
    /\ UNCHANGED <<io_ev, obuf, torn, split, net, inbox, faults>>

ConnectRefused ==
    /\ sock = "connecting"
    /\ "refuse" \in Allow /\ faults < MaxFaults
    /\ sock' = "failed"
    /\ faults' = faults + 1
    /\ UNCHANGED <<io_ev, obuf, torn, split, net, inbox>>

(* What was on its way to the server is lost. *)
ConnectionLost ==
    /\ sock = "connected"
    /\ "close" \in Allow /\ faults < MaxFaults
    /\ sock' = "closed"
    /\ net' = << >>
    /\ faults' = faults + 1
    /\ UNCHANGED <<io_ev, obuf, torn, split, inbox>>

(***************************************************************************)
(* The server takes a message off the wire and sends its answers.  It does *)
(* not make sense of a stream that began inside a message.                 *)
(***************************************************************************)
Exchange(answers) ==
    /\ sock = "connected" /\ ~split
    /\ net # << >>
    /\ net' = Tail(net)
    /\ inbox' = inbox \o answers
    /\ UNCHANGED <<sock, io_ev, obuf, torn, split, faults>>

-----------------------------------------------------------------------------
(* The callbacks. *)

Readable == io_ev["EPOLLIN"] # "none" /\ (inbox # << >> \/ sock = "closed")

(* The event loop calls the write callback cb only if it cannot read. *)
Writable(cb) ==
    /\ io_ev["EPOLLOUT"] = cb
    /\ sock \in {"connected", "failed", "dead", "closed"}
    /\ ~Readable

(* Mutant: with output waiting, EPOLLIN is not registered. *)
ConnectionSuccDeaf ==
    /\ Writable("connection_succ")
    /\ \/ /\ sock \in {"connected", "closed"}
          /\ io_ev' = IF obuf = << >> THEN Listening(obuf)
                      ELSE AddIoEvent(NoEvents, "EPOLLOUT", "do_write")
          /\ UNCHANGED sock
       \/ sock = "failed" /\ io_ev' = NoEvents /\ sock' = "dead"
    /\ UNCHANGED <<obuf, torn, split, net, inbox, faults>>

(* connection_succ: all registrations go; SO_ERROR decides what comes back. *)
ConnectionSucc ==
    /\ Writable("connection_succ")
    /\ \/ /\ sock \in {"connected", "closed"}
          /\ io_ev' = Listening(obuf)
          /\ UNCHANGED sock
       \/ sock = "failed" /\ io_ev' = NoEvents /\ sock' = "dead"
    /\ UNCHANGED <<obuf, torn, split, net, inbox, faults>>

(* Mutant: EPOLLOUT is disarmed whether or not all was written. *)
DoWriteOnce ==
    /\ Writable("do_write")
    /\ sock = "connected"
    /\ \E n \in 0..Len(obuf) :
          /\ obuf' = SubSeq(obuf, n + 1, Len(obuf))
          /\ net' = net \o SubSeq(obuf, 1, n)
          /\ \/ n > 0 /\ torn' = FALSE
             \/ "short" \in Allow /\ n < Len(obuf) /\ torn' = TRUE
    /\ io_ev' = DelIoEvent(io_ev, "EPOLLOUT")
    /\ UNCHANGED <<sock, split, inbox, faults>>

(***************************************************************************)
(* do_write: write() accepts n messages and perhaps a part of the next; an *)
(* empty buffer disarms EPOLLOUT.                                          *)
(***************************************************************************)
DoWrite ==
    /\ Writable("do_write")
    /\ sock = "connected"
    /\ \E n \in 0..Len(obuf) :
          /\ obuf' = SubSeq(obuf, n + 1, Len(obuf))
          /\ net' = net \o SubSeq(obuf, 1, n)
          /\ \/ n > 0 /\ torn' = FALSE
             \/ "short" \in Allow /\ n < Len(obuf) /\ torn' = TRUE
    /\ io_ev' = IF obuf' = << >> THEN DelIoEvent(io_ev, "EPOLLOUT") ELSE io_ev
    /\ UNCHANGED <<sock, split, inbox, faults>>

(* The connection was closed, but write() does not know yet. *)
DoWriteInVain ==
    /\ Writable("do_write")
    /\ sock = "closed"
    /\ obuf' = << >>
    /\ torn' = FALSE
    /\ io_ev' = DelIoEvent(io_ev, "EPOLLOUT")
    /\ UNCHANGED <<sock, split, net, inbox, faults>>

DoWriteError ==
    /\ Writable("do_write")
    /\ sock # "connected"
    /\ CleanConn

(* do_read dispatches one message, whose handler is the caller's. *)
DoRead ==
    /\ Readable /\ inbox # << >>
    /\ inbox' = Tail(inbox)
    /\ UNCHANGED <<sock, io_ev, obuf, torn, split, net, faults>>

(* read() returns 0 or an error. *)
DoReadClosed ==
    /\ Readable /\ inbox = << >>
    /\ CleanConn

(***************************************************************************)
(* send_message for each of msgs: EPOLLOUT is armed only if the buffer was *)
(* empty, and whatever was registered for it is replaced.                  *)
(***************************************************************************)
SendMessages(msgs) ==
    /\ obuf' = obuf \o msgs
    /\ io_ev' = IF obuf = << >> /\ msgs # << >>
                  THEN AddIoEvent(io_ev, "EPOLLOUT", "do_write") ELSE io_ev
    /\ UNCHANGED <<sock, torn, split, net, inbox, faults>>

(* May the queue's callback run now? *)
MaySend == sock # "exited" /\ (io_ev = Connecting => "early" \in Allow)

(* Steps of the connection that do not involve the code around it ... *)
ConnStep == ConnectCompletes \/ ConnectRefused \/ ConnectionSucc \/ DoWrite

(* ... and those in which a connection is lost or replaced. *)
LossStep == ConnectionLost \/ DoWriteInVain \/ DoWriteError \/ DoReadClosed

-----------------------------------------------------------------------------
(* Properties of the connection. *)

(* The socket, its registrations and its buffers keep their types. *)
ConnTypeOK ==
    /\ sock \in {"connecting", "connected", "failed", "dead", "closed", "exited"}
    /\ io_ev["EPOLLIN"] \in {"none", "do_read"}
    /\ io_ev["EPOLLOUT"] \in {"none", "connection_succ", "do_write"}
    /\ torn \in BOOLEAN
    /\ split \in BOOLEAN
    /\ faults \in Nat

(* The socket is not, and will not be, watched for input. *)
Deaf ==
    /\ sock \notin {"dead", "exited"}
    /\ io_ev["EPOLLIN"] = "none" /\ io_ev # Connecting

(***************************************************************************)
(* "If the fd is writable, the connection was made": a connection that is  *)
(* up and was noticed is listened to, so that its answers will be read.    *)
(* It gets deaf in one way only: a send_message that meets the connect in  *)
(* progress puts do_write in the place of connection_succ.                 *)
(***************************************************************************)
DeafOnlyIfEarly ==
    [][~Deaf /\ Deaf' => io_ev = Connecting /\ sock = sock' /\ obuf' # obuf]_connVars

(***************************************************************************)
(* "If there is data, it has not all been written yet, so there is no need *)
(* to activate again": data in the output buffer has a callback that will  *)
(* write it or learn that the connection is gone.  The one exception is a  *)
(* socket whose connect has failed: connection_succ gives it up.           *)
(***************************************************************************)
StrandedOnlyIfDead ==
    obuf # << >> /\ io_ev["EPOLLOUT"] = "none" => sock \in {"dead", "exited"}
=============================================================================
