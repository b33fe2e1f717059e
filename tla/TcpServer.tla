------------------------------ MODULE TcpServer -----------------------------
(***************************************************************************)
(* Connection management of lars_reactor (tcp_server.cpp, tcp_conn.cpp):   *)
(* the thread that accepts, the workers that make and close connections,   *)
(* the table conns, indexed by descriptor, and the count _cur_conns.       *)
(*                                                                         *)
(* Descriptors are numbered from the first one that is free once the       *)
(* server is set up (3 standard streams, the main epoll, the listening     *)
(* socket, an eventfd and an epoll per worker): the table conns has        *)
(* MaxConns entries from there on.  How a task gets through a queue to     *)
(* its worker is module ThreadPool; which worker get_thread picks does not *)
(* matter here.  What is sent over a connection is module TcpStream.       *)
(***************************************************************************)
EXTENDS Naturals, Sequences, FiniteSets, FiniteSetsExt, Functions

CONSTANTS Clients,    \* processes that connect, each once at a time
          Workers,    \* threads of the pool
          NULL,       \* no client: a free descriptor, an empty entry
          JUNK,       \* an entry that new tcp_conn*[] left uninitialised
          SERVICE,    \* holder of a descriptor the service opened itself
          MaxConns,   \* _max_conns
          MaxFd,      \* the limit on open descriptors (EMFILE)
          NExtra,     \* bound: descriptors the service opens before it accepts
          MaxConnects \* bound: connects of all clients

ASSUME TcpServerConstants ==
    /\ {MaxConns, MaxFd, NExtra, MaxConnects} \subseteq Nat
    /\ MaxFd > 0 /\ NExtra <= MaxFd
    /\ {NULL, SERVICE} \cap Clients = {} /\ NULL # SERVICE /\ NULL \notin Workers
    /\ JUNK \notin Clients

Fds == 0 .. MaxFd - 1

(* Mutant: one of the descriptors of the server itself was not thought of. *)
ConnsSizeLess == MaxConns - 1

(***************************************************************************)
(* The entries of conns from the first descriptor of a connection on: the  *)
(* 5 + 2 * thread_cnt others are those of the server itself.               *)
(***************************************************************************)
ConnsSize == MaxConns

VARIABLES
    backlog,    \* clients waiting in the kernel to be accepted
    files,      \* the kernel's table: the holder of each descriptor
    accepting,  \* do_accept: step, and the descriptor it got
    queue,      \* queue[w]: descriptors handed to worker w
    worker,     \* worker[w]: its step, and the descriptor it works on
    owner,      \* owner[fd]: the worker whose event loop has fd
    conns,      \* the table, here as large as there are descriptors
    _cur_conns,
    connects,   \* connects so far
    why         \* history: why[fd], what may have spoiled the test that admitted fd

vars == <<backlog, files, accepting, queue, worker, owner, conns, _cur_conns,
          connects, why>>

Idle == [at |-> "idle", fd |-> 0]

Init ==
    /\ backlog = {}
    /\ \E n \in 0..NExtra : files = [fd \in Fds |-> IF fd < n THEN SERVICE ELSE NULL]
    /\ accepting = Idle
    /\ queue = [w \in Workers |-> << >>]
    /\ worker = [w \in Workers |-> Idle]
    /\ owner = [fd \in Fds |-> NULL]
    /\ conns = [fd \in Fds |-> JUNK]
    /\ _cur_conns = 0
    /\ connects = 0
    /\ why = [fd \in Fds |-> {}]

FreeFds == {fd \in Fds : files[fd] = NULL}

(* The entries that increase_conn made and decrease_conn did not take back. *)
Entered == {fd \in Fds : conns[fd] \in Clients}

(* The descriptor fd is handed out, but not yet, or no longer, counted. *)
Pending == {fd \in Fds : \E w \in Workers : fd \in Range(queue[w])}
             \cup {worker[w].fd : w \in {v \in Workers : worker[v].at = "new"}}
Closing == {worker[w].fd : w \in {v \in Workers : worker[v].at = "close"}}

-----------------------------------------------------------------------------
(* Clients *)

Connect(c) ==
    /\ c \notin backlog \cup Range(files) /\ connects < MaxConnects
    /\ backlog' = backlog \cup {c}
    /\ connects' = connects + 1
    /\ UNCHANGED <<files, accepting, queue, worker, owner, conns, _cur_conns, why>>

-----------------------------------------------------------------------------
(* do_accept, in the main thread *)

(* accept(): the kernel hands out the lowest free descriptor. *)
Accept(c) ==
    /\ accepting.at = "idle" /\ c \in backlog /\ FreeFds # {}
    /\ backlog' = backlog \ {c}
    /\ files' = [files EXCEPT ![Min(FreeFds)] = c]
    /\ accepting' = [at |-> "accepted", fd |-> Min(FreeFds)]
    /\ why' = [why EXCEPT ![Min(FreeFds)] = IF Closing = {} THEN {} ELSE {"closing"}]
    /\ UNCHANGED <<queue, worker, owner, conns, _cur_conns, connects>>

(* EMFILE: nothing happens, and the loop calls accept() again. *)
AcceptEMFILE ==
    /\ accepting.at = "idle" /\ backlog # {} /\ FreeFds = {}
    /\ UNCHANGED vars

(* Mutant: the test is off by one. *)
GetConnNumLate ==
    /\ accepting.at = "accepted"
    /\ accepting' = [accepting EXCEPT
                       !.at = IF _cur_conns > MaxConns THEN "refuse" ELSE "send"]
    /\ why' = [why EXCEPT ![accepting.fd] = @ \cup IF Pending = {} THEN {} ELSE {"pending"}]
    /\ UNCHANGED <<backlog, files, queue, worker, owner, conns, _cur_conns, connects>>

(* get_conn_num, and the test against _max_conns. *)
GetConnNum ==
    /\ accepting.at = "accepted"
    /\ accepting' = [accepting EXCEPT
                       !.at = IF _cur_conns >= MaxConns THEN "refuse" ELSE "send"]
    /\ why' = [why EXCEPT ![accepting.fd] = @ \cup IF Pending = {} THEN {} ELSE {"pending"}]
    /\ UNCHANGED <<backlog, files, queue, worker, owner, conns, _cur_conns, connects>>

(* "so many connections": close it. *)
Refuse ==
    /\ accepting.at = "refuse"
    /\ files' = [files EXCEPT ![accepting.fd] = NULL]
    /\ accepting' = Idle
    /\ why' = [why EXCEPT ![accepting.fd] = {}]
    /\ UNCHANGED <<backlog, queue, worker, owner, conns, _cur_conns, connects>>

(* A NEW_CONN task for the worker that get_thread returns. *)
SendNewConn(w) ==
    /\ accepting.at = "send"
    /\ queue' = [queue EXCEPT ![w] = Append(@, accepting.fd)]
    /\ accepting' = Idle
    /\ UNCHANGED <<backlog, files, worker, owner, conns, _cur_conns, connects, why>>

-----------------------------------------------------------------------------
(* tcp_conn, in a worker *)

(* Mutant: a task is looked at only if it is alone. *)
NewConnAlone(w) ==
    /\ worker[w].at = "idle" /\ Len(queue[w]) = 1
    /\ LET fd == Head(queue[w]) IN
       /\ worker' = [worker EXCEPT ![w] = [at |-> "new", fd |-> fd]]
       /\ owner' = [owner EXCEPT ![fd] = w]
    /\ queue' = [queue EXCEPT ![w] = Tail(@)]
    /\ UNCHANGED <<backlog, files, accepting, conns, _cur_conns, connects, why>>

(* tcp_conn(): the descriptor is added to the worker's event loop ... *)
NewConn(w) ==
    /\ worker[w].at = "idle" /\ queue[w] # << >>
    /\ LET fd == Head(queue[w]) IN
       /\ worker' = [worker EXCEPT ![w] = [at |-> "new", fd |-> fd]]
       /\ owner' = [owner EXCEPT ![fd] = w]
    /\ queue' = [queue EXCEPT ![w] = Tail(@)]
    /\ UNCHANGED <<backlog, files, accepting, conns, _cur_conns, connects, why>>

(* ... and increase_conn enters it into the table. *)
IncreaseConn(w) ==
    /\ worker[w].at = "new"
    /\ conns' = [conns EXCEPT ![worker[w].fd] = files[worker[w].fd]]
    /\ _cur_conns' = _cur_conns + 1
    /\ worker' = [worker EXCEPT ![w] = Idle]
    /\ UNCHANGED <<backlog, files, accepting, queue, owner, connects, why>>

(* Mutant: clean_conn closes the descriptor before it leaves the table. *)
DecreaseConnLate(w, fd) ==
    /\ worker[w].at = "idle" /\ owner[fd] = w
    /\ worker' = [worker EXCEPT ![w] = [at |-> "close", fd |-> fd]]
    /\ owner' = [owner EXCEPT ![fd] = NULL]
    /\ files' = [files EXCEPT ![fd] = NULL]
    /\ UNCHANGED <<backlog, accepting, queue, conns, _cur_conns, connects, why>>

(***************************************************************************)
(* clean_conn, after the peer closed the connection or sent nonsense: the  *)
(* table and the event loop forget the descriptor ...                      *)
(***************************************************************************)
DecreaseConn(w, fd) ==
    /\ worker[w].at = "idle" /\ owner[fd] = w
    /\ conns' = [conns EXCEPT ![fd] = NULL]
    /\ _cur_conns' = _cur_conns - 1
    /\ owner' = [owner EXCEPT ![fd] = NULL]
    /\ worker' = [worker EXCEPT ![w] = [at |-> "close", fd |-> fd]]
    /\ why' = IF accepting.at = "accepted"
                THEN [why EXCEPT ![accepting.fd] = @ \cup {"closing"}] ELSE why
    /\ UNCHANGED <<backlog, files, accepting, queue, connects>>

(* ... and close() gives it back. *)
CloseFd(w) ==
    /\ worker[w].at = "close"
    /\ files' = [files EXCEPT ![worker[w].fd] = NULL]
    /\ worker' = [worker EXCEPT ![w] = Idle]
    /\ why' = [why EXCEPT ![worker[w].fd] = {}]
    /\ UNCHANGED <<backlog, accepting, queue, owner, conns, _cur_conns, connects>>

-----------------------------------------------------------------------------
MainThread ==
    \/ \E c \in Clients : Accept(c)
    \/ GetConnNum \/ Refuse
    \/ \E w \in Workers : SendNewConn(w)

WorkerThread(w) == NewConn(w) \/ IncreaseConn(w) \/ CloseFd(w)

Next ==
    \/ \E c \in Clients : Connect(c)
    \/ MainThread
    \/ AcceptEMFILE
    \/ \E w \in Workers : WorkerThread(w) \/ \E fd \in Fds : DecreaseConn(w, fd)

Spec == Init /\ [][Next]_vars

(* Fairness: the threads run.  No client owes a connect or a close. *)
FairSpec == Spec /\ WF_vars(MainThread) /\ \A w \in Workers : WF_vars(WorkerThread(w))

-----------------------------------------------------------------------------
(* Properties. *)

Steps == {"idle", "accepted", "refuse", "send", "new", "close"}

(* Every variable of the server keeps its type; no client is held twice. *)
TypeOK ==
    /\ backlog \subseteq Clients
    /\ files \in [Fds -> Clients \cup {NULL, SERVICE}]
    /\ accepting \in [at : Steps, fd : Fds]
    /\ worker \in [Workers -> [at : Steps, fd : Fds]]
    /\ \A w \in Workers : Range(queue[w]) \subseteq Fds
    /\ owner \in [Fds -> Workers \cup {NULL}]
    /\ conns \in [Fds -> Clients \cup {NULL, JUNK}]
    /\ _cur_conns \in Nat

(***************************************************************************)
(* conns is what its readers take it for, the push task of the DNS service *)
(* first of all: an entry is the connection that holds the descriptor now, *)
(* however soon the kernel hands it out again; a worker that looks up a    *)
(* connection of its event loop between two callbacks finds it, and never  *)
(* an entry that was not initialised; and _cur_conns counts the entries.   *)
(***************************************************************************)
TableMirrors ==
    /\ TypeOK
    /\ \A fd \in Entered : files[fd] = conns[fd] /\ owner[fd] # NULL
    /\ \A w \in Workers, fd \in Fds :
          worker[w].at = "idle" /\ owner[fd] = w => fd \in Entered
    /\ _cur_conns = Cardinality(Entered)

(***************************************************************************)
(* "so many connections, max = %d": the limit is exceeded by the           *)
(* connections that were tested while an earlier one was still on its way  *)
(* to its worker and not counted, and by no others.                        *)
(***************************************************************************)
OverLimitOnlyIfPending ==
    _cur_conns <= MaxConns + Cardinality({fd \in Entered : "pending" \in why[fd]})

(***************************************************************************)
(* "If too little is allocated, the index is out of bounds": an entry      *)
(* beyond the end of conns is written only if the service has descriptors  *)
(* that the size does not account for, or the connection was tested with   *)
(* another one pending, or with one that was not counted any more but      *)
(* still held its descriptor when this one was accepted.                   *)
(***************************************************************************)
OutOfBoundsOnlyIf ==
    \A fd \in Entered :
        fd >= ConnsSize => why[fd] # {} \/ SERVICE \in Range(files)

(***************************************************************************)
(* A client that waits is accepted, and one that is accepted gets into the *)
(* table or is closed; only running out of descriptors can stand in the    *)
(* way, and then the loop in do_accept does not end.                       *)
(***************************************************************************)
EveryClientServed ==
    \A c \in Clients :
        (c \in backlog \cup Range(files))
          ~> (c \in Range(conns) \/ c \notin backlog \cup Range(files) \/ FreeFds = {})
=============================================================================
