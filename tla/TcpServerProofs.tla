--------------------------- MODULE TcpServerProofs ---------------------------
(***************************************************************************)
(* Proofs about TcpServer, for any number of clients, workers and          *)
(* descriptors and every order of accepts, hand-overs and closes.          *)
(*                                                                         *)
(* The argument follows a descriptor through the server.  Between accept() *)
(* and close() it is in one place at a time: with do_accept, in one queue, *)
(* with one worker, or in the table (Exclusive), and whatever is in such a *)
(* place belongs to a client (Held) and the other way round (Accounted).   *)
(* So no step touches a descriptor that another thread is working on, and  *)
(* _cur_conns counts the table (Counted).                                  *)
(*                                                                         *)
(* The limit needs more: a connection that was tested with nothing pending *)
(* has a unit of the limit kept for it until it is counted (Reserved), and *)
(* there is one such connection at a time (OneUnflagged).  For the end of  *)
(* the table, every descriptor below an accepted one is taken (BelowTaken) *)
(* by a connection that is counted when it is tested, so that one that is  *)
(* admitted lies below the limit (AdmittedFits).                           *)
(***************************************************************************)
EXTENDS TcpServer, SequenceTheorems, FiniteSetTheorems, WellFoundedInduction, TLAPS

(* The places of a descriptor on its way to the table, and back. *)
WithAccept(fd) == accepting.at # "idle" /\ accepting.fd = fd

InQueue(fd) == \E w \in Workers : fd \in Range(queue[w])

Starting(fd) == \E w \in Workers : worker[w].at = "new" /\ worker[w].fd = fd

Leaving(fd) == \E w \in Workers : worker[w].at = "close" /\ worker[w].fd = fd

WithWorker(fd) == Starting(fd) \/ Leaving(fd)

InTable(fd) == conns[fd] \in Clients

(* The values of all variables, sequences included. *)
Types ==
    /\ backlog \subseteq Clients
    /\ files \in [Fds -> Clients \cup {NULL, SERVICE}]
    /\ accepting \in [at : {"idle", "accepted", "refuse", "send"}, fd : Fds]
    /\ worker \in [Workers -> [at : {"idle", "new", "close"}, fd : Fds]]
    /\ queue \in [Workers -> Seq(Fds)]
    /\ owner \in [Fds -> Workers \cup {NULL}]
    /\ conns \in [Fds -> Clients \cup {NULL, JUNK}]
    /\ _cur_conns \in Nat
    /\ why \in [Fds -> SUBSET {"pending", "closing"}]

(* What is in a place belongs to a client. *)
Held ==
    \A fd \in Fds :
        WithAccept(fd) \/ InQueue(fd) \/ WithWorker(fd) \/ InTable(fd) => files[fd] \in Clients

(* What belongs to a client is in a place. *)
Accounted ==
    \A fd \in Fds :
        files[fd] \in Clients => WithAccept(fd) \/ InQueue(fd) \/ WithWorker(fd) \/ InTable(fd)

(* The places exclude each other. *)
Exclusive ==
    \A fd \in Fds :
        /\ WithAccept(fd) => ~InQueue(fd) /\ ~WithWorker(fd) /\ ~InTable(fd)
        /\ InQueue(fd) => ~WithWorker(fd) /\ ~InTable(fd)
        /\ WithWorker(fd) => ~InTable(fd)

(* No descriptor is queued twice. *)
QueuedOnce ==
    \A w, v \in Workers :
        \A i \in 1..Len(queue[w]), j \in 1..Len(queue[v]) :
            queue[w][i] = queue[v][j] => w = v /\ i = j

(* No two workers work on the same descriptor. *)
OneWorker ==
    \A w, v \in Workers :
        worker[w].at # "idle" /\ worker[v].at # "idle" /\ worker[w].fd = worker[v].fd => w = v

(* The event loops hold what is in the table, or about to be. *)
Owned ==
    /\ \A w \in Workers : worker[w].at = "new" => owner[worker[w].fd] = w
    /\ \A fd \in Fds : InTable(fd) => owner[fd] # NULL
    /\ \A fd \in Fds, w \in Workers :
          owner[fd] = w => InTable(fd) \/ (worker[w].at = "new" /\ worker[w].fd = fd)

(* An entry is the holder of its descriptor. *)
Mirrored == \A fd \in Fds : InTable(fd) => conns[fd] = files[fd]

Table == {fd \in Fds : InTable(fd)}

Counted == _cur_conns = Cardinality(Table)

(* On its way to the table, and admitted. *)
Admitted(fd) ==
    \/ accepting.at = "send" /\ accepting.fd = fd
    \/ InQueue(fd)
    \/ Starting(fd)

Unflagged(fd) == Admitted(fd) /\ "pending" \notin why[fd]

Flagged == {fd \in Fds : InTable(fd) /\ "pending" \in why[fd]}

(* Of the connections on their way, one at most was tested with none pending. *)
OneUnflagged ==
    \A fd, g \in Fds :
        Unflagged(fd) /\ Unflagged(g) => fd = g

(* Its place is kept. *)
Reserved ==
    /\ _cur_conns <= MaxConns + Cardinality(Flagged)
    /\ \A fd \in Fds :
          Unflagged(fd) => _cur_conns + 1 <= MaxConns + Cardinality(Flagged)

NoService == \A fd \in Fds : files[fd] # SERVICE

(* When it is tested, what lies below is counted or pending. *)
BelowTaken ==
    accepting.at = "accepted" /\ why[accepting.fd] = {} /\ NoService
      => \A g \in Fds : g < accepting.fd => InQueue(g) \/ Starting(g) \/ InTable(g)

(* What was tested undisturbed fits into the table. *)
AdmittedFits ==
    \A fd \in Fds :
        (Admitted(fd) \/ InTable(fd)) /\ why[fd] = {} /\ NoService => fd < MaxConns

IInv ==
    /\ Types
    /\ Held /\ Accounted /\ Exclusive /\ QueuedOnce /\ OneWorker
    /\ Owned /\ Mirrored /\ Counted
    /\ OneUnflagged /\ Reserved
    /\ BelowTaken /\ AdmittedFits

-----------------------------------------------------------------------------
(* The descriptors, and what the steps do to the places. *)

(* Descriptors are finitely many numbers, and 0 is one of them. *)
LEMMA FdsFinite == IsFiniteSet(Fds) /\ Fds \subseteq Nat /\ 0 \in Fds
  <1>1. MaxFd \in Nat /\ MaxFd > 0
    BY TcpServerConstants
  <1>2. MaxFd - 1 \in Int /\ 0 \in Int
    BY <1>1
  <1>3. IsFiniteSet(0 .. MaxFd - 1)
    BY <1>2, FS_Interval
  <1>4. QED
    BY <1>1, <1>3 DEF Fds

(* The kernel's choice: the lowest of a set of descriptors. *)
LEMMA Lowest ==
  ASSUME NEW S \in SUBSET Fds, S # {}
  PROVE  Min(S) \in S /\ \A y \in S : Min(S) <= y
  <1> DEFINE R == OpToRel(<, Nat)
  <1>1. IsWellFoundedOn(R, Nat)
    BY NatLessThanWellFounded
  <1>2. S \subseteq Nat
    BY FdsFinite
  <1>3. PICK x \in S : \A y \in S : ~(<<y, x>> \in R)
    BY <1>1, <1>2, WFMin
  <1>4. \A y \in S : ~(y < x)
    BY <1>2, <1>3 DEF OpToRel
  <1>5. \E z \in S : \A y \in S : z =< y
    BY <1>2, <1>4
  <1>6. QED
    BY <1>5 DEF Min

(* A step that changes no place. *)
LEMMA SamePlaces ==
  ASSUME UNCHANGED <<accepting, queue, worker, conns>>, NEW fd \in Fds
  PROVE  /\ WithAccept(fd)' <=> WithAccept(fd)
         /\ InQueue(fd)' <=> InQueue(fd)
         /\ Starting(fd)' <=> Starting(fd)
         /\ Leaving(fd)' <=> Leaving(fd)
         /\ InTable(fd)' <=> InTable(fd)
         /\ Admitted(fd)' <=> Admitted(fd)
  BY DEF WithAccept, InQueue, Starting, Leaving, InTable, Admitted

(* A descriptor is pending in a queue or with a worker. *)
LEMMA PendingPlaces ==
  ASSUME Types, NEW fd \in Fds
  PROVE  fd \in Pending <=> InQueue(fd) \/ Starting(fd)
  BY DEF Types, Pending, InQueue, Starting

(* accept() takes a descriptor that is in no place, and the lowest one. *)
LEMMA AcceptPlaces ==
  ASSUME IInv, NEW c \in Clients, Accept(c)
  PROVE  \E f \in Fds :
           /\ files[f] = NULL /\ files' = [files EXCEPT ![f] = c]
           /\ \A g \in Fds : g < f => files[g] # NULL
           /\ accepting.at = "idle" /\ accepting' = [at |-> "accepted", fd |-> f]
           /\ why' = [why EXCEPT ![f] = IF Closing = {} THEN {} ELSE {"closing"}]
           /\ \A fd \in Fds :
                /\ ~WithAccept(fd) /\ (WithAccept(fd)' <=> fd = f)
                /\ InQueue(fd)' <=> InQueue(fd)
                /\ Starting(fd)' <=> Starting(fd)
                /\ Leaving(fd)' <=> Leaving(fd)
                /\ InTable(fd)' <=> InTable(fd)
                /\ Admitted(fd)' <=> Admitted(fd)
  <1>1. PICK f : f = Min(FreeFds)
    OBVIOUS
  <1>2. FreeFds \in SUBSET Fds /\ FreeFds # {}
    BY DEF FreeFds, Accept
  <1>3. f \in FreeFds /\ \A y \in FreeFds : f <= y
    BY <1>1, <1>2, Lowest
  <1>4. f \in Fds /\ files[f] = NULL /\ \A g \in Fds : g < f => files[g] # NULL
    BY <1>3, FdsFinite DEF FreeFds
  <1>5. /\ accepting.at = "idle" /\ accepting' = [at |-> "accepted", fd |-> f]
        /\ files' = [files EXCEPT ![f] = c]
        /\ why' = [why EXCEPT ![f] = IF Closing = {} THEN {} ELSE {"closing"}]
        /\ UNCHANGED <<queue, worker, conns>>
    BY <1>1 DEF Accept
  <1>6. \A fd \in Fds :
          /\ ~WithAccept(fd) /\ (WithAccept(fd)' <=> fd = f)
          /\ InQueue(fd)' <=> InQueue(fd)
          /\ Starting(fd)' <=> Starting(fd)
          /\ Leaving(fd)' <=> Leaving(fd)
          /\ InTable(fd)' <=> InTable(fd)
          /\ Admitted(fd)' <=> Admitted(fd)
    BY <1>5 DEF WithAccept, InQueue, Starting, Leaving, InTable, Admitted
  <1>7. QED
    BY <1>4, <1>5, <1>6

(* The test changes no place; it admits the descriptor or not. *)
LEMMA GetConnNumPlaces ==
  ASSUME IInv, GetConnNum
  PROVE  \E f \in Fds :
           /\ accepting.at = "accepted" /\ accepting.fd = f /\ accepting'.fd = f
           /\ \/ accepting'.at = "refuse"
              \/ accepting'.at = "send" /\ _cur_conns < MaxConns
           /\ why' = [why EXCEPT ![f] = @ \cup IF Pending = {} THEN {} ELSE {"pending"}]
           /\ WithAccept(f)
           /\ \A fd \in Fds :
                /\ WithAccept(fd)' <=> WithAccept(fd)
                /\ InQueue(fd)' <=> InQueue(fd)
                /\ Starting(fd)' <=> Starting(fd)
                /\ Leaving(fd)' <=> Leaving(fd)
                /\ InTable(fd)' <=> InTable(fd)
                /\ Admitted(fd)' <=> Admitted(fd) \/ (accepting'.at = "send" /\ fd = f)
  <1>1. PICK f \in Fds : f = accepting.fd
    BY DEF IInv, Types
  <1>2. accepting \in [at : {"idle", "accepted", "refuse", "send"}, fd : Fds]
    BY DEF IInv, Types
  <1>3. _cur_conns \in Nat /\ MaxConns \in Nat
    BY TcpServerConstants DEF IInv, Types
  <1>4. /\ accepting.at = "accepted" /\ accepting'.fd = f
        /\ \/ accepting'.at = "refuse"
           \/ accepting'.at = "send" /\ _cur_conns < MaxConns
        /\ why' = [why EXCEPT ![f] = @ \cup IF Pending = {} THEN {} ELSE {"pending"}]
        /\ UNCHANGED <<queue, worker, conns>>
    BY <1>1, <1>2, <1>3 DEF GetConnNum
  <1>5. \A fd \in Fds :
          /\ WithAccept(fd)' <=> WithAccept(fd)
          /\ InQueue(fd)' <=> InQueue(fd)
          /\ Starting(fd)' <=> Starting(fd)
          /\ Leaving(fd)' <=> Leaving(fd)
          /\ InTable(fd)' <=> InTable(fd)
          /\ Admitted(fd)' <=> Admitted(fd) \/ (accepting'.at = "send" /\ fd = f)
    BY <1>1, <1>4 DEF WithAccept, InQueue, Starting, Leaving, InTable, Admitted
  <1>6. WithAccept(f)
    BY <1>1, <1>4 DEF WithAccept
  <1>7. QED
    BY <1>1, <1>4, <1>5, <1>6

(* A connection too many is closed by do_accept itself. *)
LEMMA RefusePlaces ==
  ASSUME IInv, Refuse
  PROVE  \E f \in Fds :
           /\ files' = [files EXCEPT ![f] = NULL] /\ why' = [why EXCEPT ![f] = {}]
           /\ accepting' = Idle /\ WithAccept(f)
           /\ \A fd \in Fds :
                /\ WithAccept(fd) <=> fd = f
                /\ ~WithAccept(fd)'
                /\ InQueue(fd)' <=> InQueue(fd)
                /\ Starting(fd)' <=> Starting(fd)
                /\ Leaving(fd)' <=> Leaving(fd)
                /\ InTable(fd)' <=> InTable(fd)
                /\ Admitted(fd)' <=> Admitted(fd)
  <1>1. PICK f \in Fds : f = accepting.fd
    BY DEF IInv, Types
  <1>2. /\ files' = [files EXCEPT ![f] = NULL] /\ why' = [why EXCEPT ![f] = {}]
        /\ accepting.at = "refuse" /\ accepting' = Idle /\ Idle.at = "idle"
        /\ UNCHANGED <<queue, worker, conns>>
    BY <1>1 DEF Refuse, Idle
  <1>3. \A fd \in Fds :
          /\ WithAccept(fd) <=> fd = f
          /\ ~WithAccept(fd)'
          /\ InQueue(fd)' <=> InQueue(fd)
          /\ Starting(fd)' <=> Starting(fd)
          /\ Leaving(fd)' <=> Leaving(fd)
          /\ InTable(fd)' <=> InTable(fd)
          /\ Admitted(fd)' <=> Admitted(fd)
    BY <1>1, <1>2 DEF WithAccept, InQueue, Starting, Leaving, InTable, Admitted
  <1>4. QED
    BY <1>1, <1>2, <1>3

(* What a queue holds after an entry is added at its end. *)
LEMMA RangeAppend ==
  ASSUME NEW S, NEW q \in Seq(S), NEW x \in S
  PROVE  Range(Append(q, x)) = Range(q) \cup {x}
  <1>1. /\ DOMAIN q = 1..Len(q) /\ DOMAIN Append(q, x) = 1..(Len(q) + 1)
        /\ Len(q) \in Nat
        /\ \A i \in 1..Len(q) : Append(q, x)[i] = q[i]
        /\ Append(q, x)[Len(q) + 1] = x
    OBVIOUS
  <1>2. 1..(Len(q) + 1) = (1..Len(q)) \cup {Len(q) + 1}
    BY <1>1
  <1>3. QED
    BY <1>1, <1>2 DEF Range

(* A NEW_CONN task moves the descriptor from do_accept into a queue. *)
LEMMA SendPlaces ==
  ASSUME IInv, NEW w \in Workers, SendNewConn(w)
  PROVE  \E f \in Fds :
           /\ queue' = [queue EXCEPT ![w] = Append(@, f)]
           /\ accepting' = Idle /\ WithAccept(f) /\ Admitted(f)
           /\ \A fd \in Fds :
                /\ WithAccept(fd) <=> fd = f
                /\ ~WithAccept(fd)'
                /\ InQueue(fd)' <=> InQueue(fd) \/ fd = f
                /\ Starting(fd)' <=> Starting(fd)
                /\ Leaving(fd)' <=> Leaving(fd)
                /\ InTable(fd)' <=> InTable(fd)
                /\ Admitted(fd)' <=> Admitted(fd)
  <1>1. PICK f \in Fds : f = accepting.fd
    BY DEF IInv, Types
  <1>2. /\ accepting.at = "send" /\ accepting' = Idle /\ Idle.at = "idle"
        /\ queue' = [queue EXCEPT ![w] = Append(@, f)]
        /\ UNCHANGED <<worker, conns>>
    BY <1>1 DEF SendNewConn, Idle
  <1>3. queue \in [Workers -> Seq(Fds)]
    BY DEF IInv, Types
  <1>4. /\ Range(queue'[w]) = Range(queue[w]) \cup {f}
        /\ \A v \in Workers : v # w => queue'[v] = queue[v]
    <2>1. queue'[w] = Append(queue[w], f) /\ queue[w] \in Seq(Fds)
      BY <1>2, <1>3
    <2>2. QED
      BY <1>2, <1>3, <2>1, RangeAppend
  <1>5. \A fd \in Fds : InQueue(fd)' <=> InQueue(fd) \/ fd = f
    BY <1>4 DEF InQueue
  <1>6. \A fd \in Fds :
          /\ WithAccept(fd) <=> fd = f
          /\ ~WithAccept(fd)'
          /\ Starting(fd)' <=> Starting(fd)
          /\ Leaving(fd)' <=> Leaving(fd)
          /\ InTable(fd)' <=> InTable(fd)
    BY <1>1, <1>2 DEF WithAccept, Starting, Leaving, InTable
  <1>7. \A fd \in Fds : Admitted(fd)' <=> Admitted(fd)
    BY <1>1, <1>2, <1>5, <1>6 DEF Admitted
  <1>8. WithAccept(f) /\ Admitted(f)
    BY <1>1, <1>2 DEF WithAccept, Admitted
  <1>9. QED
    BY <1>1, <1>2, <1>5, <1>6, <1>7, <1>8

(* What a queue without repetitions holds after its first entry is taken. *)
LEMMA RangeTail ==
  ASSUME NEW S, NEW q \in Seq(S), q # << >>,
         \A i, j \in 1..Len(q) : q[i] = q[j] => i = j
  PROVE  Range(Tail(q)) = Range(q) \ {Head(q)} /\ Head(q) \in Range(q)
  <1>1. /\ DOMAIN q = 1..Len(q) /\ DOMAIN Tail(q) = 1..(Len(q) - 1)
        /\ Len(q) \in Nat /\ Len(q) # 0 /\ Head(q) = q[1]
        /\ \A i \in 1..(Len(q) - 1) : Tail(q)[i] = q[i + 1]
    OBVIOUS
  <1>2. \A x \in Range(q) : x # Head(q) => x \in Range(Tail(q))
    <2> SUFFICES ASSUME NEW i \in 1..Len(q), q[i] # Head(q)
                 PROVE  q[i] \in Range(Tail(q))
      BY <1>1 DEF Range
    <2>1. i - 1 \in 1..(Len(q) - 1) /\ Tail(q)[i - 1] = q[i]
      BY <1>1
    <2>2. QED
      BY <1>1, <2>1 DEF Range
  <1>3. \A x \in Range(Tail(q)) : x \in Range(q) /\ x # Head(q)
    <2> SUFFICES ASSUME NEW i \in 1..(Len(q) - 1)
                 PROVE  Tail(q)[i] \in Range(q) /\ Tail(q)[i] # Head(q)
      BY <1>1 DEF Range
    <2>1. i + 1 \in 1..Len(q) /\ Tail(q)[i] = q[i + 1] /\ 1 \in 1..Len(q) /\ i + 1 # 1
      BY <1>1
    <2>2. QED
      BY <1>1, <2>1 DEF Range
  <1>4. Head(q) \in Range(q)
    BY <1>1 DEF Range
  <1>5. QED
    BY <1>2, <1>3, <1>4

(* A worker takes a descriptor out of its queue, the only place where it is. *)
LEMMA NewConnPlaces ==
  ASSUME IInv, NEW w \in Workers, NewConn(w)
  PROVE  \E f \in Fds :
           /\ worker[w].at = "idle"
           /\ worker' = [worker EXCEPT ![w] = [at |-> "new", fd |-> f]]
           /\ owner' = [owner EXCEPT ![f] = w]
           /\ queue[w] # << >> /\ queue' = [queue EXCEPT ![w] = Tail(@)]
           /\ InQueue(f)
           /\ \A fd \in Fds :
                /\ WithAccept(fd)' <=> WithAccept(fd)
                /\ InQueue(fd)' <=> InQueue(fd) /\ fd # f
                /\ Starting(fd)' <=> Starting(fd) \/ fd = f
                /\ Leaving(fd)' <=> Leaving(fd)
                /\ InTable(fd)' <=> InTable(fd)
                /\ Admitted(fd)' <=> Admitted(fd)
  <1>0. /\ queue \in [Workers -> Seq(Fds)] /\ QueuedOnce
        /\ worker \in [Workers -> [at : {"idle", "new", "close"}, fd : Fds]]
    BY DEF IInv, Types
  <1>1. PICK f \in Fds : f = Head(queue[w])
    BY <1>0 DEF NewConn
  <1>2. /\ worker[w].at = "idle" /\ queue[w] # << >>
        /\ worker' = [worker EXCEPT ![w] = [at |-> "new", fd |-> f]]
        /\ owner' = [owner EXCEPT ![f] = w]
        /\ queue' = [queue EXCEPT ![w] = Tail(@)]
        /\ UNCHANGED <<accepting, conns>>
    BY <1>1 DEF NewConn
  <1>3. queue'[w] = Tail(queue[w]) /\ \A v \in Workers : v # w => queue'[v] = queue[v]
    BY <1>0, <1>2
  <1>4. Range(queue'[w]) = Range(queue[w]) \ {f} /\ f \in Range(queue[w])
    <2>1. \A i, j \in 1..Len(queue[w]) : queue[w][i] = queue[w][j] => i = j
      BY <1>0 DEF QueuedOnce
    <2>2. queue[w] \in Seq(Fds)
      BY <1>0
    <2>3. QED
      BY <1>1, <1>2, <1>3, <2>1, <2>2, RangeTail
  <1>5. \A v \in Workers : v # w => f \notin Range(queue[v])
    <2> SUFFICES ASSUME NEW v \in Workers, f \in Range(queue[v]) PROVE v = w
      OBVIOUS
    <2>1. PICK j \in 1..Len(queue[v]) : queue[v][j] = f
      BY <1>0 DEF Range
    <2>2. 1 \in 1..Len(queue[w]) /\ queue[w][1] = f
      BY <1>0, <1>1, <1>2
    <2>3. QED
      BY <1>0, <2>1, <2>2 DEF QueuedOnce
  <1>6. InQueue(f) /\ \A fd \in Fds : InQueue(fd)' <=> InQueue(fd) /\ fd # f
    BY <1>3, <1>4, <1>5 DEF InQueue
  <1>7. /\ worker'[w].at = "new" /\ worker'[w].fd = f
        /\ \A v \in Workers : v # w => worker'[v] = worker[v]
    BY <1>0, <1>2
  <1>8. \A fd \in Fds :
          /\ Starting(fd)' <=> Starting(fd) \/ fd = f
          /\ Leaving(fd)' <=> Leaving(fd)
    BY <1>2, <1>7 DEF Starting, Leaving
  <1>9. \A fd \in Fds :
          (WithAccept(fd)' <=> WithAccept(fd)) /\ (InTable(fd)' <=> InTable(fd))
    BY <1>2 DEF WithAccept, InTable
  <1>10. \A fd \in Fds : Admitted(fd)' <=> Admitted(fd)
    BY <1>2, <1>6, <1>8 DEF Admitted
  <1>11. QED
    BY <1>2, <1>6, <1>8, <1>9, <1>10

(* The worker enters its descriptor into the table. *)
LEMMA IncreasePlaces ==
  ASSUME IInv, NEW w \in Workers, IncreaseConn(w)
  PROVE  \E f \in Fds :
           /\ worker[w].at = "new" /\ worker[w].fd = f
           /\ worker' = [worker EXCEPT ![w] = Idle]
           /\ conns' = [conns EXCEPT ![f] = files[f]] /\ files[f] \in Clients
           /\ Starting(f) /\ ~InTable(f)
           /\ \A fd \in Fds :
                /\ WithAccept(fd)' <=> WithAccept(fd)
                /\ InQueue(fd)' <=> InQueue(fd)
                /\ Starting(fd)' <=> Starting(fd) /\ fd # f
                /\ Leaving(fd)' <=> Leaving(fd)
                /\ InTable(fd)' <=> InTable(fd) \/ fd = f
                /\ Admitted(fd)' <=> Admitted(fd) /\ fd # f
  <1>0. /\ worker \in [Workers -> [at : {"idle", "new", "close"}, fd : Fds]]
        /\ conns \in [Fds -> Clients \cup {NULL, JUNK}]
        /\ OneWorker /\ Held /\ Exclusive
    BY DEF IInv, Types
  <1>1. PICK f \in Fds : f = worker[w].fd
    BY <1>0
  <1>2. /\ worker[w].at = "new"
        /\ worker' = [worker EXCEPT ![w] = Idle] /\ Idle.at = "idle"
        /\ conns' = [conns EXCEPT ![f] = files[f]]
        /\ UNCHANGED <<accepting, queue>>
    BY <1>1 DEF IncreaseConn, Idle
  <1>3. Starting(f)
    BY <1>1, <1>2 DEF Starting
  <1>4. files[f] \in Clients /\ ~InTable(f) /\ ~InQueue(f) /\ ~WithAccept(f)
    BY <1>0, <1>3 DEF Held, Exclusive, WithWorker
  <1>6. \A fd \in Fds : InTable(fd)' <=> InTable(fd) \/ fd = f
    BY <1>0, <1>2, <1>4 DEF InTable
  <1>7. worker'[w].at = "idle" /\ \A v \in Workers : v # w => worker'[v] = worker[v]
    BY <1>0, <1>2
  <1>8. \A v \in Workers : v # w /\ worker[v].at = "new" => worker[v].fd # f
    BY <1>0, <1>1, <1>2 DEF OneWorker
  <1>9. \A fd \in Fds :
          /\ Starting(fd)' <=> Starting(fd) /\ fd # f
          /\ Leaving(fd)' <=> Leaving(fd)
    BY <1>1, <1>2, <1>7, <1>8 DEF Starting, Leaving
  <1>10. \A fd \in Fds :
           (WithAccept(fd)' <=> WithAccept(fd)) /\ (InQueue(fd)' <=> InQueue(fd))
    BY <1>2 DEF WithAccept, InQueue
  <1>11. \A fd \in Fds : Admitted(fd)' <=> Admitted(fd) /\ fd # f
    BY <1>2, <1>4, <1>9, <1>10 DEF Admitted, WithAccept
  <1>12. QED
    BY <1>1, <1>2, <1>3, <1>4, <1>6, <1>9, <1>10, <1>11

(* clean_conn takes a descriptor out of the table. *)
LEMMA DecreasePlaces ==
  ASSUME IInv, NEW w \in Workers, NEW f \in Fds, DecreaseConn(w, f)
  PROVE  /\ InTable(f)
         /\ \A fd \in Fds :
              /\ WithAccept(fd)' <=> WithAccept(fd)
              /\ InQueue(fd)' <=> InQueue(fd)
              /\ Starting(fd)' <=> Starting(fd)
              /\ Leaving(fd)' <=> Leaving(fd) \/ fd = f
              /\ InTable(fd)' <=> InTable(fd) /\ fd # f
              /\ Admitted(fd)' <=> Admitted(fd)
  <1>0. /\ worker \in [Workers -> [at : {"idle", "new", "close"}, fd : Fds]]
        /\ conns \in [Fds -> Clients \cup {NULL, JUNK}]
        /\ Owned
    BY DEF IInv, Types
  <1>1. /\ worker[w].at = "idle" /\ owner[f] = w
        /\ worker' = [worker EXCEPT ![w] = [at |-> "close", fd |-> f]]
        /\ conns' = [conns EXCEPT ![f] = NULL]
        /\ UNCHANGED <<accepting, queue>>
    BY DEF DecreaseConn
  <1>2. InTable(f)
    BY <1>0, <1>1 DEF Owned
  <1>3. \A fd \in Fds : InTable(fd)' <=> InTable(fd) /\ fd # f
    BY <1>0, <1>1, TcpServerConstants DEF InTable
  <1>4. /\ worker'[w].at = "close" /\ worker'[w].fd = f
        /\ \A v \in Workers : v # w => worker'[v] = worker[v]
    BY <1>0, <1>1
  <1>5. \A fd \in Fds :
          /\ Starting(fd)' <=> Starting(fd)
          /\ Leaving(fd)' <=> Leaving(fd) \/ fd = f
    BY <1>1, <1>4 DEF Starting, Leaving
  <1>6. \A fd \in Fds :
           (WithAccept(fd)' <=> WithAccept(fd)) /\ (InQueue(fd)' <=> InQueue(fd))
    BY <1>1 DEF WithAccept, InQueue
  <1>7. \A fd \in Fds : Admitted(fd)' <=> Admitted(fd)
    BY <1>1, <1>5, <1>6 DEF Admitted
  <1>8. QED
    BY <1>2, <1>3, <1>5, <1>6, <1>7

(* close() gives the descriptor back, which is in no other place. *)
LEMMA ClosePlaces ==
  ASSUME IInv, NEW w \in Workers, CloseFd(w)
  PROVE  \E f \in Fds :
           /\ worker[w].at = "close" /\ worker[w].fd = f
           /\ worker' = [worker EXCEPT ![w] = Idle]
           /\ files' = [files EXCEPT ![f] = NULL] /\ why' = [why EXCEPT ![f] = {}]
           /\ Leaving(f)
           /\ \A fd \in Fds :
                /\ WithAccept(fd)' <=> WithAccept(fd)
                /\ InQueue(fd)' <=> InQueue(fd)
                /\ Starting(fd)' <=> Starting(fd)
                /\ Leaving(fd)' <=> Leaving(fd) /\ fd # f
                /\ InTable(fd)' <=> InTable(fd)
                /\ Admitted(fd)' <=> Admitted(fd)
  <1>0. /\ worker \in [Workers -> [at : {"idle", "new", "close"}, fd : Fds]]
        /\ OneWorker
    BY DEF IInv, Types
  <1>1. PICK f \in Fds : f = worker[w].fd
    BY <1>0
  <1>2. /\ worker[w].at = "close"
        /\ worker' = [worker EXCEPT ![w] = Idle] /\ Idle.at = "idle"
        /\ files' = [files EXCEPT ![f] = NULL] /\ why' = [why EXCEPT ![f] = {}]
        /\ UNCHANGED <<accepting, queue, conns>>
    BY <1>1 DEF CloseFd, Idle
  <1>3. worker'[w].at = "idle" /\ \A v \in Workers : v # w => worker'[v] = worker[v]
    BY <1>0, <1>2
  <1>4. \A v \in Workers : v # w /\ worker[v].at = "close" => worker[v].fd # f
    BY <1>0, <1>1, <1>2 DEF OneWorker
  <1>5. \A fd \in Fds :
          /\ Starting(fd)' <=> Starting(fd)
          /\ Leaving(fd)' <=> Leaving(fd) /\ fd # f
    BY <1>1, <1>2, <1>3, <1>4 DEF Starting, Leaving
  <1>6. \A fd \in Fds :
           /\ WithAccept(fd)' <=> WithAccept(fd)
           /\ InQueue(fd)' <=> InQueue(fd)
           /\ InTable(fd)' <=> InTable(fd)
    BY <1>2 DEF WithAccept, InQueue, InTable
  <1>7. \A fd \in Fds : Admitted(fd)' <=> Admitted(fd)
    BY <1>2, <1>5, <1>6 DEF Admitted
  <1>8. Leaving(f)
    BY <1>1, <1>2 DEF Leaving
  <1>9. QED
    BY <1>1, <1>2, <1>5, <1>6, <1>7, <1>8

-----------------------------------------------------------------------------
(* Every step preserves the invariant. *)

(* The table and its flagged entries are finite sets. *)
LEMMA TableFinite ==
  /\ IsFiniteSet(Table) /\ Cardinality(Table) \in Nat
  /\ IsFiniteSet(Flagged) /\ Cardinality(Flagged) \in Nat
  <1>1. Table \in SUBSET Fds /\ Flagged \in SUBSET Fds
    BY DEF Table, Flagged
  <1>2. IsFiniteSet(Table) /\ IsFiniteSet(Flagged)
    BY <1>1, FdsFinite, FS_Subset
  <1>3. QED
    BY <1>2, FS_CardinalityType

(* The conjuncts of IInv, one by one. *)
LEMMA Parts ==
  ASSUME IInv
  PROVE  /\ Types /\ Held /\ Accounted /\ Exclusive /\ QueuedOnce /\ OneWorker
         /\ Owned /\ Mirrored /\ Counted /\ OneUnflagged /\ Reserved
         /\ BelowTaken /\ AdmittedFits
  BY DEF IInv

(* The server starts with nothing in any place. *)
LEMMA InitIInv == Init => IInv
  <1> SUFFICES ASSUME Init PROVE IInv
    OBVIOUS
  <1>1. PICK n \in 0..NExtra : files = [fd \in Fds |-> IF fd < n THEN SERVICE ELSE NULL]
    BY DEF Init
  <1>2. Types
    <2>1. 0 \in Fds
      BY FdsFinite
    <2>2. << >> \in Seq(Fds)
      OBVIOUS
    <2>3. files \in [Fds -> Clients \cup {NULL, SERVICE}]
      BY <1>1
    <2>4. accepting \in [at : {"idle", "accepted", "refuse", "send"}, fd : Fds]
      BY <2>1 DEF Init, Idle
    <2>5. worker \in [Workers -> [at : {"idle", "new", "close"}, fd : Fds]]
      BY <2>1 DEF Init, Idle
    <2>6. queue \in [Workers -> Seq(Fds)]
      BY <2>2 DEF Init
    <2>7. QED
      BY <2>3, <2>4, <2>5, <2>6 DEF Init, Types
  <1>3. /\ accepting.at = "idle" /\ \A w \in Workers : worker[w].at = "idle"
        /\ \A w \in Workers : queue[w] = << >> /\ Len(queue[w]) = 0
    BY DEF Init, Idle
  <1>4. \A fd \in Fds :
          ~WithAccept(fd) /\ ~InQueue(fd) /\ ~WithWorker(fd) /\ ~InTable(fd) /\ ~Admitted(fd)
    <2>1. Range(<< >>) = {}
      BY DEF Range
    <2>2. \A fd \in Fds : conns[fd] = JUNK
      BY DEF Init
    <2>3. QED
      BY <1>3, <2>1, <2>2, TcpServerConstants
      DEF WithAccept, InQueue, Starting, Leaving, WithWorker, InTable, Admitted
  <1>5. \A fd \in Fds : files[fd] \notin Clients
    BY <1>1, TcpServerConstants
  <1>6. Held /\ Accounted /\ Exclusive
    BY <1>4, <1>5 DEF Held, Accounted, Exclusive
  <1>7. QueuedOnce
    BY <1>3 DEF QueuedOnce
  <1>8. OneWorker
    BY <1>3 DEF OneWorker
  <1>9. Owned /\ Mirrored
    <2>1. \A fd \in Fds : owner[fd] = NULL
      BY DEF Init
    <2>2. QED
      BY <1>3, <1>4, <2>1, TcpServerConstants DEF Owned, Mirrored
  <1>10. Table = {} /\ Flagged = {}
    BY <1>4 DEF Table, Flagged, InTable
  <1>11. Counted /\ _cur_conns = 0
    BY <1>10, FS_EmptySet DEF Init, Counted
  <1>12. OneUnflagged /\ Reserved
    BY <1>4, <1>10, <1>11, FS_EmptySet, TcpServerConstants
    DEF OneUnflagged, Unflagged, Reserved
  <1>13. BelowTaken /\ AdmittedFits
    BY <1>3, <1>4 DEF BelowTaken, AdmittedFits
  <1>14. QED
    BY <1>2, <1>6, <1>7, <1>8, <1>9, <1>11, <1>12, <1>13 DEF IInv

(* Neither a client that connects nor a failing accept() changes a place. *)
LEMMA ConnectIInv ==
  ASSUME IInv, UNCHANGED <<files, accepting, queue, worker, owner, conns, _cur_conns, why>>,
         backlog' \subseteq Clients
  PROVE  IInv'
  <1>1. Types'
    BY Parts DEF Types
  <1>2. \A fd \in Fds :
         /\ WithAccept(fd)' <=> WithAccept(fd)
         /\ InQueue(fd)' <=> InQueue(fd)
         /\ Starting(fd)' <=> Starting(fd)
         /\ Leaving(fd)' <=> Leaving(fd)
         /\ InTable(fd)' <=> InTable(fd)
         /\ Admitted(fd)' <=> Admitted(fd)
    BY SamePlaces
  <1>3. Held' /\ Accounted' /\ Exclusive' /\ Mirrored'
    BY <1>2, Parts DEF Held, Accounted, Exclusive, Mirrored, WithWorker
  <1>4. QueuedOnce' /\ OneWorker' /\ Owned'
    BY <1>2, Parts DEF QueuedOnce, OneWorker, Owned
  <1>5. Counted' /\ Table' = Table /\ Flagged' = Flagged
    BY Parts DEF Counted, Table, Flagged, InTable
  <1>6. OneUnflagged' /\ Reserved'
    BY <1>2, <1>5, Parts DEF OneUnflagged, Reserved, Unflagged
  <1>7. BelowTaken' /\ AdmittedFits'
    BY <1>2, Parts DEF BelowTaken, AdmittedFits, NoService
  <1>8. QED
    BY <1>1, <1>3, <1>4, <1>5, <1>6, <1>7 DEF IInv

(* The descriptor that accept() returns was in no place; all below it are taken. *)
LEMMA AcceptIInv ==
  ASSUME IInv, NEW c \in Clients, Accept(c)
  PROVE  IInv'
  <1>1. PICK f \in Fds :
           /\ files[f] = NULL /\ files' = [files EXCEPT ![f] = c]
           /\ \A g \in Fds : g < f => files[g] # NULL
           /\ accepting.at = "idle" /\ accepting' = [at |-> "accepted", fd |-> f]
           /\ why' = [why EXCEPT ![f] = IF Closing = {} THEN {} ELSE {"closing"}]
           /\ \A fd \in Fds :
                /\ ~WithAccept(fd) /\ (WithAccept(fd)' <=> fd = f)
                /\ InQueue(fd)' <=> InQueue(fd)
                /\ Starting(fd)' <=> Starting(fd)
                /\ Leaving(fd)' <=> Leaving(fd)
                /\ InTable(fd)' <=> InTable(fd)
                /\ Admitted(fd)' <=> Admitted(fd)
    BY AcceptPlaces
  <1>2. /\ UNCHANGED <<queue, worker, owner, conns, _cur_conns>>
        /\ backlog' = backlog \ {c}
    BY DEF Accept
  <1>3. Types'
    BY <1>1, <1>2, Parts DEF Types
  <1>4. \A fd \in Fds : files'[fd] = IF fd = f THEN c ELSE files[fd]
    BY <1>1, Parts DEF Types
  <1>5. \A fd \in Fds : fd # f => why'[fd] = why[fd]
    BY <1>1, Parts DEF Types
  <1>6. ~InQueue(f) /\ ~Starting(f) /\ ~Leaving(f) /\ ~InTable(f) /\ ~Admitted(f)
    <2>1. files[f] \notin Clients
      BY <1>1, TcpServerConstants
    <2>2. ~InQueue(f) /\ ~Starting(f) /\ ~Leaving(f) /\ ~InTable(f)
      BY <2>1, Parts DEF Held, WithWorker
    <2>3. QED
      BY <1>1, <2>2 DEF Admitted
  <1>7. Held' /\ Accounted'
    BY <1>1, <1>4, Parts DEF Held, Accounted, WithWorker
  <1>8. Exclusive'
    BY <1>1, <1>6, Parts DEF Exclusive, WithWorker
  <1>9. QueuedOnce' /\ OneWorker' /\ Owned'
    BY <1>1, <1>2, Parts DEF QueuedOnce, OneWorker, Owned
  <1>10. Mirrored'
    BY <1>1, <1>2, <1>4, <1>6, Parts DEF Mirrored
  <1>11. Table' = Table /\ Flagged' = Flagged
    BY <1>2, <1>5, <1>6 DEF Table, Flagged, InTable
  <1>12. Counted'
    BY <1>2, <1>11, Parts DEF Counted
  <1>13. \A fd \in Fds : Unflagged(fd)' <=> Unflagged(fd)
    BY <1>1, <1>5, <1>6 DEF Unflagged
  <1>14. OneUnflagged' /\ Reserved'
    BY <1>2, <1>11, <1>13, Parts DEF OneUnflagged, Reserved
  <1>15. BelowTaken'
    <2> SUFFICES ASSUME why'[f] = {}, NoService', NEW g \in Fds, g < f
                 PROVE  InQueue(g)' \/ Starting(g)' \/ InTable(g)'
      BY <1>1 DEF BelowTaken
    <2>1. Closing = {}
      BY <1>1, Parts DEF Types
    <2>2. ~Leaving(g)
      BY <2>1 DEF Closing, Leaving
    <2>3. g # f
      BY FdsFinite
    <2>4. files[g] # SERVICE /\ files[g] # NULL
      BY <1>1, <1>4, <2>3 DEF NoService
    <2>5. files[g] \in Clients
      BY <2>4, Parts DEF Types
    <2>6. QED
      BY <1>1, <2>2, <2>5, Parts DEF Accounted, WithWorker
  <1>16. AdmittedFits'
    <2>1. NoService' => NoService
      <3>1. files[f] # SERVICE
        BY <1>1, TcpServerConstants
      <3>2. QED
        BY <1>4, <3>1 DEF NoService
    <2>2. QED
      BY <1>1, <1>5, <1>6, <2>1, Parts DEF AdmittedFits
  <1>17. QED
    BY <1>3, <1>7, <1>8, <1>9, <1>10, <1>12, <1>14, <1>15, <1>16 DEF IInv

LEMMA GetConnNumIInv ==
  ASSUME IInv, GetConnNum
  PROVE  IInv'
  <1>1. PICK f \in Fds :
           /\ accepting.at = "accepted" /\ accepting.fd = f /\ accepting'.fd = f
           /\ \/ accepting'.at = "refuse"
              \/ accepting'.at = "send" /\ _cur_conns < MaxConns
           /\ why' = [why EXCEPT ![f] = @ \cup IF Pending = {} THEN {} ELSE {"pending"}]
           /\ WithAccept(f)
           /\ \A fd \in Fds :
                /\ WithAccept(fd)' <=> WithAccept(fd)
                /\ InQueue(fd)' <=> InQueue(fd)
                /\ Starting(fd)' <=> Starting(fd)
                /\ Leaving(fd)' <=> Leaving(fd)
                /\ InTable(fd)' <=> InTable(fd)
                /\ Admitted(fd)' <=> Admitted(fd) \/ (accepting'.at = "send" /\ fd = f)
    BY GetConnNumPlaces
  <1>2. UNCHANGED <<backlog, files, queue, worker, owner, conns, _cur_conns>>
    BY DEF GetConnNum
  <1>3. Types'
    <2>1. accepting' \in [at : {"idle", "accepted", "refuse", "send"}, fd : Fds]
      BY Parts DEF Types, GetConnNum
    <2>2. why' \in [Fds -> SUBSET {"pending", "closing"}]
      BY <1>1, Parts DEF Types
    <2>3. QED
      BY <1>2, <2>1, <2>2, Parts DEF Types
  <1>4. \A fd \in Fds : fd # f => why'[fd] = why[fd]
    BY <1>1, Parts DEF Types
  <1>5. why'[f] = why[f] \cup IF Pending = {} THEN {} ELSE {"pending"}
    BY <1>1, Parts DEF Types
  <1>6. ~InQueue(f) /\ ~Starting(f) /\ ~InTable(f) /\ ~Admitted(f)
    BY <1>1, Parts DEF Exclusive, WithWorker, Admitted
  <1>7. Held' /\ Accounted' /\ Exclusive' /\ Mirrored'
    BY <1>1, <1>2, Parts DEF Held, Accounted, Exclusive, Mirrored, WithWorker
  <1>8. QueuedOnce' /\ OneWorker' /\ Owned'
    BY <1>1, <1>2, Parts DEF QueuedOnce, OneWorker, Owned
  <1>9. Table' = Table /\ Flagged' = Flagged
    BY <1>2, <1>4, <1>6 DEF Table, Flagged, InTable
  <1>10. Counted'
    BY <1>2, <1>9, Parts DEF Counted
  <1>11. \A fd \in Fds : fd # f => (Unflagged(fd)' <=> Unflagged(fd))
    BY <1>1, <1>4 DEF Unflagged
  <1>12. ASSUME Unflagged(f)'
         PROVE  _cur_conns < MaxConns /\ \A fd \in Fds : ~InQueue(fd) /\ ~Starting(fd)
    <2>1. Admitted(f)' /\ Pending = {}
      BY <1>5, <1>12 DEF Unflagged
    <2>2. accepting'.at = "send"
      BY <1>1, <1>6, <2>1
    <2>3. QED
      BY <1>1, <2>1, <2>2, Parts, PendingPlaces
  <1>13. OneUnflagged'
    <2> SUFFICES ASSUME NEW fd \in Fds, NEW g \in Fds, Unflagged(fd)', Unflagged(g)', fd # g
                 PROVE  FALSE
      BY DEF OneUnflagged
    <2>1. fd # f /\ g # f
      <3>1. ASSUME NEW h \in Fds, h # f, Unflagged(h)', Unflagged(f)' PROVE FALSE
        <4>1. ~Admitted(h)
          BY <1>1, <1>12, <3>1 DEF Admitted
        <4>2. QED
          BY <1>11, <3>1, <4>1 DEF Unflagged
      <3>2. QED
        BY <3>1
    <2>2. QED
      BY <1>11, <2>1, Parts DEF OneUnflagged
  <1>14. Reserved'
    <2>1. _cur_conns \in Nat /\ MaxConns \in Nat /\ Cardinality(Flagged) \in Nat
      BY TableFinite, TcpServerConstants, Parts DEF Types
    <2>2. Unflagged(f)' => _cur_conns + 1 <= MaxConns + Cardinality(Flagged)
      BY <1>12, <2>1
    <2>3. QED
      BY <1>2, <1>9, <1>11, <2>2, Parts DEF Reserved
  <1>15. BelowTaken'
    BY <1>1 DEF BelowTaken
  <1>16. AdmittedFits'
    <2>1. NoService' => NoService
      BY <1>2 DEF NoService
    <2>2. ASSUME why'[f] = {}, NoService, accepting'.at = "send" PROVE f < MaxConns
      <3>1. why[f] = {} /\ Pending = {}
        BY <1>5, <2>2
      <3>2. \A g \in Fds : g < f => g \in Table
        BY <1>1, <2>2, <3>1, Parts, PendingPlaces DEF BelowTaken, Table, InTable
      <3>3. f \in Nat /\ f - 1 \in Int /\ 0..(f - 1) \subseteq Fds
        BY TcpServerConstants DEF Fds
      <3>4. 0..(f - 1) \in SUBSET Table
        BY <3>2, <3>3
      <3>5. Cardinality(0..(f - 1)) <= Cardinality(Table)
        BY <3>4, TableFinite, FS_Subset
      <3>6. Cardinality(0..(f - 1)) = f
        <4>1. Cardinality(0..(f - 1)) = IF 0 > f - 1 THEN 0 ELSE (f - 1) - 0 + 1
          BY <3>3, FS_Interval
        <4>2. QED
          BY <3>3, <4>1
      <3>7. _cur_conns < MaxConns /\ _cur_conns = Cardinality(Table)
        BY <1>1, <2>2, Parts DEF Counted
      <3>8. QED
        BY <3>3, <3>5, <3>6, <3>7, TableFinite, TcpServerConstants
    <2>3. QED
      BY <1>1, <1>4, <1>6, <2>1, <2>2, Parts DEF AdmittedFits
  <1>17. QED
    BY <1>3, <1>7, <1>8, <1>10, <1>13, <1>14, <1>15, <1>16 DEF IInv

(* A refused descriptor leaves the server. *)
LEMMA RefuseIInv ==
  ASSUME IInv, Refuse
  PROVE  IInv'
  <1>1. PICK f \in Fds :
           /\ files' = [files EXCEPT ![f] = NULL] /\ why' = [why EXCEPT ![f] = {}]
           /\ accepting' = Idle /\ WithAccept(f)
           /\ \A fd \in Fds :
                /\ WithAccept(fd) <=> fd = f
                /\ ~WithAccept(fd)'
                /\ InQueue(fd)' <=> InQueue(fd)
                /\ Starting(fd)' <=> Starting(fd)
                /\ Leaving(fd)' <=> Leaving(fd)
                /\ InTable(fd)' <=> InTable(fd)
                /\ Admitted(fd)' <=> Admitted(fd)
    BY RefusePlaces
  <1>2. UNCHANGED <<backlog, queue, worker, owner, conns, _cur_conns>>
    BY DEF Refuse
  <1>3. Types'
    <2>1. accepting' \in [at : {"idle", "accepted", "refuse", "send"}, fd : Fds]
      BY <1>1, FdsFinite DEF Idle
    <2>2. QED
      BY <1>1, <1>2, <2>1, Parts DEF Types
  <1>4. \A fd \in Fds : fd # f => why'[fd] = why[fd] /\ files'[fd] = files[fd]
    BY <1>1, Parts DEF Types
  <1>5. files'[f] = NULL /\ NULL \notin Clients /\ NULL # SERVICE
    BY <1>1, Parts, TcpServerConstants DEF Types
  <1>6. /\ ~InQueue(f) /\ ~Starting(f) /\ ~Leaving(f) /\ ~InTable(f)
        /\ ~Admitted(f) /\ files[f] \in Clients
    <2>1. /\ ~InQueue(f)
          /\ ~Starting(f)
          /\ ~Leaving(f)
          /\ ~InTable(f)
          /\ files[f] \in Clients
      BY <1>1, Parts DEF Exclusive, Held, WithWorker
    <2>2. accepting.at = "refuse"
      BY DEF Refuse
    <2>3. QED
      BY <2>1, <2>2 DEF Admitted
  <1>7. Held' /\ Accounted' /\ Exclusive'
    BY <1>1, <1>4, <1>5, <1>6, Parts DEF Held, Accounted, Exclusive, WithWorker
  <1>8. Mirrored'
    BY <1>1, <1>2, <1>4, <1>6, Parts DEF Mirrored
  <1>9. QueuedOnce' /\ OneWorker' /\ Owned'
    BY <1>1, <1>2, Parts DEF QueuedOnce, OneWorker, Owned
  <1>10. Table' = Table /\ Flagged' = Flagged
    BY <1>2, <1>4, <1>6 DEF Table, Flagged, InTable
  <1>11. Counted'
    BY <1>2, <1>10, Parts DEF Counted
  <1>12. \A fd \in Fds : Unflagged(fd)' <=> Unflagged(fd)
    BY <1>1, <1>4, <1>6 DEF Unflagged
  <1>13. OneUnflagged' /\ Reserved'
    BY <1>2, <1>10, <1>12, Parts DEF OneUnflagged, Reserved
  <1>14. BelowTaken'
    BY <1>1 DEF BelowTaken, Idle
  <1>15. AdmittedFits'
    <2>1. NoService' => NoService
      BY <1>4, <1>6, TcpServerConstants DEF NoService
    <2>2. QED
      BY <1>1, <1>4, <1>6, <2>1, Parts DEF AdmittedFits
  <1>16. QED
    BY <1>3, <1>7, <1>8, <1>9, <1>11, <1>13, <1>14, <1>15 DEF IInv

(* The queue gets a descriptor that no queue has. *)
LEMMA SendIInv ==
  ASSUME IInv, NEW w \in Workers, SendNewConn(w)
  PROVE  IInv'
  <1>1. PICK f \in Fds :
           /\ queue' = [queue EXCEPT ![w] = Append(@, f)]
           /\ accepting' = Idle /\ WithAccept(f) /\ Admitted(f)
           /\ \A fd \in Fds :
                /\ WithAccept(fd) <=> fd = f
                /\ ~WithAccept(fd)'
                /\ InQueue(fd)' <=> InQueue(fd) \/ fd = f
                /\ Starting(fd)' <=> Starting(fd)
                /\ Leaving(fd)' <=> Leaving(fd)
                /\ InTable(fd)' <=> InTable(fd)
                /\ Admitted(fd)' <=> Admitted(fd)
    BY SendPlaces
  <1>2. UNCHANGED <<backlog, files, worker, owner, conns, _cur_conns, why>>
    BY DEF SendNewConn
  <1>3. Types'
    <2>1. accepting' \in [at : {"idle", "accepted", "refuse", "send"}, fd : Fds]
      BY <1>1, FdsFinite DEF Idle
    <2>2. queue' \in [Workers -> Seq(Fds)]
      BY <1>1, Parts DEF Types
    <2>3. QED
      BY <1>2, <2>1, <2>2, Parts DEF Types
  <1>4. ~InQueue(f) /\ ~Starting(f) /\ ~Leaving(f) /\ ~InTable(f)
    BY <1>1, Parts DEF Exclusive, WithWorker
  <1>5. Held' /\ Accounted' /\ Exclusive' /\ Mirrored'
    BY <1>1, <1>2, <1>4, Parts DEF Held, Accounted, Exclusive, Mirrored, WithWorker
  <1>6. QueuedOnce'
    <2>1. \A v \in Workers : \A i \in 1..Len(queue[v]) : queue[v][i] # f
      BY <1>4, Parts DEF InQueue, Range, Types
    <2>2. /\ queue[w] \in Seq(Fds) /\ queue'[w] = Append(queue[w], f)
          /\ \A v \in Workers : v # w => queue'[v] = queue[v]
      BY <1>1, Parts DEF Types
    <2>3. /\ Len(queue[w]) \in Nat /\ Len(queue'[w]) = Len(queue[w]) + 1
          /\ queue'[w][Len(queue[w]) + 1] = f
          /\ \A i \in 1..Len(queue[w]) : queue'[w][i] = queue[w][i]
      BY <2>2
    <2> SUFFICES ASSUME NEW u \in Workers, NEW v \in Workers,
                        NEW i \in 1..Len(queue'[u]), NEW j \in 1..Len(queue'[v]),
                        queue'[u][i] = queue'[v][j]
                 PROVE  u = v /\ i = j
      BY DEF QueuedOnce
    <2>4. ASSUME NEW x \in Workers, NEW k \in 1..Len(queue'[x])
          PROVE  \/ k \in 1..Len(queue[x]) /\ queue'[x][k] = queue[x][k]
                 \/ x = w /\ k = Len(queue[w]) + 1 /\ queue'[x][k] = f
      <3>1. CASE x = w
        BY <2>3, <2>4, <3>1
      <3>2. CASE x # w
        BY <2>2, <2>4, <3>2
      <3>3. QED
        BY <3>1, <3>2
    <2>5. /\ \/ i \in 1..Len(queue[u]) /\ queue'[u][i] = queue[u][i]
             \/ u = w /\ i = Len(queue[w]) + 1 /\ queue'[u][i] = f
          /\ \/ j \in 1..Len(queue[v]) /\ queue'[v][j] = queue[v][j]
             \/ v = w /\ j = Len(queue[w]) + 1 /\ queue'[v][j] = f
      BY <2>4
    <2>6. \A x, y \in Workers : \A k \in 1..Len(queue[x]), l \in 1..Len(queue[y]) :
            queue[x][k] = queue[y][l] => x = y /\ k = l
      BY Parts DEF QueuedOnce
    <2>7. QED
      BY <2>1, <2>5, <2>6
  <1>7. OneWorker' /\ Owned'
    BY <1>1, <1>2, Parts DEF OneWorker, Owned
  <1>8. Counted' /\ Table' = Table /\ Flagged' = Flagged
    BY <1>2, Parts DEF Counted, Table, Flagged, InTable
  <1>9. OneUnflagged' /\ Reserved'
    BY <1>1, <1>2, <1>8, Parts DEF OneUnflagged, Reserved, Unflagged
  <1>10. BelowTaken'
    BY <1>1 DEF BelowTaken, Idle
  <1>11. AdmittedFits'
    BY <1>1, <1>2, Parts DEF AdmittedFits, NoService
  <1>12. QED
    BY <1>3, <1>5, <1>6, <1>7, <1>8, <1>9, <1>10, <1>11 DEF IInv

LEMMA NewConnIInv ==
  ASSUME IInv, NEW w \in Workers, NewConn(w)
  PROVE  IInv'
  <1>1. PICK f \in Fds :
           /\ worker[w].at = "idle"
           /\ worker' = [worker EXCEPT ![w] = [at |-> "new", fd |-> f]]
           /\ owner' = [owner EXCEPT ![f] = w]
           /\ queue[w] # << >> /\ queue' = [queue EXCEPT ![w] = Tail(@)]
           /\ InQueue(f)
           /\ \A fd \in Fds :
                /\ WithAccept(fd)' <=> WithAccept(fd)
                /\ InQueue(fd)' <=> InQueue(fd) /\ fd # f
                /\ Starting(fd)' <=> Starting(fd) \/ fd = f
                /\ Leaving(fd)' <=> Leaving(fd)
                /\ InTable(fd)' <=> InTable(fd)
                /\ Admitted(fd)' <=> Admitted(fd)
    BY NewConnPlaces
  <1>2. UNCHANGED <<backlog, files, accepting, conns, _cur_conns, why>>
    BY DEF NewConn
  <1>3. Types'
    <2>1. queue' \in [Workers -> Seq(Fds)]
      BY <1>1, Parts DEF Types
    <2>2. worker' \in [Workers -> [at : {"idle", "new", "close"}, fd : Fds]]
      BY <1>1, Parts DEF Types
    <2>3. owner' \in [Fds -> Workers \cup {NULL}]
      BY <1>1, Parts DEF Types
    <2>4. QED
      BY <1>2, <2>1, <2>2, <2>3, Parts DEF Types
  <1>4. ~WithAccept(f) /\ ~Starting(f) /\ ~Leaving(f) /\ ~InTable(f)
    BY <1>1, Parts DEF Exclusive, WithWorker
  <1>5. Held' /\ Accounted' /\ Exclusive' /\ Mirrored'
    BY <1>1, <1>2, <1>4, Parts DEF Held, Accounted, Exclusive, Mirrored, WithWorker
  <1>6. QueuedOnce'
    <2>1. /\ queue[w] \in Seq(Fds) /\ queue'[w] = Tail(queue[w])
          /\ \A v \in Workers : v # w => queue'[v] = queue[v]
      BY <1>1, Parts DEF Types
    <2>2. /\ Len(queue[w]) \in Nat /\ Len(queue'[w]) = Len(queue[w]) - 1
          /\ \A i \in 1..(Len(queue[w]) - 1) : queue'[w][i] = queue[w][i + 1]
      <3>1. \A q \in Seq(Fds) : q # << >> =>
              /\ Len(q) \in Nat /\ Len(Tail(q)) = Len(q) - 1
              /\ \A i \in 1..(Len(q) - 1) : Tail(q)[i] = q[i + 1]
        OBVIOUS
      <3>2. QED
        BY <1>1, <2>1, <3>1
    <2> SUFFICES ASSUME NEW u \in Workers, NEW v \in Workers,
                        NEW i \in 1..Len(queue'[u]), NEW j \in 1..Len(queue'[v]),
                        queue'[u][i] = queue'[v][j]
                 PROVE  u = v /\ i = j
      BY DEF QueuedOnce
    <2>3. ASSUME NEW x \in Workers, NEW k \in 1..Len(queue'[x])
          PROVE  /\ x # w => k \in 1..Len(queue[x]) /\ queue'[x][k] = queue[x][k]
                 /\ x = w => k + 1 \in 1..Len(queue[x]) /\ queue'[x][k] = queue[x][k + 1]
      <3>1. CASE x = w
        BY <2>2, <2>3, <3>1
      <3>2. CASE x # w
        BY <2>1, <2>3, <3>2
      <3>3. QED
        BY <3>1, <3>2
    <2>4. QED
      BY <2>3, Parts, SMTT(30) DEF QueuedOnce
  <1>7. /\ worker'[w].at = "new" /\ worker'[w].fd = f
        /\ \A v \in Workers : v # w => worker'[v] = worker[v]
        /\ \A v \in Workers : worker[v].at # "idle" => worker[v].fd # f
    <2>1. \A v \in Workers : worker[v].at # "idle" => worker[v].fd # f
      BY <1>4, Parts DEF Starting, Leaving, Types
    <2>2. QED
      BY <1>1, <2>1, Parts DEF Types
  <1>8. OneWorker'
    BY <1>7, Parts DEF OneWorker
  <1>9. Owned'
    <2>1. owner'[f] = w /\ \A fd \in Fds : fd # f => owner'[fd] = owner[fd]
      BY <1>1, Parts DEF Types
    <2>2. \A v \in Workers : worker'[v].at = "new" => owner'[worker'[v].fd] = v
      <3>1. \A v \in Workers : worker[v].fd \in Fds
        BY Parts DEF Types
      <3>2. QED
        BY <1>7, <2>1, <3>1, Parts DEF Owned
    <2>3. \A fd \in Fds : InTable(fd)' => owner'[fd] # NULL
      BY <1>1, <1>4, <2>1, Parts DEF Owned
    <2>4. \A fd \in Fds, v \in Workers :
            owner'[fd] = v => InTable(fd)' \/ (worker'[v].at = "new" /\ worker'[v].fd = fd)
      BY <1>1, <1>7, <2>1, Parts DEF Owned
    <2>5. QED
      BY <2>2, <2>3, <2>4 DEF Owned
  <1>10. Counted' /\ Table' = Table /\ Flagged' = Flagged
    BY <1>2, Parts DEF Counted, Table, Flagged, InTable
  <1>11. OneUnflagged' /\ Reserved'
    BY <1>1, <1>2, <1>10, Parts DEF OneUnflagged, Reserved, Unflagged
  <1>12. BelowTaken' /\ AdmittedFits'
    BY <1>1, <1>2, Parts DEF BelowTaken, AdmittedFits, NoService
  <1>13. QED
    BY <1>3, <1>5, <1>6, <1>8, <1>9, <1>10, <1>11, <1>12 DEF IInv

(* Counting uses up what was reserved. *)
LEMMA IncreaseIInv ==
  ASSUME IInv, NEW w \in Workers, IncreaseConn(w)
  PROVE  IInv'
  <1>1. PICK f \in Fds :
           /\ worker[w].at = "new" /\ worker[w].fd = f
           /\ worker' = [worker EXCEPT ![w] = Idle]
           /\ conns' = [conns EXCEPT ![f] = files[f]] /\ files[f] \in Clients
           /\ Starting(f) /\ ~InTable(f)
           /\ \A fd \in Fds :
                /\ WithAccept(fd)' <=> WithAccept(fd)
                /\ InQueue(fd)' <=> InQueue(fd)
                /\ Starting(fd)' <=> Starting(fd) /\ fd # f
                /\ Leaving(fd)' <=> Leaving(fd)
                /\ InTable(fd)' <=> InTable(fd) \/ fd = f
                /\ Admitted(fd)' <=> Admitted(fd) /\ fd # f
    BY IncreasePlaces
  <1>2. /\ UNCHANGED <<backlog, files, accepting, queue, owner, why>>
        /\ _cur_conns' = _cur_conns + 1
    BY DEF IncreaseConn
  <1>3. Types'
    <2>1. worker' \in [Workers -> [at : {"idle", "new", "close"}, fd : Fds]]
      BY <1>1, FdsFinite, Parts DEF Types, Idle
    <2>2. conns' \in [Fds -> Clients \cup {NULL, JUNK}]
      BY <1>1, Parts DEF Types
    <2>3. QED
      BY <1>2, <2>1, <2>2, Parts DEF Types
  <1>4. /\ worker'[w].at = "idle"
        /\ \A v \in Workers : v # w => worker'[v] = worker[v]
    BY <1>1, Parts DEF Types, Idle
  <1>5. ~WithAccept(f) /\ ~InQueue(f) /\ ~Leaving(f)
    <2>1. ~Leaving(f)
      BY <1>1, Parts DEF OneWorker, Leaving
    <2>2. QED
      BY <1>1, <2>1, Parts DEF Exclusive, WithWorker
  <1>6. Held' /\ Accounted' /\ Exclusive'
    BY <1>1, <1>2, <1>5, Parts DEF Held, Accounted, Exclusive, WithWorker
  <1>7. conns'[f] = files[f] /\ \A fd \in Fds : fd # f => conns'[fd] = conns[fd]
    BY <1>1, Parts DEF Types
  <1>8. Mirrored'
    BY <1>1, <1>2, <1>7, Parts DEF Mirrored
  <1>9. QueuedOnce' /\ OneWorker'
    BY <1>2, <1>4, Parts DEF QueuedOnce, OneWorker
  <1>10. Owned'
    <2>1. owner[f] = w /\ w # NULL
      BY <1>1, Parts, TcpServerConstants DEF Owned
    <2>2. QED
      BY <1>1, <1>2, <1>4, <2>1, Parts DEF Owned
  <1>11. /\ Table' = Table \cup {f} /\ f \notin Table
         /\ "pending" \in why[f] => Flagged' = Flagged \cup {f}
         /\ "pending" \notin why[f] => Flagged' = Flagged
         /\ f \notin Flagged
    BY <1>1, <1>2 DEF Table, Flagged, InTable
  <1>12. /\ Cardinality(Table') = Cardinality(Table) + 1
         /\ Cardinality(Flagged \cup {f}) = Cardinality(Flagged) + 1
    BY <1>11, TableFinite, FS_AddElement
  <1>13. Counted'
    BY <1>2, <1>12, Parts DEF Counted
  <1>14. Admitted(f)
    BY <1>1 DEF Admitted
  <1>15. \A fd \in Fds : Unflagged(fd)' <=> Unflagged(fd) /\ fd # f
    BY <1>1, <1>2 DEF Unflagged
  <1>16. OneUnflagged'
    BY <1>15, Parts DEF OneUnflagged
  <1>17. Reserved'
    <2>1. _cur_conns \in Nat /\ MaxConns \in Nat /\ Cardinality(Flagged) \in Nat
      BY TableFinite, TcpServerConstants, Parts DEF Types
    <2>2. CASE "pending" \in why[f]
      BY <1>2, <1>11, <1>12, <1>15, <2>1, <2>2, Parts DEF Reserved
    <2>3. CASE "pending" \notin why[f]
      <3>1. Unflagged(f)
        BY <1>14, <2>3 DEF Unflagged
      <3>2. _cur_conns + 1 <= MaxConns + Cardinality(Flagged)
        BY <3>1, Parts DEF Reserved
      <3>3. \A fd \in Fds : ~Unflagged(fd)'
        BY <1>15, <3>1, Parts DEF OneUnflagged
      <3>4. QED
        BY <1>2, <1>11, <2>3, <3>2, <3>3 DEF Reserved
    <2>4. QED
      BY <2>2, <2>3
  <1>18. BelowTaken' /\ AdmittedFits'
    BY <1>1, <1>2, <1>14, Parts DEF BelowTaken, AdmittedFits, NoService
  <1>19. QED
    BY <1>3, <1>6, <1>8, <1>9, <1>10, <1>13, <1>16, <1>17, <1>18 DEF IInv

LEMMA DecreaseIInv ==
  ASSUME IInv, NEW w \in Workers, NEW f \in Fds, DecreaseConn(w, f)
  PROVE  IInv'
  <1>1. /\ InTable(f)
        /\ \A fd \in Fds :
             /\ WithAccept(fd)' <=> WithAccept(fd)
             /\ InQueue(fd)' <=> InQueue(fd)
             /\ Starting(fd)' <=> Starting(fd)
             /\ Leaving(fd)' <=> Leaving(fd) \/ fd = f
             /\ InTable(fd)' <=> InTable(fd) /\ fd # f
             /\ Admitted(fd)' <=> Admitted(fd)
    BY DecreasePlaces
  <1>2. /\ UNCHANGED <<backlog, files, accepting, queue>>
        /\ worker[w].at = "idle" /\ owner[f] = w
        /\ conns' = [conns EXCEPT ![f] = NULL]
        /\ _cur_conns' = _cur_conns - 1
        /\ owner' = [owner EXCEPT ![f] = NULL]
        /\ worker' = [worker EXCEPT ![w] = [at |-> "close", fd |-> f]]
        /\ why' = IF accepting.at = "accepted"
                    THEN [why EXCEPT ![accepting.fd] = @ \cup {"closing"}] ELSE why
    BY DEF DecreaseConn
  <1>3. \A fd \in Fds :
          /\ "pending" \in why'[fd] <=> "pending" \in why[fd]
          /\ why'[fd] = {} => why[fd] = {}
    BY <1>2, Parts DEF Types
  <1>4. accepting.at = "accepted" => why'[accepting.fd] # {}
    BY <1>2, Parts DEF Types
  <1>5. /\ Table' = Table \ {f} /\ f \in Table
        /\ Flagged' = Flagged \ {f}
    <2>1. \A fd \in Fds : conns'[fd] = IF fd = f THEN NULL ELSE conns[fd]
      BY <1>2, Parts DEF Types
    <2>2. QED
      BY <1>1, <1>3, <2>1 DEF Table, Flagged, InTable
  <1>6. /\ Cardinality(Table') = Cardinality(Table) - 1 /\ Cardinality(Table') \in Nat
        /\ \/ Cardinality(Flagged') = Cardinality(Flagged) - 1
           \/ Cardinality(Flagged') = Cardinality(Flagged)
    <2>1. Cardinality(Table \ {f}) = Cardinality(Table) - 1
      BY <1>5, TableFinite, FS_RemoveElement
    <2>2. IsFiniteSet(Table \ {f}) /\ Cardinality(Table \ {f}) \in Nat
      BY TableFinite, FS_RemoveElement, FS_CardinalityType
    <2>3. Cardinality(Flagged \ {f}) = IF f \in Flagged THEN Cardinality(Flagged) - 1
                                                       ELSE Cardinality(Flagged)
      BY TableFinite, FS_RemoveElement
    <2>4. QED
      BY <1>5, <2>1, <2>2, <2>3
  <1>7. Counted' /\ _cur_conns' \in Nat
    BY <1>2, <1>6, Parts DEF Counted
  <1>8. Types'
    <2>1. /\ conns' \in [Fds -> Clients \cup {NULL, JUNK}]
          /\ owner' \in [Fds -> Workers \cup {NULL}]
      BY <1>2, Parts DEF Types
    <2>2. worker' \in [Workers -> [at : {"idle", "new", "close"}, fd : Fds]]
      BY <1>2, Parts DEF Types
    <2>3. why' \in [Fds -> SUBSET {"pending", "closing"}]
      BY <1>2, Parts DEF Types
    <2>4. QED
      BY <1>2, <1>7, <2>1, <2>2, <2>3, Parts DEF Types
  <1>9. ~WithAccept(f) /\ ~InQueue(f) /\ ~Starting(f) /\ ~Leaving(f)
    BY <1>1, Parts DEF Exclusive, WithWorker
  <1>10. Held' /\ Accounted' /\ Exclusive'
    BY <1>1, <1>2, <1>9, Parts DEF Held, Accounted, Exclusive, WithWorker
  <1>11. Mirrored'
    BY <1>1, <1>2, Parts DEF Mirrored, Types
  <1>12. /\ worker'[w].at = "close" /\ worker'[w].fd = f
         /\ \A v \in Workers : v # w => worker'[v] = worker[v]
         /\ \A v \in Workers : worker[v].at # "idle" => worker[v].fd # f
    <2>1. \A v \in Workers : worker[v].at # "idle" => worker[v].fd # f
      BY <1>9, Parts DEF Starting, Leaving, Types
    <2>2. QED
      BY <1>2, <2>1, Parts DEF Types
  <1>13. QueuedOnce' /\ OneWorker'
    BY <1>2, <1>12, Parts DEF QueuedOnce, OneWorker
  <1>14. Owned'
    <2>1. owner'[f] = NULL /\ \A fd \in Fds : fd # f => owner'[fd] = owner[fd]
      BY <1>2, Parts DEF Types
    <2>2. NULL \notin Workers
      BY TcpServerConstants
    <2>3. \A v \in Workers : worker'[v].at = "new" => owner'[worker'[v].fd] = v
      <3>1. \A v \in Workers : worker[v].fd \in Fds
        BY Parts DEF Types
      <3>2. QED
        BY <1>12, <2>1, <3>1, Parts DEF Owned
    <2>4. \A fd \in Fds : InTable(fd)' => owner'[fd] # NULL
      BY <1>1, <2>1, Parts DEF Owned
    <2>5. \A fd \in Fds, v \in Workers :
            owner'[fd] = v => InTable(fd)' \/ (worker'[v].at = "new" /\ worker'[v].fd = fd)
      BY <1>1, <1>2, <1>12, <2>1, <2>2, Parts DEF Owned
    <2>6. QED
      BY <2>3, <2>4, <2>5 DEF Owned
  <1>15. \A fd \in Fds : Unflagged(fd)' <=> Unflagged(fd)
    BY <1>1, <1>3 DEF Unflagged
  <1>16. OneUnflagged'
    BY <1>15, Parts DEF OneUnflagged
  <1>17. Reserved'
    <2>1. _cur_conns \in Nat /\ MaxConns \in Nat /\ Cardinality(Flagged) \in Nat
      BY TableFinite, TcpServerConstants, Parts DEF Types
    <2>2. QED
      BY <1>2, <1>6, <1>15, <2>1, Parts DEF Reserved
  <1>18. BelowTaken'
    BY <1>2, <1>4 DEF BelowTaken
  <1>19. AdmittedFits'
    BY <1>1, <1>2, <1>3, Parts DEF AdmittedFits, NoService
  <1>20. QED
    BY <1>7, <1>8, <1>10, <1>11, <1>13, <1>14, <1>16, <1>17, <1>18, <1>19 DEF IInv

(* close() frees a descriptor that nobody else uses. *)
LEMMA CloseIInv ==
  ASSUME IInv, NEW w \in Workers, CloseFd(w)
  PROVE  IInv'
  <1>1. PICK f \in Fds :
           /\ worker[w].at = "close" /\ worker[w].fd = f
           /\ worker' = [worker EXCEPT ![w] = Idle]
           /\ files' = [files EXCEPT ![f] = NULL] /\ why' = [why EXCEPT ![f] = {}]
           /\ Leaving(f)
           /\ \A fd \in Fds :
                /\ WithAccept(fd)' <=> WithAccept(fd)
                /\ InQueue(fd)' <=> InQueue(fd)
                /\ Starting(fd)' <=> Starting(fd)
                /\ Leaving(fd)' <=> Leaving(fd) /\ fd # f
                /\ InTable(fd)' <=> InTable(fd)
                /\ Admitted(fd)' <=> Admitted(fd)
    BY ClosePlaces
  <1>2. UNCHANGED <<backlog, accepting, queue, owner, conns, _cur_conns>>
    BY DEF CloseFd
  <1>3. Types'
    <2>1. worker' \in [Workers -> [at : {"idle", "new", "close"}, fd : Fds]]
      BY <1>1, FdsFinite, Parts DEF Types, Idle
    <2>2. files' \in [Fds -> Clients \cup {NULL, SERVICE}]
      BY <1>1, Parts DEF Types
    <2>3. why' \in [Fds -> SUBSET {"pending", "closing"}]
      BY <1>1, Parts DEF Types
    <2>4. QED
      BY <1>2, <2>1, <2>2, <2>3, Parts DEF Types
  <1>4. \A fd \in Fds : fd # f => why'[fd] = why[fd] /\ files'[fd] = files[fd]
    BY <1>1, Parts DEF Types
  <1>5. files'[f] = NULL /\ NULL \notin Clients
    BY <1>1, Parts, TcpServerConstants DEF Types
  <1>6. /\ ~WithAccept(f) /\ ~InQueue(f) /\ ~Starting(f) /\ ~InTable(f)
        /\ ~Admitted(f) /\ files[f] \in Clients
    <2>1. ~Starting(f)
      BY <1>1, Parts DEF OneWorker, Starting
    <2>2. ~WithAccept(f) /\ ~InQueue(f) /\ ~InTable(f) /\ files[f] \in Clients
      BY <1>1, Parts DEF Exclusive, Held, WithWorker
    <2>3. QED
      BY <2>1, <2>2 DEF Admitted, WithAccept
  <1>7. Held' /\ Accounted' /\ Exclusive'
    BY <1>1, <1>4, <1>5, <1>6, Parts DEF Held, Accounted, Exclusive, WithWorker
  <1>8. Mirrored'
    BY <1>1, <1>2, <1>4, <1>6, Parts DEF Mirrored
  <1>9. worker'[w].at = "idle" /\ \A v \in Workers : v # w => worker'[v] = worker[v]
    BY <1>1, Parts DEF Types, Idle
  <1>10. QueuedOnce' /\ OneWorker'
    BY <1>2, <1>9, Parts DEF QueuedOnce, OneWorker
  <1>11. Owned'
    BY <1>1, <1>2, <1>9, Parts DEF Owned
  <1>12. Table' = Table /\ Flagged' = Flagged
    BY <1>2, <1>4, <1>6 DEF Table, Flagged, InTable
  <1>13. Counted'
    BY <1>2, <1>12, Parts DEF Counted
  <1>14. \A fd \in Fds : Unflagged(fd)' <=> Unflagged(fd)
    BY <1>1, <1>4, <1>6 DEF Unflagged
  <1>15. OneUnflagged' /\ Reserved'
    BY <1>2, <1>12, <1>14, Parts DEF OneUnflagged, Reserved
  <1>16. NoService' => NoService
    BY <1>4, <1>6, TcpServerConstants DEF NoService
  <1>17. BelowTaken'
    <2>1. accepting.at = "accepted" => accepting.fd # f /\ accepting.fd \in Fds
      BY <1>6, Parts DEF WithAccept, Types
    <2>2. QED
      BY <1>1, <1>2, <1>4, <1>16, <2>1, Parts DEF BelowTaken
  <1>18. AdmittedFits'
    BY <1>1, <1>4, <1>6, <1>16, Parts DEF AdmittedFits
  <1>19. QED
    BY <1>3, <1>7, <1>8, <1>10, <1>11, <1>13, <1>15, <1>17, <1>18 DEF IInv

(* No step of any thread breaks the invariant. *)
LEMMA StepIInv == IInv /\ [Next]_vars => IInv'
  <1> SUFFICES ASSUME IInv, [Next]_vars PROVE IInv'
    OBVIOUS
  <1>1. backlog \subseteq Clients
    BY Parts DEF Types
  <1>2. CASE \E c \in Clients : Connect(c)
    BY <1>1, <1>2, ConnectIInv DEF Connect
  <1>3. CASE AcceptEMFILE \/ UNCHANGED vars
    BY <1>1, <1>3, ConnectIInv DEF AcceptEMFILE, vars
  <1>4. CASE MainThread
    BY <1>4, AcceptIInv, GetConnNumIInv, RefuseIInv, SendIInv DEF MainThread
  <1>5. CASE \E w \in Workers : WorkerThread(w)
    BY <1>5, NewConnIInv, IncreaseIInv, CloseIInv DEF WorkerThread
  <1>6. CASE \E w \in Workers, fd \in Fds : DecreaseConn(w, fd)
    BY <1>6, DecreaseIInv
  <1>7. QED
    BY <1>2, <1>3, <1>4, <1>5, <1>6 DEF Next

-----------------------------------------------------------------------------
(* The theorems. *)

(***************************************************************************)
(* IInv holds throughout: a descriptor is in one place at a time, whatever *)
(* the threads do and however soon the kernel hands it out again.          *)
(***************************************************************************)
THEOREM ServerInvariant == Spec => []IInv
  BY InitIInv, StepIInv, PTL DEF Spec

(***************************************************************************)
(* The table conns shows the connection that holds a descriptor now, and   *)
(* _cur_conns counts its entries: neither the reuse of a descriptor nor    *)
(* increase_conn and decrease_conn in several workers spoil it.            *)
(***************************************************************************)
THEOREM TableIsExact == Spec => []TableMirrors
  <1>1. IInv => TableMirrors
    <2> SUFFICES ASSUME IInv PROVE TableMirrors
      OBVIOUS
    <2>1. TypeOK
      <3>1. \A w \in Workers : Range(queue[w]) \subseteq Fds
        BY Parts DEF Types, Range
      <3>2. accepting \in [at : Steps, fd : Fds]
        BY Parts DEF Types, Steps
      <3>3. worker \in [Workers -> [at : Steps, fd : Fds]]
        BY Parts DEF Types, Steps
      <3>4. QED
        BY <3>1, <3>2, <3>3, Parts DEF Types, TypeOK
    <2>2. Table = Entered
      BY DEF Table, InTable, Entered
    <2>3. \A fd \in Entered : files[fd] = conns[fd] /\ owner[fd] # NULL
      BY <2>2, Parts DEF Mirrored, Owned, Table
    <2>4. \A w \in Workers, fd \in Fds :
            worker[w].at = "idle" /\ owner[fd] = w => fd \in Entered
      BY <2>2, Parts DEF Owned, Table
    <2>5. _cur_conns = Cardinality(Entered)
      BY <2>2, Parts DEF Counted
    <2>6. QED
      BY <2>1, <2>3, <2>4, <2>5 DEF TableMirrors
  <1>2. QED
    BY <1>1, ServerInvariant, PTL

(***************************************************************************)
(* _max_conns is exceeded by as many connections as do_accept tested while *)
(* another one was on its way to its worker, and by no more, for any       *)
(* number of workers and any length of their queues.                       *)
(***************************************************************************)
THEOREM LimitIsExceededByPending == Spec => []OverLimitOnlyIfPending
  <1>1. IInv => OverLimitOnlyIfPending
    <2>1. {fd \in Entered : "pending" \in why[fd]} = Flagged
      BY DEF Flagged, InTable, Entered
    <2>2. QED
      BY <2>1, Parts DEF Reserved, OverLimitOnlyIfPending
  <1>2. QED
    BY <1>1, ServerInvariant, PTL

(***************************************************************************)
(* Memory beyond conns is written only after a disturbed test, or because  *)
(* the service opened descriptors of its own: as the kernel hands out the  *)
(* lowest free one, a connection admitted undisturbed has its entry.       *)
(***************************************************************************)
THEOREM UndisturbedStaysInBounds == Spec => []OutOfBoundsOnlyIf
  <1>1. IInv => OutOfBoundsOnlyIf
    <2> SUFFICES ASSUME IInv, NEW fd \in Fds, InTable(fd), fd >= ConnsSize,
                        why[fd] = {}, SERVICE \notin Range(files)
                 PROVE  FALSE
      BY DEF OutOfBoundsOnlyIf, Entered, InTable
    <2>1. NoService
      BY Parts DEF Types, Range, NoService
    <2>2. fd < MaxConns
      BY <2>1, Parts DEF AdmittedFits
    <2>3. QED
      BY <2>2, FdsFinite, TcpServerConstants DEF ConnsSize
  <1>2. QED
    BY <1>1, ServerInvariant, PTL
=============================================================================
