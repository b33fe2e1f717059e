-------------------------- MODULE ThreadPoolProofs --------------------------
(***************************************************************************)
(* Proofs about ThreadPool, for any number of workers, connections and     *)
(* tasks.  IInv is inductive: NoLostWakeup alone is not, because it says   *)
(* nothing of a queue whose mutex is held.  LockHolders ties the mutex to  *)
(* the thread that holds it, CriticalSections says what holds half way     *)
(* through send() and recv(), BatchDrained that a batch is used up before  *)
(* the next one is taken.                                                  *)
(*                                                                         *)
(* The refinement of TaskDelivery rests on it: Give demands a message that *)
(* the worker has never seen (Unseen), batches are invisible because one   *)
(* is used up before the next, and Deal and Execute take a message out of  *)
(* the three parts of Pending where Connect and Run do.                    *)
(***************************************************************************)
EXTENDS ThreadPool, SequenceTheorems, TLAPS

(* The invariant holds of a pool none of whose threads has run yet. *)
LEMMA InitIInv == Init => IInv
  BY NAssumption
  DEF Init, IInv, TypeOK, LockHolders, LockHolder, CriticalSections, HalfDone,
      BatchDrained, Drained, NoLostWakeup, Signalled,
      Workers, Acceptor, Backend, Free, Nobody, Job

(* A queue that something was just pushed on is not empty. *)
LEMMA AppendNonempty ==
  ASSUME NEW S, NEW s \in Seq(S), NEW x \in S
  PROVE  Append(s, x) # << >>
  <1>1. Len(Append(s, x)) = Len(s) + 1 /\ Len(s) \in Nat
    OBVIOUS
  <1>2. QED
    BY <1>1

(* The holders of a mutex are in the range of lock, and all different. *)
LEMMA Holders ==
  /\ Acceptor \in 0..(N + 2) /\ Backend \in 0..(N + 2) /\ Free \in 0..(N + 2)
  /\ Acceptor # Backend /\ Acceptor # Free /\ Backend # Free
  /\ \A w \in Workers : w \in 0..(N + 2) /\ w # Acceptor /\ w # Backend /\ w # Free
  BY NAssumption DEF Acceptor, Backend, Free, Workers

(* get_thread stays inside the array of queues, and so does its next call. *)
LEMMA NextIndexInRange ==
  ASSUME TypeOK
  PROVE  NextIndex \in Workers /\ NextIndex + 1 \in 0..N
  BY NAssumption DEF TypeOK, NextIndex, Workers

-----------------------------------------------------------------------------
(* The accepting thread. *)

(* Picking a worker touches no queue. *)
LEMMA GetThreadIInv ==
  ASSUME IInv, NEW c \in Conns, GetThread(c)
  PROVE  IInv'
  <1>1. TypeOK /\ LockHolders /\ CriticalSections /\ BatchDrained /\ NoLostWakeup
    BY DEF IInv
  <1>2. TypeOK'
    <2>1. index' \in 0..N /\ NextIndex \in Workers
      BY <1>1, NextIndexInRange DEF GetThread
    <2>2. aconn' \in Job /\ aconn'.to \in Workers /\ aconn'.msg \in Conns
      BY <2>1, NAssumption DEF GetThread, Job, Workers, Msgs
    <2>3. QED
      BY <1>1, <2>1, <2>2 DEF TypeOK, GetThread, poolVars
  <1>3. LockHolders'
    BY <1>1 DEF LockHolders, LockHolder, GetThread, poolVars, Acceptor, Backend, Free
  <1>4. CriticalSections' /\ BatchDrained' /\ NoLostWakeup'
    BY <1>1
    DEF CriticalSections, HalfDone, BatchDrained, Drained, NoLostWakeup, Signalled,
        GetThread, poolVars, Acceptor, Backend, Free
  <1>5. QED
    BY <1>2, <1>3, <1>4 DEF IInv

(* send() of the accepting thread: lock and push. *)
LEMMA AcceptPushIInv ==
  ASSUME IInv, AcceptPush
  PROVE  IInv'
  <1> DEFINE u == aconn.to
  <1>1. TypeOK /\ LockHolders /\ CriticalSections /\ BatchDrained /\ NoLostWakeup
    BY DEF IInv
  <1>2. u \in Workers /\ aconn.msg \in Msgs /\ aconn \in Job
    BY <1>1 DEF TypeOK, AcceptPush, Msgs
  <1>3. aconn' \in Job /\ aconn'.to = u /\ aconn'.step = "write" /\ aconn'.msg \in Conns
    BY <1>1, <1>2 DEF AcceptPush, Job, TypeOK
  <1>4. /\ lock'[u] = Acceptor
        /\ queue'[u] = Append(queue[u], aconn.msg)
        /\ evfd' = evfd
    BY <1>1, <1>2 DEF AcceptPush, Push, TypeOK
  <1>5. TypeOK'
    <2>1. queue' \in [Workers -> Seq(Msgs)]
      BY <1>1, <1>2 DEF TypeOK, AcceptPush, Push
    <2>2. lock' \in [Workers -> 0..(N + 2)]
      BY <1>1, <1>2, Holders DEF TypeOK, AcceptPush, Push
    <2>3. QED
      BY <1>1, <1>2, <1>3, <2>1, <2>2 DEF TypeOK, AcceptPush, Push, poolVars
  <1>6. ASSUME NEW v \in Workers
        PROVE  LockHolder(v)' /\ HalfDone(v)' /\ Signalled(v)'
    <2>1. CASE v = u
      <3>1. wpc[u] # "swap" /\ ~(btask.step = "write" /\ btask.to = u)
        BY <1>1, <1>2, NAssumption
        DEF AcceptPush, Push, LockHolders, LockHolder, Backend, Free, Workers
      <3>2. queue'[u] # << >>
        <4>1. queue[u] \in Seq(Msgs)
          BY <1>1, <1>2 DEF TypeOK
        <4>2. QED
          BY <1>2, <1>4, <4>1, AppendNonempty
      <3>3. QED
        BY <2>1, <3>1, <3>2, <1>2, <1>3, <1>4, NAssumption
        DEF AcceptPush, poolVars, LockHolder, HalfDone, Signalled, Acceptor,
            Backend, Free, Workers
    <2>2. CASE v # u
      <3>1. lock'[v] = lock[v] /\ queue'[v] = queue[v] /\ evfd'[v] = evfd[v]
        BY <1>1, <1>2, <2>2 DEF AcceptPush, Push, TypeOK
      <3>2. QED
        BY <1>1, <1>3, <2>2, <3>1
        DEF LockHolders, LockHolder, CriticalSections, HalfDone, NoLostWakeup,
            Signalled,
            AcceptPush, poolVars, Acceptor, Backend, Free
    <2>3. QED
      BY <2>1, <2>2
  <1>7. BatchDrained'
    BY <1>1 DEF BatchDrained, Drained, AcceptPush, poolVars
  <1>8. QED
    BY <1>5, <1>6, <1>7 DEF IInv, LockHolders, CriticalSections, NoLostWakeup

(* send() of the accepting thread: write the eventfd and unlock. *)
LEMMA AcceptWriteIInv ==
  ASSUME IInv, AcceptWrite
  PROVE  IInv'
  <1> DEFINE u == aconn.to
  <1>1. TypeOK /\ LockHolders /\ CriticalSections /\ BatchDrained /\ NoLostWakeup
    BY DEF IInv
  <1>2. u \in Workers /\ aconn \in Job
    BY <1>1 DEF TypeOK, AcceptWrite
  <1>3. aconn' \in Job /\ aconn'.step = "idle"
    BY NAssumption DEF AcceptWrite, Nobody, Job
  <1>4. lock'[u] = Free /\ lock[u] = Acceptor /\ evfd'[u] > 0 /\ queue' = queue
    BY <1>1, <1>2 DEF AcceptWrite, Write, TypeOK
  <1>5. TypeOK'
    <2>1. evfd' \in [Workers -> Nat]
      BY <1>1, <1>2 DEF TypeOK, AcceptWrite, Write
    <2>2. lock' \in [Workers -> 0..(N + 2)]
      BY <1>1, <1>2, Holders DEF TypeOK, AcceptWrite, Write
    <2>3. QED
      BY <1>1, <1>3, <2>1, <2>2 DEF TypeOK, AcceptWrite, Write, poolVars
  <1>6. ASSUME NEW v \in Workers
        PROVE  LockHolder(v)' /\ HalfDone(v)' /\ Signalled(v)'
    <2>1. CASE v = u
      <3>1. wpc[u] # "swap" /\ ~(btask.step = "write" /\ btask.to = u)
        BY <1>1, <1>2, <1>4, NAssumption
        DEF LockHolders, LockHolder, Acceptor, Backend, Workers
      <3>2. queue[u] # << >>
        BY <1>1, <1>2, <1>4 DEF CriticalSections, HalfDone
      <3>3. QED
        BY <2>1, <3>1, <3>2, <1>2, <1>3, <1>4, NAssumption
        DEF AcceptWrite, poolVars, LockHolder, HalfDone, Signalled, Acceptor,
            Backend, Free, Workers
    <2>2. CASE v # u
      <3>1. lock'[v] = lock[v] /\ queue'[v] = queue[v] /\ evfd'[v] = evfd[v]
        BY <1>1, <1>2, <2>2 DEF AcceptWrite, Write, TypeOK
      <3>2. QED
        BY <1>1, <1>3, <2>2, <3>1
        DEF LockHolders, LockHolder, CriticalSections, HalfDone, NoLostWakeup,
            Signalled,
            AcceptWrite, poolVars, Acceptor, Backend, Free
    <2>3. QED
      BY <2>1, <2>2
  <1>7. BatchDrained'
    BY <1>1 DEF BatchDrained, Drained, AcceptWrite, poolVars
  <1>8. QED
    BY <1>5, <1>6, <1>7 DEF IInv, LockHolders, CriticalSections, NoLostWakeup

-----------------------------------------------------------------------------
(* The backend thread. *)

(* Starting a broadcast touches no queue. *)
LEMMA SendTaskIInv ==
  ASSUME IInv, NEW t \in Tasks, SendTask(t)
  PROVE  IInv'
  <1>1. TypeOK /\ LockHolders /\ CriticalSections /\ BatchDrained /\ NoLostWakeup
    BY DEF IInv
  <1>2. TypeOK'
    <2>1. btask' \in Job /\ btask'.to \in Workers /\ btask'.msg \in Tasks
      BY NAssumption DEF SendTask, Job, Workers, Msgs
    <2>2. QED
      BY <1>1, <2>1 DEF TypeOK, SendTask, poolVars
  <1>3. LockHolders'
    BY <1>1 DEF LockHolders, LockHolder, SendTask, poolVars, Acceptor, Backend, Free
  <1>4. CriticalSections' /\ BatchDrained' /\ NoLostWakeup'
    BY <1>1
    DEF CriticalSections, HalfDone, BatchDrained, Drained, NoLostWakeup, Signalled,
        SendTask, poolVars, Acceptor, Backend, Free
  <1>5. QED
    BY <1>2, <1>3, <1>4 DEF IInv

(* send() of the backend thread: lock and push. *)
LEMMA TaskPushIInv ==
  ASSUME IInv, TaskPush
  PROVE  IInv'
  <1> DEFINE u == btask.to
  <1>1. TypeOK /\ LockHolders /\ CriticalSections /\ BatchDrained /\ NoLostWakeup
    BY DEF IInv
  <1>2. u \in Workers /\ btask.msg \in Msgs /\ btask \in Job
    BY <1>1 DEF TypeOK, TaskPush, Msgs
  <1>3. btask' \in Job /\ btask'.to = u /\ btask'.step = "write" /\ btask'.msg \in Tasks
    BY <1>1, <1>2 DEF TaskPush, Job, TypeOK
  <1>4. /\ lock'[u] = Backend
        /\ queue'[u] = Append(queue[u], btask.msg)
        /\ evfd' = evfd
    BY <1>1, <1>2 DEF TaskPush, Push, TypeOK
  <1>5. TypeOK'
    <2>1. queue' \in [Workers -> Seq(Msgs)]
      BY <1>1, <1>2 DEF TypeOK, TaskPush, Push
    <2>2. lock' \in [Workers -> 0..(N + 2)]
      BY <1>1, <1>2, Holders DEF TypeOK, TaskPush, Push
    <2>3. QED
      BY <1>1, <1>2, <1>3, <2>1, <2>2 DEF TypeOK, TaskPush, Push, poolVars, Msgs
  <1>6. ASSUME NEW v \in Workers
        PROVE  LockHolder(v)' /\ HalfDone(v)' /\ Signalled(v)'
    <2>1. CASE v = u
      <3>1. wpc[u] # "swap" /\ ~(aconn.step = "write" /\ aconn.to = u)
        BY <1>1, <1>2, NAssumption
        DEF TaskPush, Push, LockHolders, LockHolder, Acceptor, Free, Workers
      <3>2. queue'[u] # << >>
        <4>1. queue[u] \in Seq(Msgs)
          BY <1>1, <1>2 DEF TypeOK
        <4>2. QED
          BY <1>2, <1>4, <4>1, AppendNonempty
      <3>3. QED
        BY <2>1, <3>1, <3>2, <1>2, <1>3, <1>4, NAssumption
        DEF TaskPush, poolVars, LockHolder, HalfDone, Signalled, Acceptor, Backend,
            Free, Workers
    <2>2. CASE v # u
      <3>1. lock'[v] = lock[v] /\ queue'[v] = queue[v] /\ evfd'[v] = evfd[v]
        BY <1>1, <1>2, <2>2 DEF TaskPush, Push, TypeOK
      <3>2. QED
        BY <1>1, <1>3, <2>2, <3>1
        DEF LockHolders, LockHolder, CriticalSections, HalfDone, NoLostWakeup,
            Signalled,
            TaskPush, poolVars, Acceptor, Backend, Free
    <2>3. QED
      BY <2>1, <2>2
  <1>7. BatchDrained'
    BY <1>1 DEF BatchDrained, Drained, TaskPush, poolVars
  <1>8. QED
    BY <1>5, <1>6, <1>7 DEF IInv, LockHolders, CriticalSections, NoLostWakeup

(* send() of the backend thread: write the eventfd and unlock. *)
LEMMA TaskWriteIInv ==
  ASSUME IInv, TaskWrite
  PROVE  IInv'
  <1> DEFINE u == btask.to
  <1>1. TypeOK /\ LockHolders /\ CriticalSections /\ BatchDrained /\ NoLostWakeup
    BY DEF IInv
  <1>2. u \in Workers /\ btask \in Job
    BY <1>1 DEF TypeOK, TaskWrite
  <1>3. /\ btask' \in Job /\ btask'.step # "write"
        /\ btask'.step # "idle" => btask'.to \in Workers /\ btask'.msg \in Tasks
    <2>1. CASE u + 1 < N
      <3>1. u + 1 \in Workers /\ u + 1 \in 0..N
        BY <1>2, <2>1, NAssumption DEF Workers
      <3>2. btask' = [btask EXCEPT !.to = u + 1, !.step = "push"]
        BY <2>1 DEF TaskWrite
      <3>3. btask.msg \in Tasks
        BY <1>1 DEF TypeOK, TaskWrite
      <3>4. QED
        BY <1>2, <3>1, <3>2, <3>3 DEF Job
    <2>2. CASE ~(u + 1 < N)
      BY <2>2, NAssumption DEF TaskWrite, Nobody, Job
    <2>3. QED
      BY <2>1, <2>2
  <1>4. lock'[u] = Free /\ lock[u] = Backend /\ evfd'[u] > 0 /\ queue' = queue
    BY <1>1, <1>2 DEF TaskWrite, Write, TypeOK
  <1>5. TypeOK'
    <2>1. evfd' \in [Workers -> Nat]
      <3>1. evfd' = [evfd EXCEPT ![u] = @ + 1]
        BY DEF TaskWrite, Write
      <3>2. QED
        BY <1>1, <1>2, <3>1 DEF TypeOK
    <2>2. lock' \in [Workers -> 0..(N + 2)]
      <3>1. lock' = [lock EXCEPT ![u] = Free]
        BY DEF TaskWrite, Write
      <3>2. QED
        BY <1>1, <1>2, <3>1, Holders DEF TypeOK
    <2>3. UNCHANGED <<queue, poolVars, index, aconn, unused>>
      BY DEF TaskWrite, Write
    <2>4. QED
      BY <1>1, <1>3, <2>1, <2>2, <2>3 DEF TypeOK, poolVars
  <1>6. ASSUME NEW v \in Workers
        PROVE  LockHolder(v)' /\ HalfDone(v)' /\ Signalled(v)'
    <2>1. CASE v = u
      <3>1. wpc[u] # "swap" /\ ~(aconn.step = "write" /\ aconn.to = u)
        BY <1>1, <1>2, <1>4, NAssumption
        DEF LockHolders, LockHolder, Acceptor, Backend, Workers
      <3>2. queue[u] # << >>
        BY <1>1, <1>2, <1>4 DEF CriticalSections, HalfDone
      <3>3. QED
        BY <2>1, <3>1, <3>2, <1>2, <1>3, <1>4, NAssumption
        DEF TaskWrite, poolVars, LockHolder, HalfDone, Signalled, Acceptor, Backend,
            Free, Workers
    <2>2. CASE v # u
      <3>1. lock'[v] = lock[v] /\ queue'[v] = queue[v] /\ evfd'[v] = evfd[v]
        BY <1>1, <1>2, <2>2 DEF TaskWrite, Write, TypeOK
      <3>2. QED
        BY <1>1, <1>3, <2>2, <3>1
        DEF LockHolders, LockHolder, CriticalSections, HalfDone, NoLostWakeup,
            Signalled,
            TaskWrite, poolVars, Acceptor, Backend, Free
    <2>3. QED
      BY <2>1, <2>2
  <1>7. BatchDrained'
    BY <1>1 DEF BatchDrained, Drained, TaskWrite, poolVars
  <1>8. QED
    BY <1>5, <1>6, <1>7 DEF IInv, LockHolders, CriticalSections, NoLostWakeup

-----------------------------------------------------------------------------
(* A worker.  Its steps touch nothing of another worker, and neither aconn *)
(* nor btask.                                                              *)

(* What a step of w leaves as it was keeps the invariant of the others.    *)
LEMMA OtherWorker ==
  ASSUME IInv, NEW w \in Workers, Worker(w), NEW v \in Workers, v # w
  PROVE  LockHolder(v)' /\ HalfDone(v)' /\ Drained(v)' /\ Signalled(v)'
  <1>1. /\ lock'[v] = lock[v] /\ queue'[v] = queue[v] /\ evfd'[v] = evfd[v]
        /\ wpc'[v] = wpc[v] /\ local'[v] = local[v] /\ ready'[v] = ready[v]
        /\ next'[v] = next[v] /\ registered'[v] = registered[v]
        /\ aconn' = aconn /\ btask' = btask
    BY DEF IInv, TypeOK, Worker, ThreadMain, EpollReady, EpollTimeout, RecvRead,
           RecvSwap, Deal, DealDone, Execute, ClearReady
  <1>2. LockHolder(v) /\ HalfDone(v) /\ Drained(v) /\ Signalled(v)
    BY DEF IInv, LockHolders, CriticalSections, BatchDrained, NoLostWakeup
  <1>3. QED
    BY <1>1, <1>2 DEF LockHolder, HalfDone, Drained, Signalled, Acceptor, Backend, Free

(* Every step of a worker keeps the types. *)
LEMMA WorkerTypeOK ==
  ASSUME IInv, NEW w \in Workers, Worker(w)
  PROVE  TypeOK'
  <1>1. TypeOK /\ LockHolders /\ CriticalSections /\ BatchDrained /\ NoLostWakeup
    BY DEF IInv
  <1>2. CASE ThreadMain(w)
    BY <1>1, <1>2 DEF TypeOK, ThreadMain
  <1>3. CASE EpollReady(w)
    BY <1>1, <1>3 DEF TypeOK, EpollReady
  <1>4. CASE EpollTimeout(w)
    BY <1>1, <1>4 DEF TypeOK, EpollTimeout
  <1>5. CASE RecvRead(w)
    BY <1>1, <1>5, Holders DEF TypeOK, RecvRead
  <1>6. CASE RecvSwap(w)
    <2>1. << >> \in Seq(Msgs)
      OBVIOUS
    <2>2. QED
      BY <1>1, <1>6, <2>1, Holders DEF TypeOK, RecvSwap
  <1>7. CASE Deal(w)
    <2>1. local[w] \in Seq(Msgs) /\ local[w] # << >>
      BY <1>1, <1>7 DEF TypeOK, Deal
    <2>2. Tail(local[w]) \in Seq(Msgs)
      BY <2>1
    <2>3. local' \in [Workers -> Seq(Msgs)]
      BY <1>1, <1>7, <2>2 DEF TypeOK, Deal
    <2>4. conns' \in [Workers -> Seq(Conns)] /\ ready' \in [Workers -> Seq(Tasks)]
      <3>1. CASE /\ Head(local[w]) \in Conns
                 /\ conns' = [conns EXCEPT ![w] = Append(@, Head(local[w]))]
                 /\ ready' = ready
        BY <1>1, <3>1 DEF TypeOK
      <3>2. CASE /\ Head(local[w]) \in Tasks
                 /\ ready' = [ready EXCEPT ![w] = Append(@, Head(local[w]))]
                 /\ conns' = conns
        BY <1>1, <3>2 DEF TypeOK
      <3>3. QED
        BY <1>7, <3>1, <3>2 DEF Deal
    <2>5. QED
      BY <1>1, <1>7, <2>3, <2>4 DEF TypeOK, Deal
  <1>8. CASE DealDone(w)
    BY <1>1, <1>8 DEF TypeOK, DealDone
  <1>9. CASE Execute(w)
    <2>1. ready[w] \in Seq(Tasks) /\ next[w] \in 1..Len(ready[w])
      BY <1>1, <1>9 DEF TypeOK, Execute
    <2>2. ready[w][next[w]] \in Tasks
      BY <2>1
    <2>3. done' \in [Workers -> Seq(Tasks)]
      <3>1. done \in [Workers -> Seq(Tasks)]
        BY <1>1 DEF TypeOK
      <3>2. done' = [done EXCEPT ![w] = Append(@, ready[w][next[w]])]
        BY <1>9 DEF Execute
      <3>3. Append(done[w], ready[w][next[w]]) \in Seq(Tasks)
        BY <2>2, <3>1
      <3>4. QED
        BY <3>1, <3>2, <3>3
    <2>4. next' \in [Workers -> Nat \ {0}]
      BY <1>1, <1>9 DEF TypeOK, Execute
    <2>5. QED
      BY <1>1, <1>9, <2>3, <2>4 DEF TypeOK, Execute
  <1>10. CASE ClearReady(w)
    <2>1. << >> \in Seq(Tasks)
      OBVIOUS
    <2>2. QED
      BY <1>1, <1>10, <2>1 DEF TypeOK, ClearReady
  <1>11. QED
    BY <1>2, <1>3, <1>4, <1>5, <1>6, <1>7, <1>8, <1>9, <1>10 DEF Worker

(* Every step of a worker keeps the invariant of its own queue. *)
LEMMA OwnQueue ==
  ASSUME IInv, NEW w \in Workers, Worker(w)
  PROVE  LockHolder(w)' /\ HalfDone(w)' /\ Drained(w)' /\ Signalled(w)'
  <1> USE DEF LockHolder, HalfDone, Drained, Signalled
  <1>1. TypeOK /\ LockHolder(w) /\ HalfDone(w) /\ Drained(w) /\ Signalled(w)
    BY DEF IInv, LockHolders, CriticalSections, BatchDrained, NoLostWakeup
  <1>2. CASE ThreadMain(w)
    BY <1>1, <1>2 DEF TypeOK, ThreadMain, Acceptor, Backend, Free
  <1>3. CASE EpollReady(w)
    BY <1>1, <1>3 DEF TypeOK, EpollReady, Acceptor, Backend, Free
  <1>4. CASE EpollTimeout(w)
    BY <1>1, <1>4 DEF TypeOK, EpollTimeout, Acceptor, Backend, Free
  <1>5. CASE RecvRead(w)
    BY <1>1, <1>5, Holders DEF TypeOK, RecvRead
  <1>6. CASE RecvSwap(w)
    <2>1. /\ lock'[w] = Free /\ queue'[w] = << >> /\ evfd'[w] = 0
          /\ wpc'[w] = "deal" /\ ready'[w] = ready[w] /\ next'[w] = next[w]
          /\ registered'[w] = registered[w] /\ aconn' = aconn /\ btask' = btask
      BY <1>1, <1>6 DEF TypeOK, RecvSwap
    <2>2. QED
      BY <1>1, <1>6, <2>1, Holders DEF TypeOK, RecvSwap, Acceptor, Backend, Free
  <1>7. CASE Deal(w)
    <2>1. /\ lock' = lock /\ queue' = queue /\ evfd' = evfd /\ wpc' = wpc
          /\ next' = next /\ registered' = registered /\ aconn' = aconn /\ btask' = btask
      BY <1>7 DEF Deal
    <2>2. wpc[w] = "deal" /\ next[w] = 1
      BY <1>1, <1>7 DEF Deal
    <2>3. Len(ready'[w]) \in Nat
      BY WorkerTypeOK DEF TypeOK
    <2>4. QED
      BY <1>1, <2>1, <2>2, <2>3 DEF Acceptor, Backend, Free
  <1>8. CASE DealDone(w)
    BY <1>1, <1>8 DEF TypeOK, DealDone, Acceptor, Backend, Free
  <1>9. CASE Execute(w)
    <2>1. next'[w] = next[w] + 1 /\ next[w] <= Len(ready[w]) /\ wpc[w] = "exec"
      BY <1>1, <1>9 DEF TypeOK, Execute
    <2>2. next[w] \in Nat /\ Len(ready[w]) \in Nat
      BY <1>1 DEF TypeOK
    <2>3. QED
      BY <1>1, <1>9, <2>1, <2>2 DEF Execute, Acceptor, Backend, Free
  <1>10. CASE ClearReady(w)
    <2>1. ready'[w] = << >> /\ next'[w] = 1 /\ wpc'[w] = "wait" /\ Len(ready'[w]) = 0
      BY <1>1, <1>10 DEF TypeOK, ClearReady
    <2>2. QED
      BY <1>1, <1>10, <2>1 DEF ClearReady, Acceptor, Backend, Free
  <1>11. QED
    BY <1>2, <1>3, <1>4, <1>5, <1>6, <1>7, <1>8, <1>9, <1>10 DEF Worker

-----------------------------------------------------------------------------
(***************************************************************************)
(* IInv is an invariant of the thread pool: the types, who holds a mutex,  *)
(* what is true half way through send() and recv(), and that a batch is    *)
(* used up before the next recv().                                         *)
(***************************************************************************)
THEOREM PoolInvariant == Spec => []IInv
  <1>1. IInv /\ [Next]_vars => IInv'
    <2> SUFFICES ASSUME IInv, [Next]_vars PROVE IInv'
      OBVIOUS
    <2>1. CASE Producers
      BY <2>1, GetThreadIInv, AcceptPushIInv, AcceptWriteIInv,
         SendTaskIInv, TaskPushIInv, TaskWriteIInv DEF Producers
    <2>2. ASSUME NEW w \in Workers, Worker(w) PROVE IInv'
      <3>1. TypeOK'
        BY <2>2, WorkerTypeOK
      <3>2. ASSUME NEW v \in Workers
            PROVE  LockHolder(v)' /\ HalfDone(v)' /\ Drained(v)' /\ Signalled(v)'
        BY <2>2, OwnQueue, OtherWorker
      <3>3. Workers' = Workers
        BY DEF Workers
      <3>4. QED
        BY <3>1, <3>2, <3>3
        DEF IInv, LockHolders, CriticalSections, BatchDrained, NoLostWakeup
    <2>3. CASE UNCHANGED vars
      BY <2>3 DEF IInv, TypeOK, LockHolders, LockHolder, CriticalSections, HalfDone,
                  BatchDrained, Drained, NoLostWakeup, Signalled, vars, poolVars,
                  Acceptor, Backend, Free
    <2>4. QED
      BY <2>1, <2>2, <2>3 DEF Next
  <1>2. QED
    BY InitIInv, <1>1, PTL DEF Spec

(***************************************************************************)
(* The types hold for any number of workers: get_thread and send_task      *)
(* never index a thread_queue that does not exist.                         *)
(***************************************************************************)
THEOREM PoolTypeCorrect == Spec => []TypeOK
  BY PoolInvariant, PTL DEF IInv

(***************************************************************************)
(* No wake-up is lost, and none is spurious: whenever a thread_queue's     *)
(* mutex is free, its eventfd is readable exactly if the queue holds       *)
(* something, however many senders and workers there are.                  *)
(***************************************************************************)
THEOREM NoWakeupIsLost == Spec => []NoLostWakeup
  BY PoolInvariant, PTL DEF IInv

-----------------------------------------------------------------------------
(***************************************************************************)
(* The refinement.  A message may be handed over once only: Unseen follows *)
(* it from the producers to the workers.                                   *)
(***************************************************************************)

(* The elements of a sequence of one. *)
LEMMA RangeOne == \A x : Range(<<x>>) = {x}
  BY DEF Range

(* The elements of a sequence with one more at its end. *)
LEMMA RangeAppend ==
  ASSUME NEW S, NEW s \in Seq(S), NEW x \in S
  PROVE  Append(s, x) \in Seq(S) /\ Range(Append(s, x)) = Range(s) \cup {x}
  <1>1. Append(s, x) = s \o <<x>> /\ <<x>> \in Seq(S)
    BY AppendIsConcat
  <1>2. Range(s \o <<x>>) = Range(s) \cup Range(<<x>>)
    BY <1>1, RangeConcatenation, SMTT(30)
  <1>3. Append(s, x) \in Seq(S)
    OBVIOUS
  <1>4. QED
    BY <1>1, <1>2, <1>3, RangeOne, Zenon

(* The elements of a sequence whose first one is taken off. *)
LEMMA RangeTail ==
  ASSUME NEW S, NEW s \in Seq(S), s # << >>
  PROVE  /\ Head(s) \in S /\ Tail(s) \in Seq(S)
         /\ Range(s) = {Head(s)} \cup Range(Tail(s))
  <1>1. Head(s) \in S /\ Tail(s) \in Seq(S) /\ <<Head(s)>> \in Seq(S)
    OBVIOUS
  <1>2. s = <<Head(s)>> \o Tail(s)
    OBVIOUS
  <1>3. Range(<<Head(s)>> \o Tail(s)) = Range(<<Head(s)>>) \cup Range(Tail(s))
    BY <1>1, RangeConcatenation, ZenonT(60)
  <1>4. QED
    BY <1>1, <1>2, <1>3, RangeOne, Zenon

(* The elements of a sequence that is cut in two. *)
LEMMA RangeSplit ==
  ASSUME NEW S, NEW s \in Seq(S), NEW n \in 0..Len(s)
  PROVE  /\ SubSeq(s, 1, n) \in Seq(S) /\ SubSeq(s, n + 1, Len(s)) \in Seq(S)
         /\ Range(s) = Range(SubSeq(s, 1, n)) \cup Range(SubSeq(s, n + 1, Len(s)))
  <1>1. Len(s) \in Nat /\ n \in Nat /\ n <= Len(s)
    OBVIOUS
  <1>2. SubSeq(s, 1, n) \in Seq(S) /\ SubSeq(s, n + 1, Len(s)) \in Seq(S)
    BY <1>1
  <1>3. SubSeq(s, 1, n) \o SubSeq(s, n + 1, Len(s)) = s
    <2>1. 1 \in 1..(Len(s) + 1) /\ n \in (1 - 1)..Len(s) /\ Len(s) \in n..Len(s)
      BY <1>1
    <2>2. QED
      BY <2>1, ConcatAdjacentSubSeq, SubSeqFull
  <1>4. QED
    BY <1>2, <1>3, RangeConcatenation, ZenonT(60)

(* A message is appended to a concatenation at the end of its last part. *)
LEMMA ConcatAppend ==
  ASSUME NEW S, NEW s \in Seq(S), NEW t \in Seq(S), NEW x \in S
  PROVE  s \o Append(t, x) = Append(s \o t, x)
  <1>1. Append(t, x) = t \o <<x>> /\ <<x>> \in Seq(S) /\ s \o t \in Seq(S)
    BY AppendIsConcat
  <1>2. Append(s \o t, x) = (s \o t) \o <<x>>
    BY <1>1, AppendIsConcat
  <1>3. (s \o t) \o <<x>> = s \o (t \o <<x>>)
    BY <1>1, ConcatAssociative
  <1>4. QED
    BY <1>1, <1>2, <1>3, Zenon

(* The head and the tail of a concatenation are those of its first part. *)
LEMMA ConcatHeadTail ==
  ASSUME NEW S, NEW s \in Seq(S), NEW t \in Seq(S), s # << >>
  PROVE  /\ s \o t # << >> /\ Head(s \o t) = Head(s)
         /\ Tail(s \o t) = Tail(s) \o t
  OBVIOUS

(* What is left of seq when its element i is taken out. *)
Without(seq, i) == SubSeq(seq, 1, i - 1) \o SubSeq(seq, i + 1, Len(seq))

(* A message in the middle, and what is left when it is taken out. *)
LEMMA TakeFromMiddle ==
  ASSUME NEW s \in Seq(Msgs), NEW t \in Seq(Msgs), NEW x \in Msgs,
         NEW all \in Seq(Msgs), all = s \o (<<x>> \o t)
  PROVE  /\ Len(s) + 1 \in 1..Len(all) /\ all[Len(s) + 1] = x
         /\ \A j \in 1..Len(s) : all[j] = s[j]
         /\ Without(all, Len(s) + 1) = s \o t
  <1> DEFINE u == <<x>> \o t
  <1>1. /\ u \in Seq(Msgs) /\ Len(u) = Len(t) + 1 /\ u[1] = x
        /\ \A i \in 1..Len(t) : u[i + 1] = t[i]
    OBVIOUS
  <1>2. Len(s) \in Nat /\ Len(t) \in Nat
    OBVIOUS
  <1> HIDE DEF u
  <1>3. all = s \o u
    BY DEF u
  <1>4. Len(all) = Len(s) + Len(t) + 1
    BY <1>1, <1>2, <1>3
  <1>5. \A j \in 1..Len(s) : all[j] = s[j]
    BY <1>1, <1>3
  <1>6. \A j \in 1..(Len(t) + 1) : all[Len(s) + j] = u[j]
    BY <1>1, <1>2, <1>3
  <1>7. all[Len(s) + 1] = x
    BY <1>1, <1>2, <1>6
  <1>8. SubSeq(all, 1, Len(s)) = s
    <2>1. /\ SubSeq(all, 1, Len(s)) \in Seq(Msgs) /\ Len(SubSeq(all, 1, Len(s))) = Len(s)
          /\ \A i \in 1..Len(s) : SubSeq(all, 1, Len(s))[i] = all[i]
      BY <1>2, <1>4
    <2>2. QED
      BY <1>5, <2>1, SeqEqual
  <1>9. SubSeq(all, Len(s) + 2, Len(all)) = t
    <2> DEFINE k == Len(s) + 1
               front == SubSeq(all, 1, k)
               back == SubSeq(all, k + 1, Len(all))
    <2>1. k \in Nat /\ k <= Len(all) /\ k + 1 = Len(s) + 2 /\ Len(all) \in Nat
      BY <1>2, <1>4
    <2>2. front = Append(s, x)
      <3>1. /\ front \in Seq(Msgs) /\ Len(front) = k
            /\ \A i \in 1..k : front[i] = all[i]
        BY <2>1
      <3>2. /\ Append(s, x) \in Seq(Msgs) /\ Len(Append(s, x)) = k
            /\ \A i \in 1..k : Append(s, x)[i] = IF i = k THEN x ELSE s[i]
        BY <1>2
      <3>3. \A i \in 1..k : i = k \/ i \in 1..Len(s)
        BY <1>2
      <3>4. \A i \in 1..k : front[i] = Append(s, x)[i]
        BY <1>5, <1>7, <3>1, <3>2, <3>3
      <3>5. QED
        BY <3>1, <3>2, <3>4, SeqEqual
    <2>3. back \in Seq(Msgs)
      BY <2>1
    <2>4. front \o back = all
      <3>1. /\ 1 \in 1..(Len(all) + 1)
            /\ k \in (1 - 1)..Len(all)
            /\ Len(all) \in k..Len(all)
        BY <2>1
      <3> HIDE DEF k
      <3>2. QED
        BY <3>1, ConcatAdjacentSubSeq, SubSeqFull, ZenonT(60)
    <2>5. all = Append(s, x) \o t
      <3>1. Append(s, x) = s \o <<x>> /\ <<x>> \in Seq(Msgs)
        BY AppendIsConcat
      <3>2. (s \o <<x>>) \o t = s \o (<<x>> \o t)
        BY <3>1, ConcatAssociative
      <3>3. QED
        BY <3>1, <3>2, Zenon
    <2> HIDE DEF front, back
    <2>6. Append(s, x) \in Seq(Msgs)
      OBVIOUS
    <2>7. back = t
      <3>1. \A p, q, r \in Seq(Msgs) : p \o q = p \o r => q = r
        BY ConcatSimplifications, Zenon
      <3>2. QED
        BY <2>2, <2>3, <2>4, <2>5, <2>6, <3>1, Zenon
    <2>8. QED
      BY <2>1, <2>7 DEF back
  <1>10. Len(s) + 1 \in 1..Len(all)
    BY <1>2, <1>4
  <1>11. Without(all, Len(s) + 1) = s \o t
    <2>1. (Len(s) + 1) - 1 = Len(s) /\ (Len(s) + 1) + 1 = Len(s) + 2
      BY <1>2
    <2>2. QED
      BY <1>8, <1>9, <2>1, Zenon DEF Without
  <1>12. QED
    BY <1>5, <1>7, <1>10, <1>11, Zenon

(* The same of the concatenation itself. *)
LEMMA TakenOut ==
  \A s, t \in Seq(Msgs), x \in Msgs : Without(s \o (<<x>> \o t), Len(s) + 1) = s \o t
  <1> TAKE s, t \in Seq(Msgs), x \in Msgs
  <1>1. <<x>> \o t \in Seq(Msgs)
    OBVIOUS
  <1>2. s \o (<<x>> \o t) \in Seq(Msgs)
    BY <1>1
  <1>3. PICK all \in Seq(Msgs) : all = s \o (<<x>> \o t)
    BY <1>2
  <1>4. Without(all, Len(s) + 1) = s \o t
    BY <1>3, TakeFromMiddle
  <1>5. QED
    BY <1>3, <1>4, Zenon

(* What worker w was ever given, as far as the pool still knows. *)
Seen(w) ==
    Range(queue[w]) \cup Range(local[w]) \cup Range(ready[w])
      \cup Range(conns[w]) \cup Range(done[w])

(* No worker has seen what is still to be sent to it. *)
Unseen ==
    /\ \A w \in Workers : unused \cap Seen(w) = {}
    /\ aconn.step # "idle" => aconn.msg \notin unused
    /\ btask.step # "idle" => btask.msg \notin unused
    /\ aconn.step = "push" => \A w \in Workers : aconn.msg \notin Seen(w)
    /\ btask.step = "push" => \A w \in Workers : w >= btask.to => btask.msg \notin Seen(w)
    /\ btask.step = "write" => \A w \in Workers : w > btask.to => btask.msg \notin Seen(w)

(* A worker hands what it was given on from one place to the next. *)
LEMMA WorkerSeesNothingNew ==
  ASSUME IInv, NEW w \in Workers, Worker(w), NEW v \in Workers
  PROVE  Seen(v)' \subseteq Seen(v)
  <1>0. TypeOK /\ Drained(w)
    BY DEF IInv, BatchDrained
  <1>1. CASE v # w
    <2>1. /\ queue'[v] = queue[v] /\ local'[v] = local[v] /\ ready'[v] = ready[v]
          /\ conns'[v] = conns[v] /\ done'[v] = done[v]
      BY <1>0, <1>1 DEF TypeOK, Worker, ThreadMain, EpollReady, EpollTimeout, RecvRead,
                        RecvSwap, Deal, DealDone, Execute, ClearReady
    <2>2. QED
      BY <2>1 DEF Seen
  <1>2. CASE ThreadMain(w) \/ EpollReady(w) \/ EpollTimeout(w) \/ RecvRead(w) \/ DealDone(w)
    BY <1>2 DEF Seen, ThreadMain, EpollReady, EpollTimeout, RecvRead, DealDone
  <1>3. CASE v = w /\ RecvSwap(w)
    <2>1. /\ local'[w] = queue[w] /\ queue'[w] = << >>
          /\ UNCHANGED <<ready, conns, done>>
      BY <1>0, <1>3 DEF TypeOK, RecvSwap
    <2>2. Range(<< >>) = {}
      BY DEF Range
    <2>3. QED
      BY <1>3, <2>1, <2>2 DEF Seen
  <1>4. CASE v = w /\ Deal(w)
    <2>1. local[w] \in Seq(Msgs) /\ local[w] # << >> /\ local'[w] = Tail(local[w])
      BY <1>0, <1>4 DEF TypeOK, Deal
    <2>2. Range(local[w]) = {Head(local[w])} \cup Range(Tail(local[w]))
      BY <2>1, RangeTail
    <2>3. UNCHANGED <<queue, done>>
      BY <1>4 DEF Deal
    <2>4. CASE /\ Head(local[w]) \in Conns
               /\ conns' = [conns EXCEPT ![w] = Append(@, Head(local[w]))]
               /\ ready' = ready
      <3>1. Range(conns'[w]) = Range(conns[w]) \cup {Head(local[w])}
        <4>1. conns[w] \in Seq(Conns) /\ conns'[w] = Append(conns[w], Head(local[w]))
          BY <1>0, <2>4 DEF TypeOK
        <4>2. QED
          BY <2>4, <4>1, RangeAppend
      <3>2. QED
        BY <1>4, <2>1, <2>2, <2>3, <2>4, <3>1 DEF Seen
    <2>5. CASE /\ Head(local[w]) \in Tasks
               /\ ready' = [ready EXCEPT ![w] = Append(@, Head(local[w]))]
               /\ conns' = conns
      <3>1. Range(ready'[w]) = Range(ready[w]) \cup {Head(local[w])}
        <4>1. ready[w] \in Seq(Tasks) /\ ready'[w] = Append(ready[w], Head(local[w]))
          BY <1>0, <2>5 DEF TypeOK
        <4>2. QED
          BY <2>5, <4>1, RangeAppend
      <3>2. QED
        BY <1>4, <2>1, <2>2, <2>3, <2>5, <3>1 DEF Seen
    <2>6. QED
      BY <1>4, <2>4, <2>5 DEF Deal
  <1>5. CASE v = w /\ Execute(w)
    <2>1. ready[w] \in Seq(Tasks) /\ next[w] \in 1..Len(ready[w])
      BY <1>0, <1>5 DEF TypeOK, Execute
    <2>2. ready[w][next[w]] \in Range(ready[w]) /\ ready[w][next[w]] \in Tasks
      BY <2>1 DEF Range
    <2>3. done'[w] = Append(done[w], ready[w][next[w]]) /\ done[w] \in Seq(Tasks)
      BY <1>0, <1>5 DEF TypeOK, Execute
    <2>4. Range(done'[w]) = Range(done[w]) \cup {ready[w][next[w]]}
      BY <2>2, <2>3, RangeAppend
    <2>5. UNCHANGED <<queue, local, ready, conns>>
      BY <1>5 DEF Execute
    <2>6. QED
      BY <1>5, <2>2, <2>4, <2>5 DEF Seen
  <1>6. CASE v = w /\ ClearReady(w)
    <2>1. ready'[w] = << >> /\ UNCHANGED <<queue, local, conns, done>>
      BY <1>0, <1>6 DEF TypeOK, ClearReady
    <2>2. Range(<< >>) = {}
      BY DEF Range
    <2>3. QED
      BY <1>6, <2>1, <2>2 DEF Seen
  <1>7. QED
    BY <1>1, <1>2, <1>3, <1>4, <1>5, <1>6 DEF Worker

(* A send() adds its message to what the receiver has seen. *)
LEMMA PushIsSeen ==
  ASSUME TypeOK, NEW w \in Workers, NEW m \in Msgs, NEW who,
         Push(who, w, m), UNCHANGED poolVars
  PROVE  \A v \in Workers : Seen(v)' = IF v = w THEN Seen(v) \cup {m} ELSE Seen(v)
  <1>1. UNCHANGED <<local, ready, conns, done>>
    BY DEF poolVars
  <1>2. /\ queue[w] \in Seq(Msgs) /\ queue'[w] = Append(queue[w], m)
        /\ \A v \in Workers : v # w => queue'[v] = queue[v]
    BY DEF TypeOK, Push
  <1>3. Range(queue'[w]) = Range(queue[w]) \cup {m}
    BY <1>2, RangeAppend
  <1>4. QED
    BY <1>1, <1>2, <1>3 DEF Seen

(* Every message goes its way from the producers to the workers once. *)
LEMMA UnseenStep ==
  ASSUME IInv, Unseen, [Next]_vars
  PROVE  Unseen'
  <1>0. TypeOK /\ N \in Nat
    BY NAssumption DEF IInv
  <1>1. ASSUME NEW c \in Conns, GetThread(c) PROVE Unseen'
    <2>1. /\ UNCHANGED <<queue, local, ready, conns, done, btask>>
          /\ unused' = unused \ {c}
      BY <1>1 DEF GetThread, poolVars
    <2>2. aconn' = [msg |-> c, to |-> NextIndex, step |-> "push"] /\ c \in unused
      BY <1>1 DEF GetThread
    <2>3. \A w \in Workers : Seen(w)' = Seen(w)
      BY <2>1 DEF Seen
    <2>4. QED
      BY <2>1, <2>2, <2>3 DEF Unseen
  <1>2. ASSUME AcceptPush PROVE Unseen'
    <2>1. /\ aconn.to \in Workers /\ aconn.msg \in Conns /\ aconn.msg \in Msgs
          /\ btask.step # "idle" => btask.msg # aconn.msg
      BY <1>0, <1>2, MessagesDisjoint DEF AcceptPush, TypeOK, Msgs
    <2>2. \A v \in Workers :
             Seen(v)' = IF v = aconn.to THEN Seen(v) \cup {aconn.msg} ELSE Seen(v)
      BY <1>0, <1>2, <2>1, PushIsSeen DEF AcceptPush
    <2>3. UNCHANGED <<unused, btask>> /\ aconn.step = "push"
      BY <1>2 DEF AcceptPush
    <2>4. aconn'.step = "write" /\ aconn'.msg = aconn.msg
      BY <1>0, <1>2 DEF AcceptPush, TypeOK, Job
    <2>5. QED
      BY <2>1, <2>2, <2>3, <2>4 DEF Unseen
  <1>3. ASSUME AcceptWrite PROVE Unseen'
    <2>1. /\ UNCHANGED <<queue, local, ready, conns, done, btask, unused>>
          /\ aconn'.step = "idle"
      BY <1>3 DEF AcceptWrite, Write, poolVars, Nobody
    <2>2. QED
      BY <2>1 DEF Unseen, Seen
  <1>4. ASSUME NEW t \in Tasks, SendTask(t) PROVE Unseen'
    <2>1. /\ UNCHANGED <<queue, local, ready, conns, done, aconn>>
          /\ unused' = unused \ {t}
      BY <1>4 DEF SendTask, poolVars
    <2>2. btask' = [msg |-> t, to |-> 0, step |-> "push"] /\ t \in unused
      BY <1>4 DEF SendTask
    <2>3. \A w \in Workers : Seen(w)' = Seen(w)
      BY <2>1 DEF Seen
    <2>4. QED
      BY <2>1, <2>2, <2>3 DEF Unseen
  <1>5. ASSUME TaskPush PROVE Unseen'
    <2>1. /\ btask.to \in Workers /\ btask.msg \in Tasks /\ btask.msg \in Msgs
          /\ aconn.step # "idle" => btask.msg # aconn.msg
      BY <1>0, <1>5, MessagesDisjoint DEF TaskPush, TypeOK, Msgs
    <2>2. \A v \in Workers :
             Seen(v)' = IF v = btask.to THEN Seen(v) \cup {btask.msg} ELSE Seen(v)
      BY <1>0, <1>5, <2>1, PushIsSeen DEF TaskPush
    <2>3. UNCHANGED <<unused, aconn>> /\ btask.step = "push"
      BY <1>5 DEF TaskPush
    <2>4. btask'.step = "write" /\ btask'.msg = btask.msg /\ btask'.to = btask.to
      BY <1>0, <1>5 DEF TaskPush, TypeOK, Job
    <2>5. \A v \in Workers : v > btask.to => v >= btask.to /\ v # btask.to
      BY <1>0, <2>1 DEF Workers
    <2>6. QED
      BY <2>1, <2>2, <2>3, <2>4, <2>5 DEF Unseen
  <1>6. ASSUME TaskWrite PROVE Unseen'
    <2>1. UNCHANGED <<queue, local, ready, conns, done, aconn, unused>>
      BY <1>6 DEF TaskWrite, Write, poolVars
    <2>2. \A v \in Workers : Seen(v)' = Seen(v)
      BY <2>1 DEF Seen
    <2>3. CASE btask'.step = "idle"
      BY <2>1, <2>2, <2>3 DEF Unseen
    <2>4. CASE /\ btask'.step = "push" /\ btask'.msg = btask.msg
               /\ btask'.to = btask.to + 1 /\ btask.step = "write"
      <3>1. btask.to \in Workers
        BY <1>0, <2>4 DEF TypeOK
      <3>2. \A v \in Workers : v >= btask.to + 1 => v > btask.to
        BY <1>0, <3>1 DEF Workers
      <3>3. QED
        BY <2>1, <2>2, <2>4, <3>2 DEF Unseen
    <2>5. QED
      BY <1>0, <1>6, <2>3, <2>4 DEF TaskWrite, TypeOK, Job, Nobody
  <1>7. ASSUME NEW w \in Workers, Worker(w) PROVE Unseen'
    <2>1. \A v \in Workers : Seen(v)' \subseteq Seen(v)
      BY <1>7, WorkerSeesNothingNew
    <2>2. UNCHANGED <<aconn, btask, unused>>
      BY <1>7
      DEF Worker, ThreadMain, EpollReady, EpollTimeout, RecvRead, RecvSwap, Deal,
                  DealDone, Execute, ClearReady
    <2>3. QED
      BY <2>1, <2>2 DEF Unseen
  <1>8. CASE UNCHANGED vars
    BY <1>8 DEF Unseen, Seen, vars, poolVars
  <1>9. QED
    BY <1>1, <1>2, <1>3, <1>4, <1>5, <1>6, <1>7, <1>8 DEF Next, Producers

(* Messages are put together in any order of the parts. *)
LEMMA MsgSeqs ==
  /\ \A a, b \in Seq(Msgs) : a \o b \in Seq(Msgs)
  /\ \A a, b, c \in Seq(Msgs) : (a \o b) \o c = a \o (b \o c)
  /\ \A a, b \in Seq(Msgs), m \in Msgs : a \o Append(b, m) = Append(a \o b, m)
  <1>1. \A a, b \in Seq(Msgs) : a \o b \in Seq(Msgs)
    BY ConcatProperties
  <1>2. \A a, b, c \in Seq(Msgs) : (a \o b) \o c = a \o (b \o c)
    BY ConcatAssociative
  <1>3. \A a, b \in Seq(Msgs), m \in Msgs : a \o Append(b, m) = Append(a \o b, m)
    BY ConcatAppend
  <1>4. QED
    BY <1>1, <1>2, <1>3, Zenon

(* The tasks worker w has taken over and not yet run. *)
Waiting(w) == SubSeq(ready[w], next[w], Len(ready[w]))

(* The three parts of what is pending are sequences of messages. *)
LEMMA PendingParts ==
  ASSUME IInv, NEW w \in Workers
  PROVE  /\ Waiting(w) \in Seq(Tasks) /\ Waiting(w) \in Seq(Msgs)
         /\ Range(Waiting(w)) \subseteq Range(ready[w])
         /\ local[w] \in Seq(Msgs) /\ queue[w] \in Seq(Msgs)
         /\ Waiting(w) \o local[w] \in Seq(Msgs)
         /\ Pending(w) \in Seq(Msgs)
         /\ Pending(w) = (Waiting(w) \o local[w]) \o queue[w]
  <1>1. /\ ready[w] \in Seq(Tasks) /\ local[w] \in Seq(Msgs) /\ queue[w] \in Seq(Msgs)
        /\ next[w] \in Nat \ {0} /\ next[w] <= Len(ready[w]) + 1
    BY DEF IInv, TypeOK, BatchDrained, Drained
  <1>2. PICK n \in 0..Len(ready[w]) : next[w] = n + 1
    <2>1. next[w] - 1 \in 0..Len(ready[w]) /\ next[w] = (next[w] - 1) + 1
      BY <1>1
    <2>2. QED
      BY <2>1
  <1>3. /\ Waiting(w) \in Seq(Tasks)
        /\ Range(Waiting(w)) \subseteq Range(ready[w])
    BY <1>1, <1>2, RangeSplit DEF Waiting
  <1>4. Waiting(w) \in Seq(Msgs)
    <2>1. Seq(Tasks) \subseteq Seq(Msgs)
      BY SeqMonotonic DEF Msgs
    <2>2. QED
      BY <1>3, <2>1
  <1>5. Waiting(w) \o local[w] \in Seq(Msgs)
    BY <1>1, <1>4, ConcatProperties
  <1>6. (Waiting(w) \o local[w]) \o queue[w] \in Seq(Msgs)
    BY <1>1, <1>5, ConcatProperties
  <1>7. QED
    BY <1>1, <1>3, <1>4, <1>5, <1>6 DEF Pending, Waiting

(* What a worker has pending or has done, it has seen. *)
LEMMA PendingIsSeen ==
  ASSUME IInv, NEW w \in Workers
  PROVE  /\ Delivery!Elems(pendingBar[w]) \subseteq Seen(w)
         /\ Delivery!Elems(conns[w]) \subseteq Seen(w)
         /\ Delivery!Elems(done[w]) \subseteq Seen(w)
  <1>1. conns[w] \in Seq(Conns) /\ done[w] \in Seq(Tasks)
    BY DEF IInv, TypeOK
  <1>2. pendingBar[w] = Pending(w) /\ Pending(w) \in Seq(Msgs)
    BY PendingParts DEF pendingBar
  <1>3. /\ Delivery!Elems(pendingBar[w]) = Range(Pending(w))
        /\ Delivery!Elems(conns[w]) = Range(conns[w])
        /\ Delivery!Elems(done[w]) = Range(done[w])
    BY <1>1, <1>2, RangeEquality DEF Delivery!Elems
  <1>4. Range(Pending(w)) = (Range(Waiting(w)) \cup Range(local[w])) \cup Range(queue[w])
    <2>1. \A a, b \in Seq(Msgs) : Range(a \o b) = Range(a) \cup Range(b)
      BY RangeConcatenation
    <2>2. Range((Waiting(w) \o local[w]) \o queue[w])
            = Range(Waiting(w) \o local[w]) \cup Range(queue[w])
      BY <2>1, PendingParts, Zenon
    <2>3. Range(Waiting(w) \o local[w]) = Range(Waiting(w)) \cup Range(local[w])
      BY <2>1, PendingParts, Zenon
    <2>4. QED
      BY <2>2, <2>3, PendingParts, Zenon
  <1>5. QED
    BY <1>3, <1>4, PendingParts DEF Seen

(* A send() hands its message over. *)
LEMMA PushIsGive ==
  ASSUME IInv, NEW w \in Workers, NEW m \in Msgs, m \notin Seen(w),
         NEW who, Push(who, w, m), UNCHANGED poolVars
  PROVE  Delivery!Give(w, m)
  <1>1. UNCHANGED <<local, ready, next, conns, done>>
    BY DEF poolVars
  <1>2. /\ queue'[w] = Append(queue[w], m)
        /\ \A v \in Workers : v # w => queue'[v] = queue[v]
    BY DEF IInv, TypeOK, Push
  <1>3. \A v \in Workers : v # w => Pending(v)' = Pending(v)
    BY <1>1, <1>2 DEF Pending
  <1>4. Pending(w)' = Append(Pending(w), m)
    <2>1. Pending(w)' = (Waiting(w) \o local[w]) \o Append(queue[w], m)
      BY <1>1, <1>2 DEF Pending, Waiting
    <2>2. (Waiting(w) \o local[w]) \o Append(queue[w], m)
            = Append((Waiting(w) \o local[w]) \o queue[w], m)
      <3>1. Waiting(w) \o local[w] \in Seq(Msgs) /\ queue[w] \in Seq(Msgs)
        BY PendingParts
      <3>2. QED
        BY <3>1, MsgSeqs, Zenon
    <2>3. QED
      BY <2>1, <2>2, PendingParts
  <1>5. pendingBar' = [pendingBar EXCEPT ![w] = Append(@, m)]
    BY <1>3, <1>4 DEF pendingBar
  <1>6. m \notin Delivery!Elems(pendingBar[w]) \cup Delivery!Elems(conns[w])
                   \cup Delivery!Elems(done[w])
    BY PendingIsSeen
  <1>7. QED
    BY <1>1, <1>5, <1>6 DEF Delivery!Give

(* The batches of recv() and of execute_ready_tasks do not show outside. *)
LEMMA BatchesAreInvisible ==
  ASSUME IInv, NEW w \in Workers,
         \/ ThreadMain(w) \/ EpollReady(w) \/ EpollTimeout(w) \/ RecvRead(w)
         \/ DealDone(w) \/ RecvSwap(w) \/ ClearReady(w)
  PROVE  UNCHANGED <<pendingBar, conns, done>>
  <1>0. TypeOK /\ Drained(w)
    BY DEF IInv, BatchDrained
  <1>1. CASE ThreadMain(w) \/ EpollReady(w) \/ EpollTimeout(w) \/ RecvRead(w) \/ DealDone(w)
    BY <1>1
    DEF ThreadMain, EpollReady, EpollTimeout, RecvRead, DealDone, pendingBar,
        Pending
  <1>2. CASE RecvSwap(w)
    <2>1. UNCHANGED <<ready, next, conns, done>>
      BY <1>2 DEF RecvSwap
    <2>2. /\ local[w] = << >> /\ local'[w] = queue[w] /\ queue'[w] = << >>
          /\ \A v \in Workers : v # w => local'[v] = local[v] /\ queue'[v] = queue[v]
      BY <1>0, <1>2 DEF RecvSwap, TypeOK, Drained
    <2>3. Pending(w)' = (Waiting(w) \o queue[w]) \o << >>
      BY <2>1, <2>2 DEF Pending, Waiting
    <2>4. Waiting(w) \o queue[w] \in Seq(Msgs)
      BY PendingParts, ConcatProperties
    <2>5. (Waiting(w) \o queue[w]) \o << >> = Waiting(w) \o queue[w]
      BY <2>4, ConcatEmptySeq
    <2>6. Waiting(w) \o << >> = Waiting(w)
      BY PendingParts, ConcatEmptySeq
    <2>7. Pending(w)' = Pending(w)
      BY <2>2, <2>3, <2>5, <2>6, PendingParts, Zenon
    <2>8. \A v \in Workers : v # w => Pending(v)' = Pending(v)
      BY <2>1, <2>2 DEF Pending
    <2>9. QED
      BY <2>1, <2>7, <2>8 DEF pendingBar
  <1>3. CASE ClearReady(w)
    <2>1. UNCHANGED <<local, queue, conns, done>>
      BY <1>3 DEF ClearReady
    <2>2. /\ ready'[w] = << >> /\ next'[w] = 1
          /\ \A v \in Workers : v # w => ready'[v] = ready[v] /\ next'[v] = next[v]
      BY <1>0, <1>3 DEF ClearReady, TypeOK
    <2>3. Waiting(w) = << >>
      <3>1. next[w] \in Int /\ Len(ready[w]) \in Int /\ Len(ready[w]) < next[w]
        BY <1>0, <1>3 DEF ClearReady, TypeOK
      <3>2. QED
        BY <3>1, SubSeqEmpty DEF Waiting
    <2>4. Waiting(w)' = << >>
      BY <2>2, SubSeqEmpty DEF Waiting
    <2>5. Pending(w)' = Pending(w)
      BY <2>1, <2>3, <2>4 DEF Pending, Waiting
    <2>6. \A v \in Workers : v # w => Pending(v)' = Pending(v)
      BY <2>1, <2>2 DEF Pending
    <2>7. QED
      BY <2>1, <2>5, <2>6 DEF pendingBar
  <1>4. QED
    BY <1>1, <1>2, <1>3

(***************************************************************************)
(* deal_task_message creates a connection that only tasks wait in front of,*)
(* or moves a task to where it waits in front of everything that follows.  *)
(***************************************************************************)
LEMMA DealIsConnect ==
  ASSUME IInv, NEW w \in Workers, Deal(w)
  PROVE  \/ \E i \in 1..Len(pendingBar[w]) : Delivery!Connect(w, i)
         \/ UNCHANGED <<pendingBar, conns, done>>
  <1> DEFINE h == Head(local[w])
             rest == Tail(local[w])
             s == Waiting(w)
             t == rest \o queue[w]
  <1>0. TypeOK /\ Drained(w) /\ next[w] = 1
    BY DEF IInv, BatchDrained, Drained, Deal
  <1>1. /\ h \in Msgs /\ rest \in Seq(Msgs) /\ <<h>> \in Seq(Msgs)
        /\ local[w] = <<h>> \o rest
    BY <1>0 DEF TypeOK, Deal
  <1>2. UNCHANGED <<queue, next, done>> /\ local'[w] = rest
    BY <1>0 DEF TypeOK, Deal
  <1>3. /\ s \in Seq(Msgs)
        /\ queue[w] \in Seq(Msgs)
        /\ t \in Seq(Msgs)
        /\ <<h>> \o t \in Seq(Msgs)
    BY <1>1, PendingParts, ConcatProperties
  <1>4. Pending(w) = s \o (<<h>> \o t)
    <2>1. Pending(w) = (s \o (<<h>> \o rest)) \o queue[w]
      BY <1>1, PendingParts
    <2>2. <<h>> \o rest \in Seq(Msgs)
      BY <1>1, ConcatProperties
    <2>3. (s \o (<<h>> \o rest)) \o queue[w] = s \o ((<<h>> \o rest) \o queue[w])
      BY <1>3, <2>2, MsgSeqs, ZenonT(60)
    <2>4. (<<h>> \o rest) \o queue[w] = <<h>> \o t
      <3>1. <<h>> \in Seq(Msgs) /\ rest \in Seq(Msgs) /\ queue[w] \in Seq(Msgs)
        BY <1>1, <1>3
      <3> HIDE DEF s, h, rest
      <3>2. QED
        BY <3>1, MsgSeqs, Zenon
    <2>5. QED
      BY <2>1, <2>3, <2>4, Zenon
  <1>5. \A v \in Workers : v # w => local'[v] = local[v]
    BY <1>0 DEF TypeOK, Deal
  <1>6. CASE /\ h \in Conns
             /\ conns' = [conns EXCEPT ![w] = Append(@, h)]
             /\ ready' = ready
    <2>1. Pending(w)' = s \o t
      <3>1. Pending(w)' = (s \o rest) \o queue[w]
        BY <1>2, <1>6 DEF Pending, Waiting
      <3>2. QED
        BY <1>1, <1>3, <3>1, MsgSeqs, ZenonT(60)
    <2>2. \A v \in Workers : v # w => Pending(v)' = Pending(v)
      BY <1>2, <1>5, <1>6 DEF Pending
    <2>3. Pending(w) \in Seq(Msgs) /\ pendingBar[w] = Pending(w)
      BY PendingParts DEF pendingBar
    <2> HIDE DEF h, rest, s, t
    <2>4. /\ Len(s) + 1 \in 1..Len(Pending(w)) /\ Pending(w)[Len(s) + 1] = h
          /\ \A j \in 1..Len(s) : Pending(w)[j] = s[j]
          /\ Without(Pending(w), Len(s) + 1) = s \o t
      <3>1. /\ Pending(w) = s \o (<<h>> \o t) /\ s \in Seq(Msgs) /\ t \in Seq(Msgs)
            /\ h \in Msgs /\ Pending(w) \in Seq(Msgs)
        BY <1>1, <1>3, <1>4, <2>3
      <3>2. Len(s) + 1 \in 1..Len(Pending(w)) /\ Pending(w)[Len(s) + 1] = h
        BY <3>1, TakeFromMiddle
      <3>3. \A j \in 1..Len(s) : Pending(w)[j] = s[j]
        BY <3>1, TakeFromMiddle
      <3>4. Without(Pending(w), Len(s) + 1) = s \o t
        BY <3>1, TakenOut, Zenon
      <3>5. QED
        BY <3>2, <3>3, <3>4
    <2>5. Len(s) \in Nat /\ \A j \in 1..Len(s) : s[j] \in Tasks
      <3>1. s \in Seq(Tasks)
        BY PendingParts DEF s
      <3>2. QED
        BY <3>1
    <2>6. PICK i \in 1..Len(Pending(w)) : i = Len(s) + 1
      BY <2>4
    <2>7. i - 1 = Len(s)
      BY <2>5, <2>6
    <2>8. pendingBar' = [pendingBar EXCEPT ![w] = Without(@, i)]
      BY <2>1, <2>2, <2>3, <2>4, <2>6 DEF pendingBar
    <2>9. pendingBar[w][i] = h
      BY <2>3, <2>4, <2>6
    <2>10. \A j \in 1..(i - 1) : pendingBar[w][j] \in Tasks
      BY <2>3, <2>4, <2>5, <2>7
    <2>11. Delivery!Connect(w, i)
      BY <1>2, <1>6, <2>8, <2>9, <2>10 DEF Delivery!Connect, Delivery!Take, Without
    <2>12. QED
      BY <2>3, <2>11
  <1>7. CASE /\ h \in Tasks
             /\ ready' = [ready EXCEPT ![w] = Append(@, h)]
             /\ conns' = conns
    <2>1. ready[w] \in Seq(Tasks) /\ Waiting(w) = ready[w]
      BY <1>0, SubSeqFull DEF TypeOK, Waiting
    <2>2. Append(ready[w], h) \in Seq(Tasks) /\ ready'[w] = Append(ready[w], h)
      BY <1>0, <1>7, <2>1 DEF TypeOK
    <2>3. Waiting(w)' = Append(s, h)
      <3>1. Waiting(w)' = SubSeq(Append(ready[w], h), 1, Len(Append(ready[w], h)))
        BY <1>0, <1>2, <2>2 DEF Waiting
      <3>2. QED
        BY <2>1, <2>2, <3>1, SubSeqFull
    <2>4. Append(s, h) = s \o <<h>>
      BY <1>1, <1>3, AppendIsConcat
    <2>5. Pending(w)' = ((s \o <<h>>) \o rest) \o queue[w]
      BY <1>2, <2>3, <2>4 DEF Pending, Waiting
    <2>6. s \o <<h>> \in Seq(Msgs)
      BY <1>1, <1>3, ConcatProperties
    <2>7. ((s \o <<h>>) \o rest) \o queue[w] = (s \o <<h>>) \o t
      <3>1. rest \in Seq(Msgs) /\ queue[w] \in Seq(Msgs)
        BY <1>1, <1>3
      <3> HIDE DEF s, h, rest
      <3>2. QED
        BY <2>6, <3>1, MsgSeqs, Zenon
    <2>8. (s \o <<h>>) \o t = s \o (<<h>> \o t)
      <3>1. s \in Seq(Msgs) /\ <<h>> \in Seq(Msgs) /\ t \in Seq(Msgs)
        BY <1>1, <1>3
      <3> HIDE DEF s, h, rest, t
      <3>2. QED
        BY <3>1, MsgSeqs, Zenon
    <2>9. Pending(w)' = Pending(w)
      BY <1>4, <2>5, <2>7, <2>8, Zenon
    <2>10. \A v \in Workers : v # w => ready'[v] = ready[v]
      BY <1>0, <1>7 DEF TypeOK
    <2>11. \A v \in Workers : v # w => Pending(v)' = Pending(v)
      BY <1>2, <1>5, <2>10 DEF Pending
    <2>12. QED
      BY <1>2, <1>7, <2>9, <2>11 DEF pendingBar
  <1>8. QED
    BY <1>6, <1>7 DEF Deal

(* execute_ready_tasks runs the task that was handed over first. *)
LEMMA ExecuteIsRun ==
  ASSUME IInv, NEW w \in Workers, Execute(w)
  PROVE  Delivery!Run(w)
  <1> DEFINE k == next[w]
             all == ready[w]
             more == local[w] \o queue[w]
  <1>1. /\ all \in Seq(Tasks) /\ k \in 1..Len(all) /\ Len(all) \in k..Len(all)
        /\ next'[w] = k + 1 /\ done' = [done EXCEPT ![w] = Append(@, all[k])]
        /\ UNCHANGED <<queue, local, ready, conns>>
        /\ \A v \in Workers : v # w => next'[v] = next[v]
    BY DEF IInv, TypeOK, Execute
  <1>2. /\ Waiting(w) # << >>
        /\ Head(Waiting(w)) = all[k]
        /\ Tail(Waiting(w)) = Waiting(w)'
    <2>1. /\ Waiting(w) = SubSeq(all, k, Len(all))
          /\ Waiting(w)' = SubSeq(all, k + 1, Len(all))
      BY <1>1 DEF Waiting
    <2>2. Len(SubSeq(all, k, Len(all))) > 0
      BY <1>1
    <2>3. SubSeq(all, k, Len(all)) # << >>
      <3>1. Len(<< >>) = 0
        OBVIOUS
      <3>2. SUFFICES ASSUME SubSeq(all, k, Len(all)) = << >>
                     PROVE  FALSE
        OBVIOUS
      <3>3. QED
        BY <2>2, <3>1, <3>2
    <2> HIDE DEF k, all
    <2>4. Head(SubSeq(all, k, Len(all))) = all[k]
      BY <1>1, HeadTailOfSubSeq
    <2>5. Tail(SubSeq(all, k, Len(all))) = SubSeq(all, k + 1, Len(all))
      BY <1>1, HeadTailOfSubSeq
    <2>6. QED
      BY <2>1, <2>3, <2>4, <2>5
  <1>3. Pending(w) = Waiting(w) \o more /\ more \in Seq(Msgs)
    <2>1. Waiting(w) \in Seq(Msgs) /\ local[w] \in Seq(Msgs) /\ queue[w] \in Seq(Msgs)
      BY PendingParts
    <2>2. Pending(w) = (Waiting(w) \o local[w]) \o queue[w]
      BY PendingParts
    <2>3. QED
      BY <2>1, <2>2, MsgSeqs, Zenon
  <1>4. /\ Pending(w) # << >>
        /\ Head(Pending(w)) = all[k]
        /\ Tail(Pending(w)) = Tail(Waiting(w)) \o more
    <2>1. \A a, b \in Seq(Msgs) : a # << >> =>
             a \o b # << >> /\ Head(a \o b) = Head(a) /\ Tail(a \o b) = Tail(a) \o b
      BY ConcatHeadTail
    <2>2. QED
      <3>1. Waiting(w) \in Seq(Msgs)
        BY PendingParts
      <3> HIDE DEF more, all, k
      <3>2. QED
        BY <1>2, <1>3, <2>1, <3>1, ZenonT(60)
  <1>5. Pending(w)' = Tail(Pending(w))
    <2>1. Pending(w)' = (Waiting(w)' \o local[w]) \o queue[w]
      BY <1>1 DEF Pending, Waiting
    <2>2. Tail(Waiting(w)) \in Seq(Msgs)
      <3>1. Waiting(w) \in Seq(Msgs)
        BY PendingParts
      <3>2. QED
        BY <1>2, <3>1
    <2>3. (Tail(Waiting(w)) \o local[w]) \o queue[w] = Tail(Waiting(w)) \o more
      BY <2>2, PendingParts, MsgSeqs, Zenon
    <2>4. QED
      BY <1>2, <1>4, <2>1, <2>3, Zenon
  <1>6. \A v \in Workers : v # w => Pending(v)' = Pending(v)
    BY <1>1 DEF Pending
  <1>7. pendingBar[w] = Pending(w) /\ pendingBar' = [pendingBar EXCEPT ![w] = Tail(@)]
    BY <1>5, <1>6 DEF pendingBar
  <1>8. all[k] \in Tasks
    BY <1>1
  <1>9. QED
    BY <1>1, <1>4, <1>7, <1>8 DEF Delivery!Run

(***************************************************************************)
(* The pool implements TaskDelivery: whatever the number of workers and    *)
(* the interleaving of senders, wake-ups and batches, every message is     *)
(* processed by its worker at most once and in the promised order.         *)
(***************************************************************************)
THEOREM PoolImplementsDelivery == Spec => ImplementsDelivery
  <1>1. Init => Unseen /\ Delivery!Init
    <2> SUFFICES ASSUME Init
                 PROVE  Unseen /\ Delivery!Init
      OBVIOUS
    <2>1. \A w \in Workers : /\ queue[w] = << >> /\ local[w] = << >> /\ ready[w] = << >>
                             /\ conns[w] = << >> /\ done[w] = << >> /\ next[w] = 1
      BY DEF Init
    <2>2. Range(<< >>) = {}
      BY DEF Range
    <2>3. \A w \in Workers : Seen(w) = {}
      BY <2>1, <2>2 DEF Seen
    <2>4. Unseen
      BY <2>3 DEF Init, Unseen, Nobody
    <2>5. ASSUME NEW w \in Workers PROVE Pending(w) = << >>
      <3>1. SubSeq(<< >>, 1, Len(<< >>)) = << >> /\ << >> \o << >> = << >>
        BY SubSeqEmpty
      <3>2. QED
        BY <2>1, <3>1 DEF Pending
    <2>6. Delivery!Init
      BY <2>5 DEF Init, Delivery!Init, pendingBar
    <2>7. QED
      BY <2>4, <2>6
  <1>2. IInv /\ Unseen /\ [Next]_vars => [Delivery!Next]_(Delivery!vars)
    <2> SUFFICES ASSUME IInv, Unseen, [Next]_vars
                 PROVE  Delivery!Next \/ UNCHANGED <<pendingBar, conns, done>>
      BY DEF Delivery!vars
    <2>1. ASSUME NEW w \in Workers, NEW m \in Msgs, Delivery!Give(w, m)
          PROVE  Delivery!Next
      BY <2>1 DEF Delivery!Next, Msgs
    <2>2. CASE AcceptPush
      <3>1. /\ aconn.to \in Workers
            /\ aconn.msg \in Msgs
            /\ aconn.msg \notin Seen(aconn.to)
        BY <2>2 DEF IInv, TypeOK, Unseen, AcceptPush, Msgs
      <3>2. Delivery!Give(aconn.to, aconn.msg)
        BY <2>2, <3>1, PushIsGive DEF AcceptPush
      <3>3. QED
        BY <2>1, <3>1, <3>2
    <2>3. CASE TaskPush
      <3>1. /\ btask.to \in Workers
            /\ btask.msg \in Msgs
            /\ btask.msg \notin Seen(btask.to)
        <4>1. btask.to \in Workers /\ btask.msg \in Msgs /\ btask.step = "push"
          BY <2>3 DEF IInv, TypeOK, TaskPush, Msgs
        <4>2. btask.to >= btask.to
          BY <4>1 DEF Workers
        <4>3. QED
          BY <4>1, <4>2 DEF Unseen
      <3>2. Delivery!Give(btask.to, btask.msg)
        BY <2>3, <3>1, PushIsGive DEF TaskPush
      <3>3. QED
        BY <2>1, <3>1, <3>2
    <2>4. CASE \/ \E c \in Conns : GetThread(c)
               \/ \E t \in Tasks : SendTask(t)
               \/ AcceptWrite \/ TaskWrite \/ UNCHANGED vars
      BY <2>4 DEF GetThread, SendTask, AcceptWrite, TaskWrite, Write, vars, poolVars,
                  pendingBar, Pending
    <2>5. ASSUME NEW w \in Workers, Worker(w)
          PROVE  Delivery!Next \/ UNCHANGED <<pendingBar, conns, done>>
      <3>1. CASE Deal(w)
        BY <3>1, DealIsConnect DEF Delivery!Next
      <3>2. CASE Execute(w)
        BY <3>2, ExecuteIsRun DEF Delivery!Next
      <3>3. CASE ~Deal(w) /\ ~Execute(w)
        BY <2>5, <3>3, BatchesAreInvisible DEF Worker
      <3>4. QED
        BY <3>1, <3>2, <3>3
    <2>6. QED
      BY <2>2, <2>3, <2>4, <2>5 DEF Next, Producers
  <1>3. QED
    BY <1>1, <1>2, UnseenStep, PoolInvariant, PTL
    DEF Spec, ImplementsDelivery, Delivery!Spec
=============================================================================
