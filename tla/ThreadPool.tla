----------------------------- MODULE ThreadPool -----------------------------
(***************************************************************************)
(* The thread pool of lars_reactor: thread_queue.h (a mutex, a std::queue  *)
(* and an eventfd per worker), thread_pool.cpp (round-robin hand-over of   *)
(* connections, broadcast of tasks, the callback that drains a queue) and  *)
(* the part of event_loop.cpp that wakes the worker up and runs the        *)
(* deferred tasks.                                                         *)
(*                                                                         *)
(* Two threads outside the pool produce messages, as in the DNS service:   *)
(* the accepting thread (do_accept calls get_thread and sends NEW_CONN)    *)
(* and the backend thread (publish calls send_task).  Every access to      *)
(* shared state is a step of its own: the push and the write of send(),    *)
(* the read and the swap of recv(); the mutex is a variable.               *)
(***************************************************************************)
EXTENDS Naturals, Sequences

CONSTANTS N,         \* _thread_cnt
          Conns,     \* the connection descriptors that will be accepted
          Tasks      \* the tasks that will be broadcast with send_task

ASSUME NAssumption == N \in Nat \ {0}

ASSUME MessagesDisjoint == Conns \cap Tasks = {}

Workers == 0..(N - 1)

Msgs == Conns \cup Tasks

(* The holders of a queue's mutex besides its worker w itself. *)
Acceptor == N

Backend == N + 1

Free == N + 2

VARIABLES
    queue,     \* queue[w]: _queue of worker w, guarded by its mutex
    evfd,      \* evfd[w]: the counter inside the eventfd _evfd
    lock,      \* lock[w]: who holds _queue_mutex, or Free
    registered,\* registered[w]: _evfd is in the worker's epoll set
    wpc,       \* wpc[w]: where the worker thread is in event_process
    local,     \* local[w]: the queue that recv() swapped out (tasks)
    ready,     \* ready[w]: _ready_tasks of the worker's event loop
    next,      \* next[w]: index of the next ready task to execute
    conns,     \* conns[w]: connections created by w, in order
    done,      \* done[w]: tasks executed by w, in order
    index,     \* _index of thread_pool, touched by the accepting thread only
    aconn,     \* the connection being handed over, and to whom
    btask,     \* the task being broadcast, and the next worker to get it
    unused     \* connections and tasks not yet produced

poolVars == <<registered, wpc, local, ready, next, conns, done>>
vars == <<queue, evfd, lock, poolVars, index, aconn, btask, unused>>

Nobody == [msg |-> "none", to |-> 0, step |-> "idle"]

Job == [msg : Msgs \cup {"none"}, to : 0..N, step : {"idle", "push", "write"}]

Init ==
    /\ queue = [w \in Workers |-> << >>]
    /\ evfd = [w \in Workers |-> 0]
    /\ lock = [w \in Workers |-> Free]
    /\ registered = [w \in Workers |-> FALSE]
    /\ wpc = [w \in Workers |-> "start"]
    /\ local = [w \in Workers |-> << >>]
    /\ ready = [w \in Workers |-> << >>]
    /\ next = [w \in Workers |-> 1]
    /\ conns = [w \in Workers |-> << >>]
    /\ done = [w \in Workers |-> << >>]
    /\ index = 0
    /\ aconn = Nobody
    /\ btask = Nobody
    /\ unused = Msgs

-----------------------------------------------------------------------------
(* thread_queue::send, in two steps under the mutex. *)

(* send(): lock the mutex and push the task on the queue. *)
Push(who, w, m) ==
    /\ lock[w] = Free
    /\ lock' = [lock EXCEPT ![w] = who]
    /\ queue' = [queue EXCEPT ![w] = Append(@, m)]
    /\ UNCHANGED evfd

(* send(): write 1 to the eventfd, which adds to its counter, and unlock. *)
Write(who, w) ==
    /\ lock[w] = who
    /\ evfd' = [evfd EXCEPT ![w] = @ + 1]
    /\ lock' = [lock EXCEPT ![w] = Free]
    /\ UNCHANGED queue

-----------------------------------------------------------------------------
(* The accepting thread. *)

(* get_thread(): the next worker, round robin. *)
NextIndex == IF index = N THEN 0 ELSE index

(* do_accept has a new descriptor: pick a worker and advance _index. *)
GetThread(c) ==
    /\ aconn.step = "idle"
    /\ c \in unused
    /\ unused' = unused \ {c}
    /\ aconn' = [msg |-> c, to |-> NextIndex, step |-> "push"]
    /\ index' = NextIndex + 1
    /\ UNCHANGED <<queue, evfd, lock, poolVars, btask>>

AcceptPush ==
    /\ aconn.step = "push"
    /\ Push(Acceptor, aconn.to, aconn.msg)
    /\ aconn' = [aconn EXCEPT !.step = "write"]
    /\ UNCHANGED <<poolVars, index, btask, unused>>

AcceptWrite ==
    /\ aconn.step = "write"
    /\ Write(Acceptor, aconn.to)
    /\ aconn' = Nobody
    /\ UNCHANGED <<poolVars, index, btask, unused>>

-----------------------------------------------------------------------------
(* The backend thread: send_task sends the task to every worker in turn. *)

SendTask(t) ==
    /\ btask.step = "idle"
    /\ t \in unused
    /\ unused' = unused \ {t}
    /\ btask' = [msg |-> t, to |-> 0, step |-> "push"]
    /\ UNCHANGED <<queue, evfd, lock, poolVars, index, aconn>>

TaskPush ==
    /\ btask.step = "push"
    /\ Push(Backend, btask.to, btask.msg)
    /\ btask' = [btask EXCEPT !.step = "write"]
    /\ UNCHANGED <<poolVars, index, aconn, unused>>

(* The loop of send_task ends after the last worker. *)
TaskWrite ==
    /\ btask.step = "write"
    /\ Write(Backend, btask.to)
    /\ btask' = IF btask.to + 1 < N
                  THEN [btask EXCEPT !.to = @ + 1, !.step = "push"]
                  ELSE Nobody
    /\ UNCHANGED <<poolVars, index, aconn, unused>>

-----------------------------------------------------------------------------
(* A worker thread. *)

(* thread_main: create the loop and register the eventfd for EPOLLIN. *)
ThreadMain(w) ==
    /\ wpc[w] = "start"
    /\ registered' = [registered EXCEPT ![w] = TRUE]
    /\ wpc' = [wpc EXCEPT ![w] = "wait"]
    /\ UNCHANGED <<queue, evfd, lock, local, ready, next, conns, done>>
    /\ UNCHANGED <<index, aconn, btask, unused>>

(* Mutant: the event is taken as handled, the callback is not called. *)
EpollReadySkips(w) ==
    /\ wpc[w] = "wait" /\ registered[w] /\ evfd[w] > 0
    /\ wpc' = [wpc EXCEPT ![w] = "exec"]
    /\ UNCHANGED <<queue, evfd, lock, registered, local, ready, next>>
    /\ UNCHANGED <<conns, done, index, aconn, btask, unused>>

(* epoll_wait reports the eventfd, level triggered: deal_task_message. *)
EpollReady(w) ==
    /\ wpc[w] = "wait"
    /\ registered[w]
    /\ evfd[w] > 0
    /\ wpc' = [wpc EXCEPT ![w] = "recv"]
    /\ UNCHANGED <<queue, evfd, lock, registered, local, ready, next>>
    /\ UNCHANGED <<conns, done, index, aconn, btask, unused>>

(***************************************************************************)
(* epoll_wait returns without the eventfd (its 10 ms timeout): the loop    *)
(* still runs execute_ready_tasks before it waits again.                   *)
(***************************************************************************)
EpollTimeout(w) ==
    /\ wpc[w] = "wait"
    /\ evfd[w] = 0
    /\ wpc' = [wpc EXCEPT ![w] = "exec"]
    /\ UNCHANGED <<queue, evfd, lock, registered, local, ready, next>>
    /\ UNCHANGED <<conns, done, index, aconn, btask, unused>>

(* recv(): lock the mutex and read the eventfd, which clears its counter. *)
RecvRead(w) ==
    /\ wpc[w] = "recv"
    /\ lock[w] = Free
    /\ lock' = [lock EXCEPT ![w] = w]
    /\ evfd' = [evfd EXCEPT ![w] = 0]
    /\ wpc' = [wpc EXCEPT ![w] = "swap"]
    /\ UNCHANGED <<queue, registered, local, ready, next, conns, done>>
    /\ UNCHANGED <<index, aconn, btask, unused>>

(* Mutant: one message per wake-up, although one read clears the counter. *)
RecvSwapOne(w) ==
    /\ wpc[w] = "swap" /\ lock[w] = w
    /\ local' = [local EXCEPT ![w] = <<Head(queue[w])>>]
    /\ queue' = [queue EXCEPT ![w] = Tail(@)]
    /\ lock' = [lock EXCEPT ![w] = Free]
    /\ wpc' = [wpc EXCEPT ![w] = "deal"]
    /\ UNCHANGED <<evfd, registered, ready, next, conns, done>>
    /\ UNCHANGED <<index, aconn, btask, unused>>

(* recv(): swap the queue with an empty one and unlock. *)
RecvSwap(w) ==
    /\ wpc[w] = "swap"
    /\ lock[w] = w
    /\ local' = [local EXCEPT ![w] = queue[w]]
    /\ queue' = [queue EXCEPT ![w] = << >>]
    /\ lock' = [lock EXCEPT ![w] = Free]
    /\ wpc' = [wpc EXCEPT ![w] = "deal"]
    /\ UNCHANGED <<evfd, registered, ready, next, conns, done>>
    /\ UNCHANGED <<index, aconn, btask, unused>>

(* Mutant: the newest task is run first. *)
DealReversed(w) ==
    /\ wpc[w] = "deal" /\ local[w] # << >>
    /\ local' = [local EXCEPT ![w] = Tail(@)]
    /\ \/ /\ Head(local[w]) \in Conns
          /\ conns' = [conns EXCEPT ![w] = Append(@, Head(local[w]))]
          /\ UNCHANGED ready
       \/ /\ Head(local[w]) \in Tasks
          /\ ready' = [ready EXCEPT ![w] = <<Head(local[w])>> \o @]
          /\ UNCHANGED conns
    /\ UNCHANGED <<queue, evfd, lock, registered, wpc, next, done>>
    /\ UNCHANGED <<index, aconn, btask, unused>>

(***************************************************************************)
(* deal_task_message takes one message: a connection is created at once, a *)
(* task is only appended to the ready tasks of the loop.                   *)
(***************************************************************************)
Deal(w) ==
    /\ wpc[w] = "deal"
    /\ local[w] # << >>
    /\ local' = [local EXCEPT ![w] = Tail(@)]
    /\ \/ /\ Head(local[w]) \in Conns
          /\ conns' = [conns EXCEPT ![w] = Append(@, Head(local[w]))]
          /\ UNCHANGED ready
       \/ /\ Head(local[w]) \in Tasks
          /\ ready' = [ready EXCEPT ![w] = Append(@, Head(local[w]))]
          /\ UNCHANGED conns
    /\ UNCHANGED <<queue, evfd, lock, registered, wpc, next, done>>
    /\ UNCHANGED <<index, aconn, btask, unused>>

(* All fired events are handled: go on to execute_ready_tasks. *)
DealDone(w) ==
    /\ wpc[w] = "deal"
    /\ local[w] = << >>
    /\ wpc' = [wpc EXCEPT ![w] = "exec"]
    /\ UNCHANGED <<queue, evfd, lock, registered, local, ready, next>>
    /\ UNCHANGED <<conns, done, index, aconn, btask, unused>>

(* execute_ready_tasks runs the task under its iterator. *)
Execute(w) ==
    /\ wpc[w] = "exec"
    /\ next[w] <= Len(ready[w])
    /\ done' = [done EXCEPT ![w] = Append(@, ready[w][next[w]])]
    /\ next' = [next EXCEPT ![w] = @ + 1]
    /\ UNCHANGED <<queue, evfd, lock, registered, wpc, local, ready, conns>>
    /\ UNCHANGED <<index, aconn, btask, unused>>

(* Mutant: the executed tasks stay in the vector. *)
ClearReadyForgets(w) ==
    /\ wpc[w] = "exec" /\ next[w] > Len(ready[w])
    /\ next' = [next EXCEPT ![w] = 1]
    /\ wpc' = [wpc EXCEPT ![w] = "wait"]
    /\ UNCHANGED <<queue, evfd, lock, registered, local, ready, conns, done>>
    /\ UNCHANGED <<index, aconn, btask, unused>>

(* ... and clears the ready tasks when all are executed. *)
ClearReady(w) ==
    /\ wpc[w] = "exec"
    /\ next[w] > Len(ready[w])
    /\ ready' = [ready EXCEPT ![w] = << >>]
    /\ next' = [next EXCEPT ![w] = 1]
    /\ wpc' = [wpc EXCEPT ![w] = "wait"]
    /\ UNCHANGED <<queue, evfd, lock, registered, local, conns, done>>
    /\ UNCHANGED <<index, aconn, btask, unused>>

Worker(w) ==
    \/ ThreadMain(w) \/ EpollReady(w) \/ EpollTimeout(w) \/ RecvRead(w) \/ RecvSwap(w)
    \/ Deal(w) \/ DealDone(w) \/ Execute(w) \/ ClearReady(w)

Producers ==
    \/ \E c \in Conns : GetThread(c)
    \/ AcceptPush
    \/ AcceptWrite
    \/ \E t \in Tasks : SendTask(t)
    \/ TaskPush
    \/ TaskWrite

Next == Producers \/ \E w \in Workers : Worker(w)

Spec == Init /\ [][Next]_vars

(***************************************************************************)
(* Fairness: the threads of the pool are scheduled, and a sender that has  *)
(* entered send() completes it.  Nothing obliges the outside world to open *)
(* connections or to change routes.                                        *)
(***************************************************************************)
Fairness ==
    /\ \A w \in Workers : WF_vars(Worker(w))
    /\ WF_vars(AcceptPush \/ AcceptWrite)
    /\ WF_vars(TaskPush \/ TaskWrite)

FairSpec == Spec /\ Fairness
-----------------------------------------------------------------------------
(* Properties. *)

(***************************************************************************)
(* Every variable of thread_queue, thread_pool and event_loop keeps its    *)
(* type; in particular get_thread and send_task never index a queue that   *)
(* does not exist.                                                         *)
(***************************************************************************)
TypeOK ==
    /\ queue \in [Workers -> Seq(Msgs)]
    /\ evfd \in [Workers -> Nat]
    /\ lock \in [Workers -> 0..(N + 2)]
    /\ registered \in [Workers -> BOOLEAN]
    /\ wpc \in [Workers -> {"start", "wait", "recv", "swap", "deal", "exec"}]
    /\ local \in [Workers -> Seq(Msgs)]
    /\ ready \in [Workers -> Seq(Tasks)]
    /\ next \in [Workers -> Nat \ {0}]
    /\ conns \in [Workers -> Seq(Conns)]
    /\ done \in [Workers -> Seq(Tasks)]
    /\ index \in 0..N
    /\ aconn \in Job /\ (aconn.step # "idle" => aconn.to \in Workers /\ aconn.msg \in Conns)
    /\ btask \in Job /\ (btask.step # "idle" => btask.to \in Workers /\ btask.msg \in Tasks)
    /\ unused \subseteq Msgs

(* Nobody is inside send() or recv() of w: the eventfd tells the truth. *)
Signalled(w) == lock[w] = Free => (queue[w] # << >> <=> evfd[w] > 0)

(***************************************************************************)
(* The wake-up is never lost and never spurious: whenever nobody is inside *)
(* send() or recv() of a queue, its eventfd is readable exactly when the   *)
(* queue holds something.  This is what the mutex around push and write,   *)
(* and around read and swap, is for.                                       *)
(***************************************************************************)
NoLostWakeup == \A w \in Workers : Signalled(w)

(* Who may be between lock and unlock of a queue's mutex. *)
LockHolder(w) ==
    /\ lock[w] \in {w, Acceptor, Backend, Free}
    /\ lock[w] = w <=> wpc[w] = "swap"
    /\ lock[w] = Acceptor <=> aconn.step = "write" /\ aconn.to = w
    /\ lock[w] = Backend <=> btask.step = "write" /\ btask.to = w

LockHolders == \A w \in Workers : LockHolder(w)

(* Inside send() the message is already there; inside recv() the counter   *)
(* is already cleared.                                                     *)
HalfDone(w) ==
    /\ lock[w] \in {Acceptor, Backend} => queue[w] # << >>
    /\ lock[w] = w => evfd[w] = 0

CriticalSections == \A w \in Workers : HalfDone(w)

(* recv() always swaps into an empty queue; tasks wait only for their run. *)
Drained(w) ==
    /\ wpc[w] # "deal" => local[w] = << >>
    /\ wpc[w] \notin {"deal", "exec"} => ready[w] = << >>
    /\ wpc[w] # "exec" => next[w] = 1
    /\ next[w] <= Len(ready[w]) + 1
    /\ wpc[w] # "start" => registered[w]

BatchDrained == \A w \in Workers : Drained(w)

(* The inductive invariant behind NoLostWakeup and the refinement. *)
IInv == TypeOK /\ LockHolders /\ CriticalSections /\ BatchDrained /\ NoLostWakeup

-----------------------------------------------------------------------------
(* ThreadPool implements TaskDelivery. *)

(* What worker w was given and has not processed, in the order it will be. *)
Pending(w) ==
    SubSeq(ready[w], next[w], Len(ready[w])) \o local[w] \o queue[w]

pendingBar == [w \in Workers |-> Pending(w)]

Delivery == INSTANCE TaskDelivery WITH pending <- pendingBar

(***************************************************************************)
(* The pool delivers: each message pushed on a queue is processed exactly  *)
(* once by that worker, connections in order, tasks in order, and a task   *)
(* that push_change_task runs never overtakes a connection handed over     *)
(* before it, through all batches of recv() and execute_ready_tasks.       *)
(***************************************************************************)
ImplementsDelivery == Delivery!Spec

(***************************************************************************)
(* A message that send() pushed is eventually processed by the worker,     *)
(* also when it was pushed before the worker registered its eventfd.       *)
(***************************************************************************)
EveryMessageProcessed ==
    \A w \in Workers, m \in Msgs :
        (\E i \in 1..Len(queue[w]) : queue[w][i] = m)
          ~> (\E i \in 1..Len(conns[w] \o done[w]) : (conns[w] \o done[w])[i] = m)
=============================================================================
