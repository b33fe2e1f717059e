---------------------------- MODULE MCThreadPool ----------------------------
(***************************************************************************)
(* Model checking of ThreadPool: two workers, two tasks, and three         *)
(* connections, so that _index wraps around.                               *)
(***************************************************************************)
EXTENDS ThreadPool

CONSTANTS c1, c2, c3, t1, t2

MCConns == {c1, c2, c3}

MCTasks == {t1, t2}

Names == <<c1, c2, c3, t1, t2>>

(***************************************************************************)
(* Messages differ only by name.  Naming them in the order in which they   *)
(* are created loses no behaviour, up to names.                            *)
(***************************************************************************)
InOrder(m, kind) ==
    \A i, j \in 1..Len(Names) :
        Names[i] = m /\ Names[j] \in kind \cap unused => i <= j

GetThreadInOrder(c) == InOrder(c, Conns) /\ GetThread(c)

SendTaskInOrder(t) == InOrder(t, Tasks) /\ SendTask(t)

MCNext ==
    \/ \E c \in Conns : GetThreadInOrder(c)
    \/ AcceptPush
    \/ AcceptWrite
    \/ \E t \in Tasks : SendTaskInOrder(t)
    \/ TaskPush
    \/ TaskWrite
    \/ \E w \in Workers : Worker(w)

MCSpec == Init /\ [][MCNext]_vars /\ Fairness
=============================================================================
