---------------------------- MODULE TaskDelivery ----------------------------
(***************************************************************************)
(* What the reactor's thread pool promises to the code that uses it: each  *)
(* message handed to a worker is processed by that worker exactly once,    *)
(* connections in the order they were handed over and tasks in theirs.     *)
(* The two kinds are not ordered with each other, except that a connection *)
(* that was handed over first is never overtaken by a later task.          *)
(*                                                                         *)
(* Nothing here knows of mutexes, of event descriptors or of the batches   *)
(* in which the event loop works; module ThreadPool implements this one.   *)
(***************************************************************************)
EXTENDS Naturals, Sequences

CONSTANTS Workers,   \* the threads of the pool
          Conns,     \* connection descriptors
          Tasks      \* asynchronous tasks

VARIABLES pending,   \* pending[w]: messages handed to w, not yet processed
          conns,     \* conns[w]: connections w has created, in order
          done       \* done[w]: tasks w has executed, in order

vars == <<pending, conns, done>>

Elems(s) == {s[i] : i \in 1..Len(s)}

Init ==
    /\ pending = [w \in Workers |-> << >>]
    /\ conns = [w \in Workers |-> << >>]
    /\ done = [w \in Workers |-> << >>]

(* A producer hands message m to worker w, which has never seen it. *)
Give(w, m) ==
    /\ m \notin Elems(pending[w]) \cup Elems(conns[w]) \cup Elems(done[w])
    /\ pending' = [pending EXCEPT ![w] = Append(@, m)]
    /\ UNCHANGED <<conns, done>>

(* The message at place i is taken out of the pending ones of w. *)
Take(w, i) ==
    pending' = [pending EXCEPT ![w] = SubSeq(@, 1, i - 1) \o SubSeq(@, i + 1, Len(@))]

(* Worker w creates a connection: only tasks may still wait in front of it. *)
Connect(w, i) ==
    /\ pending[w][i] \in Conns
    /\ \A j \in 1..(i - 1) : pending[w][j] \in Tasks
    /\ Take(w, i)
    /\ conns' = [conns EXCEPT ![w] = Append(@, pending[w][i])]
    /\ UNCHANGED done

(* Worker w runs a task: nothing may wait in front of it. *)
Run(w) ==
    /\ pending[w] # << >> /\ Head(pending[w]) \in Tasks
    /\ pending' = [pending EXCEPT ![w] = Tail(@)]
    /\ done' = [done EXCEPT ![w] = Append(@, Head(pending[w]))]
    /\ UNCHANGED conns

Next == \E w \in Workers :
           \/ \E m \in Conns \cup Tasks : Give(w, m)
           \/ \E i \in 1..Len(pending[w]) : Connect(w, i)
           \/ Run(w)

Spec == Init /\ [][Next]_vars
=============================================================================
