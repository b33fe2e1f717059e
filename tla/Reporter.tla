------------------------------ MODULE Reporter ------------------------------
(***************************************************************************)
(* The way of a report from the agents (report_client.cpp) to the database *)
(* of the reporter service (reporter_service.cpp, store_thread.cpp,        *)
(* store_report.cpp).                                                      *)
(*                                                                         *)
(* A report is [agent, n]: n numbers the reports of an agent.  It has one  *)
(* result, so that an agent, the caller of its reports, has one row in     *)
(* ServerCallStatus.  An agent sends them through a tcp_client, whose own  *)
(* steps are those of TcpClient, with the kernel's answer to a connect and *)
(* the callback that notices it in one step; nobody answers a report.  The *)
(* connection is served by one worker of the reactor, which calls          *)
(* get_report_status for each of its messages.  The static index in there  *)
(* is shared by all workers without a lock: its loads and stores are steps *)
(* of their own.  thread_queues are FIFOs here; that they lose no wake-up  *)
(* is shown in ThreadPool.  The output buffer takes every report; what     *)
(* happens at its limit is shown in TcpStream.                             *)
(*                                                                         *)
(* Allow names the disturbances an instance admits:                        *)
(*   "slow"    a connect is in progress for a while (EINPROGRESS)          *)
(*   "refuse"  such a connect fails                                        *)
(*   "close"   the reporter closes a connection                            *)
(*   "short"   write() takes only a part of a message                      *)
(*   "fatal"   connect() fails at once, and the agent exits                *)
(*   "query"   a query fails                                               *)
(***************************************************************************)
EXTENDS Naturals, Sequences, FiniteSets, SequencesExt, Functions

CONSTANTS Agents,      \* agent processes
          Shaky,       \* those whose connections may be disturbed
          Workers,     \* reactor threads of the reporter
          thread_cnt,  \* DB threads, numbered from 0
          Allow,       \* see above
          IndexInit,   \* what index may be at the beginning: 0, or what it was
                       \* left at by reports of agents not followed here
          MaxFaults,   \* bound: connects refused and connections closed, in all
          MaxReports,  \* bound: reports of one agent
          MaxTotal     \* bound: reports of all agents

ASSUME ReporterConstants ==
    /\ thread_cnt \in Nat \ {0} /\ {MaxReports, MaxTotal, MaxFaults} \subseteq Nat
    /\ IndexInit \subseteq 0 .. thread_cnt - 1
    /\ Allow \subseteq {"slow", "refuse", "close", "short", "fatal", "query"}

Threads == 0 .. thread_cnt - 1

VARIABLES
    made,          \* reports each agent has made
    report_queue,  \* the agent's queue of reports to send
    conn,          \* the agent's tcp_client: its socket, whether EPOLLIN and
                   \* which callback for EPOLLOUT is registered, torn: the
                   \* front of obuf is what is left of a report, split: the
                   \* stream of this connection began inside a report
    obuf,          \* reports in its output buffer
    wire,          \* reports on its connection
    faults,        \* connects refused and connections closed so far
    served,        \* the worker that serves the agent's connection
    index,         \* static int index
    handler,       \* get_report_status in each worker: step and loaded value
    reportQueues,  \* the queue of each DB thread
    started,       \* the DB threads that are connected to the database
    batch,         \* what thread_report has taken out of the queue
    row,           \* ServerCallStatus: the report in each agent's row
    fault,         \* "none", or why the process died
    gone,          \* history: how often a report was stored, failed or lost
    last           \* history: last[t][a], the newest of a's reports t stored

agentVars == <<made, report_queue, conn, obuf, wire, faults, served>>
dbVars == <<started, batch, row, gone, last>>
vars == <<agentVars, index, handler, reportQueues, dbVars, fault>>

Reports == [agent : Agents, n : 1..MaxReports]

Report(a, n) == [agent |-> a, n |-> n]

Conns ==
    [sock : {"connecting", "connected", "closed", "dead", "exited"},
     epollin : BOOLEAN, epollout : {"none", "connection_succ", "do_write"},
     torn : BOOLEAN, split : BOOLEAN]

(* What becomes of the socket in do_connect. *)
Outcomes == {"connected", "connecting", "exited"}

(* May agent a meet disturbance d of its connection? *)
Admits(a, d) == a \in Shaky /\ d \in Allow

Idle == [at |-> "idle", val |-> 0]

(* Mutant: what a new connection finds in the output buffer is not written. *)
NewConnSilent(s, out, half) ==
    [sock |-> s, epollin |-> s = "connected",
     epollout |-> IF s = "connecting" THEN "connection_succ" ELSE "none",
     torn |-> half, split |-> half]

(***************************************************************************)
(* The connection that do_connect leaves behind: made at once, in progress *)
(* or, if it failed, none.  out is the output buffer and half says whether *)
(* its front is what is left of a report.                                  *)
(***************************************************************************)
NewConn(s, out, half) ==
    [sock |-> s, epollin |-> s = "connected",
     epollout |-> CASE s = "connecting" -> "connection_succ"
                    [] s = "connected" /\ out # << >> -> "do_write"
                    [] OTHER -> "none",
     torn |-> half, split |-> half]

DoConnect(a, out, half) ==
    {NewConn(s, out, half) :
        s \in {x \in Outcomes : \/ x = "connected"
                                \/ x = "connecting" /\ Admits(a, "slow")
                                \/ x = "exited" /\ Admits(a, "fatal")}}

Init ==
    /\ made = [a \in Agents |-> 0]
    /\ report_queue = [a \in Agents |-> << >>]
    /\ conn \in [Agents -> {NewConn(s, << >>, FALSE) : s \in Outcomes}]
    /\ \A a \in Agents : conn[a] \in DoConnect(a, << >>, FALSE)
    /\ obuf = [a \in Agents |-> << >>]
    /\ wire = [a \in Agents |-> << >>]
    /\ faults = 0
    /\ served \in [Agents -> Workers]
    /\ index \in IndexInit
    /\ handler = [w \in Workers |-> Idle]
    /\ reportQueues = [t \in Threads |-> << >>]
    /\ started = {}
    /\ batch = [t \in Threads |-> << >>]
    /\ row = [a \in Agents |-> 0]
    /\ fault = "none"
    /\ gone = [r \in Reports |-> 0]
    /\ last = [t \in Threads |-> [a \in Agents |-> 0]]

Up == fault = "none"

-----------------------------------------------------------------------------
(* The agent *)

(* load_balance::commit puts a report into the queue. *)
Commit(a) ==
    /\ Up /\ conn[a].sock # "exited"
    /\ made[a] < MaxReports /\ MapThenSumSet(LAMBDA b : made[b], Agents) < MaxTotal
    /\ made' = [made EXCEPT ![a] = @ + 1]
    /\ report_queue' = [report_queue EXCEPT ![a] = Append(@, Report(a, made[a] + 1))]
    /\ UNCHANGED <<conn, obuf, wire, faults, served, index, handler, reportQueues, dbVars, fault>>

(* Mutant: one report is sent, although recv() took all of them. *)
NewReportRequestOne(a) ==
    /\ Up /\ conn[a].sock # "exited" /\ report_queue[a] # << >>
    /\ obuf' = [obuf EXCEPT ![a] = Append(@, Head(report_queue[a]))]
    /\ report_queue' = [report_queue EXCEPT ![a] = << >>]
    /\ conn' = IF obuf[a] = << >> THEN [conn EXCEPT ![a].epollout = "do_write"] ELSE conn
    /\ UNCHANGED <<made, wire, faults, served, index, handler, reportQueues, dbVars, fault>>

(***************************************************************************)
(* new_report_request: take the whole queue, send_message for each.  The   *)
(* first one arms EPOLLOUT if the buffer was empty; if the connect is      *)
(* still in progress, it takes the place of connection_succ.               *)
(***************************************************************************)
NewReportRequest(a) ==
    /\ Up /\ conn[a].sock # "exited" /\ report_queue[a] # << >>
    /\ obuf' = [obuf EXCEPT ![a] = @ \o report_queue[a]]
    /\ report_queue' = [report_queue EXCEPT ![a] = << >>]
    /\ conn' = IF obuf[a] = << >> THEN [conn EXCEPT ![a].epollout = "do_write"] ELSE conn
    /\ UNCHANGED <<made, wire, faults, served, index, handler, reportQueues, dbVars, fault>>

(* A step of a's client that puts no report into another place. *)
ClientStep(a, c) ==
    /\ Up /\ conn' = [conn EXCEPT ![a] = c]
    /\ UNCHANGED <<made, report_queue, obuf, wire, index, handler, reportQueues, dbVars, fault>>

(* connection_succ, if it is still registered, listens and writes. *)
ConnectCompletes(a) ==
    /\ conn[a].sock = "connecting"
    /\ ClientStep(a, IF conn[a].epollout = "connection_succ"
                       THEN NewConn("connected", obuf[a], conn[a].torn)
                       ELSE [conn[a] EXCEPT !.sock = "connected"])
    /\ UNCHANGED <<faults, served>>

(* connection_succ gives the socket up; do_write in its place will not. *)
ConnectRefused(a) ==
    /\ conn[a].sock = "connecting" /\ Admits(a, "refuse") /\ faults < MaxFaults
    /\ ClientStep(a, [conn[a] EXCEPT !.sock = "dead",
                         !.epollout = IF @ = "connection_succ" THEN "none" ELSE @])
    /\ faults' = faults + 1
    /\ UNCHANGED served

(***************************************************************************)
(* do_write: write() accepts n reports and perhaps a part of the next; an  *)
(* empty buffer disarms EPOLLOUT.                                          *)
(***************************************************************************)
DoWrite(a) ==
    /\ Up /\ conn[a].sock = "connected" /\ conn[a].epollout = "do_write"
    /\ \E n \in 0..Len(obuf[a]), half \in BOOLEAN :
          /\ IF half THEN Admits(a, "short") /\ n < Len(obuf[a]) ELSE n > 0
          /\ wire' = [wire EXCEPT ![a] = @ \o SubSeq(obuf[a], 1, n)]
          /\ obuf' = [obuf EXCEPT ![a] = SubSeq(@, n + 1, Len(@))]
          /\ conn' = [conn EXCEPT ![a].torn = half,
                        ![a].epollout = IF n = Len(obuf[a]) THEN "none" ELSE @]
    /\ UNCHANGED <<made, report_queue, faults, served, index, handler, reportQueues, dbVars, fault>>

(* The reports of q are lost. *)
Lose(q) == gone' = [r \in Reports |-> IF Contains(q, r) THEN gone[r] + 1 ELSE gone[r]]

(* The reporter closes a's connection: what is on it is lost. *)
PeerCloses(a) ==
    /\ Up /\ conn[a].sock = "connected" /\ Admits(a, "close") /\ faults < MaxFaults
    /\ conn' = [conn EXCEPT ![a].sock = "closed"]
    /\ Lose(wire[a])
    /\ wire' = [wire EXCEPT ![a] = << >>]
    /\ faults' = faults + 1
    /\ UNCHANGED <<made, report_queue, obuf, served, index, handler, reportQueues, started, batch,
                   row, last, fault>>

(* The connection was closed, but neither do_read nor write() knows yet. *)
DoWriteInVain(a) ==
    /\ Up /\ conn[a].sock = "closed" /\ ~conn[a].epollin /\ conn[a].epollout = "do_write"
    /\ conn' = [conn EXCEPT ![a].torn = FALSE, ![a].epollout = "none"]
    /\ Lose(obuf[a])
    /\ obuf' = [obuf EXCEPT ![a] = << >>]
    /\ UNCHANGED <<made, report_queue, wire, faults, served, index, handler, reportQueues, started,
                   batch, row, last, fault>>

(***************************************************************************)
(* do_read or do_write finds the connection gone, and clean_conn makes a   *)
(* new one, which worker w may serve.  The output buffer stays as it is:   *)
(* if its front is what is left of a report, the new stream begins with it.*)
(***************************************************************************)
CleanConn(a, w) ==
    /\ \/ conn[a].sock = "closed" /\ conn[a].epollin
       \/ conn[a].sock \in {"closed", "dead"} /\ conn[a].epollout = "do_write"
    /\ \E c \in DoConnect(a, obuf[a], conn[a].torn) : ClientStep(a, c)
    /\ served' = [served EXCEPT ![a] = w]
    /\ UNCHANGED faults

-----------------------------------------------------------------------------
(* get_report_status, in a worker of the reactor *)

(***************************************************************************)
(* reportQueues[index]->send(req), with whatever index is.  No report is   *)
(* made out of a stream that began inside one.                             *)
(***************************************************************************)
SendToThread(w, a) ==
    /\ Up /\ served[a] = w /\ handler[w].at = "idle" /\ wire[a] # << >> /\ ~conn[a].split
    /\ \/ /\ index \in Threads
          /\ wire' = [wire EXCEPT ![a] = Tail(@)]
          /\ reportQueues' = [reportQueues EXCEPT ![index] = Append(@, Head(wire[a]))]
          /\ handler' = [handler EXCEPT ![w].at = "load"]
          /\ UNCHANGED fault
       \/ /\ index \notin Threads
          /\ fault' = "index"
          /\ UNCHANGED <<wire, reportQueues, handler>>
    /\ UNCHANGED <<made, report_queue, conn, obuf, faults, served, index, dbVars>>

(* A step of handler w that touches no more than index. *)
Step(w, from, to, val) ==
    /\ Up /\ handler[w].at = from
    /\ handler' = [handler EXCEPT ![w] = [at |-> to, val |-> val]]
    /\ UNCHANGED <<agentVars, reportQueues, dbVars, fault>>

(* index++ *)
IncLoad(w) == Step(w, "load", "inc", index) /\ UNCHANGED index
IncStore(w) == Step(w, "inc", "reload", 0) /\ index' = handler[w].val + 1

(* Mutant: the remainder is taken one too late. *)
ModStoreLate(w) == Step(w, "mod", "idle", 0) /\ index' = handler[w].val % (thread_cnt + 1)

(* index = index % thread_cnt *)
ModLoad(w) == Step(w, "reload", "mod", index) /\ UNCHANGED index
ModStore(w) == Step(w, "mod", "idle", 0) /\ index' = handler[w].val % thread_cnt

-----------------------------------------------------------------------------
(* A DB thread *)

(* store_main: connect to the database, or the process exits. *)
StoreMain(t) ==
    /\ Up /\ t \notin started
    /\ \/ started' = started \cup {t} /\ UNCHANGED fault
       \/ fault' = "mysql" /\ UNCHANGED started
    /\ UNCHANGED <<agentVars, index, handler, reportQueues, batch, row, gone, last>>

(* thread_report: recv() takes the whole queue. *)
RecvReports(t) ==
    /\ Up /\ t \in started /\ batch[t] = << >> /\ reportQueues[t] # << >>
    /\ batch' = [batch EXCEPT ![t] = reportQueues[t]]
    /\ reportQueues' = [reportQueues EXCEPT ![t] = << >>]
    /\ UNCHANGED <<agentVars, index, handler, started, row, gone, last, fault>>

(* Mutant: the newest report of the batch is stored first. *)
StoreNewest(t) ==
    /\ Up /\ batch[t] # << >>
    /\ LET r == Last(batch[t]) IN
       /\ batch' = [batch EXCEPT ![t] = Front(@)]
       /\ gone' = [gone EXCEPT ![r] = @ + 1]
       /\ row' = [row EXCEPT ![r.agent] = r.n]
       /\ last' = [last EXCEPT ![t][r.agent] = r.n]
    /\ UNCHANGED <<agentVars, index, handler, reportQueues, started, fault>>

(* StoreReport::store: insert or overwrite the row; a failure is printed. *)
Store(t) ==
    /\ Up /\ batch[t] # << >>
    /\ LET r == Head(batch[t]) IN
       /\ batch' = [batch EXCEPT ![t] = Tail(@)]
       /\ gone' = [gone EXCEPT ![r] = @ + 1]
       /\ \/ /\ row' = [row EXCEPT ![r.agent] = r.n]
             /\ last' = [last EXCEPT ![t][r.agent] = r.n]
          \/ "query" \in Allow /\ UNCHANGED <<row, last>>
    /\ UNCHANGED <<agentVars, index, handler, reportQueues, started, fault>>

-----------------------------------------------------------------------------
Handler(w) ==
    \/ \E a \in Agents : SendToThread(w, a)
    \/ IncLoad(w) \/ IncStore(w) \/ ModLoad(w) \/ ModStore(w)

DbThread(t) == StoreMain(t) \/ RecvReports(t) \/ Store(t)

(* The agent's thread for the reporter, and what the kernel tells it. *)
Client(a) ==
    \/ NewReportRequest(a) \/ ConnectCompletes(a) \/ ConnectRefused(a)
    \/ DoWrite(a) \/ DoWriteInVain(a) \/ \E w \in Workers : CleanConn(a, w)

Next ==
    \/ \E a \in Agents : Commit(a) \/ PeerCloses(a) \/ Client(a)
    \/ \E w \in Workers : Handler(w)
    \/ \E t \in Threads : DbThread(t)

Spec == Init /\ [][Next]_vars

(***************************************************************************)
(* Fairness: the threads of both processes run, a connect is answered, and *)
(* the kernel takes what it is given.  Nobody owes a report.               *)
(***************************************************************************)
FairSpec ==
    /\ Spec
    /\ \A a \in Agents : WF_vars(Client(a))
    /\ \A w \in Workers : WF_vars(Handler(w))
    /\ \A t \in Threads : WF_vars(DbThread(t))

-----------------------------------------------------------------------------
(* Properties. *)

(* Every variable of the reporter keeps its type. *)
TypeOK ==
    /\ made \in [Agents -> 0..MaxReports]
    /\ conn \in [Agents -> Conns]
    /\ faults \in 0..MaxFaults
    /\ served \in [Agents -> Workers]
    /\ index \in Nat
    /\ handler \in [Workers -> [at : {"idle", "load", "inc", "reload", "mod"}, val : Nat]]
    /\ DOMAIN reportQueues = Threads /\ \A t \in Threads : Range(reportQueues[t]) \subseteq Reports
    /\ started \subseteq Threads /\ \A t \in Threads : Range(batch[t]) \subseteq Reports
    /\ row \in [Agents -> 0..MaxReports]
    /\ fault \in {"none", "index", "mysql"}

(***************************************************************************)
(* The handlers race for index, and lose updates of each other; but index  *)
(* is out of range only while one of them is between index++ and the       *)
(* remainder, so one worker alone never leaves the array, and a bad value  *)
(* does not stay.                                                          *)
(***************************************************************************)
IndexRecovers ==
    /\ TypeOK
    /\ (\A w \in Workers : handler[w].at \notin {"reload", "mod"}) => index \in Threads

(* How many copies of r are in the queues qs. *)
Copies(r, qs) ==
    Cardinality({p \in UNION {{q} \X DOMAIN qs[q] : q \in DOMAIN qs} : qs[p[1]][p[2]] = r})

(***************************************************************************)
(* No report gets lost or is stored twice between commit() and the         *)
(* database, whatever index the racing handlers use, in whichever order    *)
(* the threads start: it is in one place, once.                            *)
(***************************************************************************)
EachReportOnce ==
    \A a \in Agents : \A n \in 1 .. made[a] :
        LET r == Report(a, n)
        IN  Copies(r, report_queue) + Copies(r, obuf) + Copies(r, wire)
              + Copies(r, reportQueues) + Copies(r, batch) + gone[r] = 1

(***************************************************************************)
(* A DB thread stores the reports of one agent in the order in which they  *)
(* were made: a row goes back to an older report only if another thread    *)
(* had stored the newer one, because index spreads them over all threads.  *)
(***************************************************************************)
OrderInThread ==
    [][\A a \in Agents, t \in Threads : last'[t][a] >= last[t][a]]_vars

(* Reports in the output buffer that no callback will write. *)
Stranded(a) == conn[a].sock = "dead" /\ conn[a].epollout = "none" /\ obuf[a] # << >>

(***************************************************************************)
(* Once no more reports are made, every one comes to its end: it is        *)
(* stored, its query fails or it is lost with a connection, unless the     *)
(* reporter dies.  A report stays on its way for ever in three cases only: *)
(* the agent has exited; the agent kept it when its connection was lost,   *)
(* and the connect that followed failed (tcp_client.cpp:62); or it was     *)
(* written to a stream that began inside a report, and that nobody has     *)
(* closed.  No thread keeps waiting beside a queue that has something in   *)
(* it.                                                                     *)
(***************************************************************************)
ReportsArrive ==
    []<>(\/ fault # "none"
         \/ \A r \in Reports : made[r.agent] >= r.n =>
              LET a == r.agent
              IN  \/ gone[r] > 0
                  \/ conn[a].sock = "exited" /\ Contains(obuf[a] \o report_queue[a], r)
                  \/ Stranded(a) /\ Contains(obuf[a], r)
                  \/ conn[a].split /\ Contains(wire[a], r))
=============================================================================
