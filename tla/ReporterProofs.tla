--------------------------- MODULE ReporterProofs ---------------------------
(***************************************************************************)
(* Proofs about Reporter, for any number of agents, workers and DB threads *)
(* and every race for the index.                                           *)
(*                                                                         *)
(* The reports of an agent are numbered without gaps: 1..Left(a) have left *)
(* the connection, what is on the wire follows (WireNumbered), then what   *)
(* is in the output buffer (BufNumbered) and then what waits to be sent    *)
(* (QueueNumbered).  Only a connection that is up has something on it      *)
(* (WireIsUp), so what is written in vain comes next.  A DB thread sees    *)
(* its batch and its queue as one line, which recv() does not change.  A   *)
(* report that has left the connection is in one line, once, or it is gone *)
(* (Settled), and a line holds the reports of an agent in their order,     *)
(* after those that the thread has stored (LineSorted, LineAfterLast).     *)
(* New ones come from the wire, and are newer than all of them (LineLeft,  *)
(* LastLeft).                                                              *)
(***************************************************************************)
EXTENDS Reporter, FiniteSetTheorems, TLAPS

(* Every variable, sequences included. *)
Types ==
    /\ made \in [Agents -> 0..MaxReports]
    /\ report_queue \in [Agents -> Seq(Reports)]
    /\ conn \in [Agents -> Conns]
    /\ obuf \in [Agents -> Seq(Reports)]
    /\ wire \in [Agents -> Seq(Reports)]
    /\ faults \in 0..MaxFaults
    /\ served \in [Agents -> Workers]
    /\ index \in Nat
    /\ handler \in [Workers -> [at : {"idle", "load", "inc", "reload", "mod"}, val : Nat]]
    /\ reportQueues \in [Threads -> Seq(Reports)]
    /\ started \subseteq Threads
    /\ batch \in [Threads -> Seq(Reports)]
    /\ row \in [Agents -> 0..MaxReports]
    /\ fault \in {"none", "index", "mysql"}
    /\ gone \in [Reports -> {0, 1}]
    /\ last \in [Threads -> [Agents -> 0..MaxReports]]

(* index is in range unless a handler is between index++ and the remainder. *)
IndexInRange == (\A w \in Workers : handler[w].at \notin {"reload", "mod"}) => index \in Threads

(* The reports of a that were sent, were written, and have left its connection. *)
Sent(a) == made[a] - Len(report_queue[a])

Written(a) == Sent(a) - Len(obuf[a])

Left(a) == Written(a) - Len(wire[a])

(* What waits to be sent, to be written and to be read is numbered on. *)
QueueNumbered ==
    \A a \in Agents : \A i \in 1..Len(report_queue[a]) : report_queue[a][i] = Report(a, Sent(a) + i)

BufNumbered ==
    \A a \in Agents : \A i \in 1..Len(obuf[a]) : obuf[a][i] = Report(a, Written(a) + i)

WireNumbered ==
    \A a \in Agents :
        Left(a) >= 0 /\ \A i \in 1..Len(wire[a]) : wire[a][i] = Report(a, Left(a) + i)

(* Nothing is on a connection that is not up. *)
WireIsUp == \A a \in Agents : conn[a].sock # "connected" => wire[a] = << >>

(* What thread t has still to store. *)
Line(t) == batch[t] \o reportQueues[t]

InLine(r, t) == \E i \in 1..Len(Line(t)) : Line(t)[i] = r

(* What is in a line has left the connection, and is not gone. *)
LineLeft ==
    \A t \in Threads : \A i \in 1..Len(Line(t)) :
        Line(t)[i].n <= Left(Line(t)[i].agent) /\ gone[Line(t)[i]] = 0

(* The reports of an agent are in their order, so each is there once. *)
LineSorted ==
    \A t \in Threads : \A i, j \in 1..Len(Line(t)) :
        i < j /\ Line(t)[i].agent = Line(t)[j].agent => Line(t)[i].n < Line(t)[j].n

(* No report is in two lines. *)
LinesApart ==
    \A t, u \in Threads : \A i \in 1..Len(Line(t)), j \in 1..Len(Line(u)) :
        Line(t)[i] = Line(u)[j] => t = u

(* What t has stored is older than what it has still to store. *)
LineAfterLast ==
    \A t \in Threads : \A i \in 1..Len(Line(t)) : last[t][Line(t)[i].agent] < Line(t)[i].n

LastLeft == \A t \in Threads, a \in Agents : last[t][a] <= Left(a)

(* A report is gone or in a line if it has left the connection, else neither. *)
Settled ==
    \A r \in Reports :
        IF r.n <= Left(r.agent)
          THEN gone[r] = 1 \/ \E t \in Threads : InLine(r, t)
          ELSE gone[r] = 0

IInv ==
    /\ Types /\ IndexInRange
    /\ QueueNumbered /\ BufNumbered /\ WireNumbered /\ WireIsUp
    /\ LineLeft /\ LineSorted /\ LinesApart
    /\ LineAfterLast /\ LastLeft
    /\ Settled

-----------------------------------------------------------------------------
(* Sequences and lines. *)

(* The entries of a sequence, and of one that is put together. *)
LEMMA Entries ==
  ASSUME NEW S, NEW q \in Seq(S)
  PROVE  /\ Len(q) \in Nat /\ \A i \in 1..Len(q) : q[i] \in S
         /\ \A x \in S :
              /\ Append(q, x) \in Seq(S) /\ Len(Append(q, x)) = Len(q) + 1
              /\ Append(q, x)[Len(q) + 1] = x
              /\ \A i \in 1..Len(q) : Append(q, x)[i] = q[i]
  OBVIOUS

LEMMA FirstTaken ==
  ASSUME NEW S, NEW q \in Seq(S), q # << >>
  PROVE  /\ Len(q) \in Nat /\ Len(q) >= 1 /\ Len(Tail(q)) = Len(q) - 1
         /\ Head(q) = q[1] /\ Head(q) \in S /\ Tail(q) \in Seq(S)
         /\ \A i \in 1..(Len(q) - 1) : Tail(q)[i] = q[i + 1]
  OBVIOUS

LEMMA Joined ==
  ASSUME NEW S, NEW p \in Seq(S), NEW q \in Seq(S)
  PROVE  /\ p \o q \in Seq(S) /\ Len(p \o q) = Len(p) + Len(q)
         /\ \A i \in 1..Len(p) : (p \o q)[i] = p[i]
         /\ \A i \in 1..Len(q) : (p \o q)[Len(p) + i] = q[i]
  OBVIOUS

(* A report is determined by its agent and its number. *)
LEMMA ReportIsPair ==
  /\ \A r \in Reports : r = Report(r.agent, r.n) /\ r.agent \in Agents /\ r.n \in Nat /\ r.n >= 1
  /\ \A a \in Agents, n \in 1..MaxReports :
       Report(a, n) \in Reports /\ Report(a, n).agent = a /\ Report(a, n).n = n
  BY ReporterConstants DEF Reports, Report

LEMMA LineTypes ==
  ASSUME Types, NEW t \in Threads
  PROVE  /\ batch[t] \in Seq(Reports) /\ reportQueues[t] \in Seq(Reports)
         /\ Line(t) \in Seq(Reports) /\ Len(Line(t)) \in Nat
         /\ \A i \in 1..Len(Line(t)) : Line(t)[i] \in Reports
  <1>1. batch[t] \in Seq(Reports) /\ reportQueues[t] \in Seq(Reports)
    BY DEF Types
  <1>2. Line(t) \in Seq(Reports)
    BY <1>1, Joined DEF Line
  <1>3. QED
    BY <1>1, <1>2, Entries

(* How far the reports of an agent have come. *)
LEMMA Progress ==
  ASSUME Types, NEW a \in Agents
  PROVE  /\ report_queue[a] \in Seq(Reports) /\ obuf[a] \in Seq(Reports)
         /\ wire[a] \in Seq(Reports)
         /\ Len(report_queue[a]) \in Nat /\ Len(obuf[a]) \in Nat /\ Len(wire[a]) \in Nat
         /\ made[a] \in Nat /\ made[a] <= MaxReports
         /\ Sent(a) \in Int /\ Written(a) \in Int /\ Left(a) \in Int
         /\ made[a] = Sent(a) + Len(report_queue[a]) /\ Sent(a) = Written(a) + Len(obuf[a])
         /\ Written(a) = Left(a) + Len(wire[a])
         /\ MaxReports \in Nat
  <1>1. /\ report_queue[a] \in Seq(Reports) /\ obuf[a] \in Seq(Reports)
        /\ wire[a] \in Seq(Reports)
        /\ made[a] \in 0..MaxReports
    BY DEF Types
  <1>2. Len(report_queue[a]) \in Nat /\ Len(obuf[a]) \in Nat /\ Len(wire[a]) \in Nat
    BY <1>1, Entries
  <1>3. MaxReports \in Nat
    BY ReporterConstants
  <1>4. \A m, x, y, z \in Int :
          /\ m - x \in Int /\ m = (m - x) + x
          /\ (m - x) - y \in Int /\ m - x = ((m - x) - y) + y
          /\ ((m - x) - y) - z \in Int /\ (m - x) - y = (((m - x) - y) - z) + z
    OBVIOUS
  <1>5. made[a] \in Nat /\ made[a] \in Int /\ made[a] <= MaxReports
    BY <1>1, <1>3
  <1>6. /\ Sent(a) \in Int /\ Written(a) \in Int /\ Left(a) \in Int
        /\ made[a] = Sent(a) + Len(report_queue[a]) /\ Sent(a) = Written(a) + Len(obuf[a])
        /\ Written(a) = Left(a) + Len(wire[a])
    <2>1. PICK m \in Int, x \in Int, y \in Int, z \in Int :
            /\ m = made[a] /\ x = Len(report_queue[a]) /\ y = Len(obuf[a]) /\ z = Len(wire[a])
      BY <1>2, <1>5
    <2>2. Sent(a) = m - x /\ Written(a) = (m - x) - y /\ Left(a) = ((m - x) - y) - z
      BY <2>1 DEF Sent, Written, Left
    <2>3. /\ m - x \in Int /\ m = (m - x) + x
          /\ (m - x) - y \in Int /\ m - x = ((m - x) - y) + y
          /\ ((m - x) - y) - z \in Int /\ (m - x) - y = (((m - x) - y) - z) + z
      BY <1>4
    <2>4. QED
      BY <2>1, <2>2, <2>3, Zenon
  <1>7. QED
    BY <1>1, <1>2, <1>3, <1>5, <1>6

(* A report at the end of a queue is at the end of the line. *)
LEMMA LineGrows ==
  ASSUME Types, NEW t \in Threads, NEW x \in Reports, batch' = batch,
         reportQueues' = [reportQueues EXCEPT ![t] = Append(@, x)]
  PROVE  /\ Len(Line(t)') = Len(Line(t)) + 1 /\ Line(t)'[Len(Line(t)) + 1] = x
         /\ \A i \in 1..Len(Line(t)) : Line(t)'[i] = Line(t)[i]
         /\ \A u \in Threads : u # t => Line(u)' = Line(u)
  <1>1. /\ batch[t] \in Seq(Reports) /\ reportQueues[t] \in Seq(Reports)
        /\ reportQueues'[t] = Append(reportQueues[t], x)
        /\ \A u \in Threads : u # t => reportQueues'[u] = reportQueues[u]
    BY DEF Types
  <1>2. \A u \in Threads : u # t => Line(u)' = Line(u)
    BY <1>1 DEF Line
  <1>3. PICK p \in Seq(Reports), q \in Seq(Reports) : p = batch[t] /\ q = reportQueues[t]
    BY <1>1
  <1>4. Line(t) = p \o q /\ Line(t)' = p \o Append(q, x)
    BY <1>1, <1>3 DEF Line
  <1>5. /\ Len(p \o Append(q, x)) = Len(p \o q) + 1
        /\ (p \o Append(q, x))[Len(p \o q) + 1] = x
        /\ \A i \in 1..Len(p \o q) : (p \o Append(q, x))[i] = (p \o q)[i]
    OBVIOUS
  <1>6. QED
    BY <1>2, <1>4, <1>5

(* recv() turns the queue into the batch, and leaves the line as it is. *)
LEMMA LineReceived ==
  ASSUME Types, NEW t \in Threads, batch[t] = << >>,
         batch' = [batch EXCEPT ![t] = reportQueues[t]],
         reportQueues' = [reportQueues EXCEPT ![t] = << >>]
  PROVE  \A u \in Threads : Line(u)' = Line(u)
  <1>1. /\ reportQueues[t] \in Seq(Reports)
        /\ reportQueues'[t] = << >> /\ batch'[t] = reportQueues[t]
        /\ \A u \in Threads : u # t => reportQueues'[u] = reportQueues[u] /\ batch'[u] = batch[u]
    BY DEF Types
  <1>2. \A u \in Threads : u # t => Line(u)' = Line(u)
    BY <1>1 DEF Line
  <1>3. \A q \in Seq(Reports) : q \o << >> = << >> \o q
    OBVIOUS
  <1>4. Line(t)' = Line(t)
    BY <1>1, <1>3 DEF Line
  <1>5. QED
    BY <1>2, <1>4

(* The first report of a batch is the first of the line. *)
LEMMA LineShrinks ==
  ASSUME Types, NEW t \in Threads, batch[t] # << >>, reportQueues' = reportQueues,
         batch' = [batch EXCEPT ![t] = Tail(@)]
  PROVE  /\ Len(Line(t)) >= 1 /\ Line(t)[1] = Head(batch[t])
         /\ Len(Line(t)') = Len(Line(t)) - 1
         /\ \A i \in 1..(Len(Line(t)) - 1) : Line(t)'[i] = Line(t)[i + 1]
         /\ \A u \in Threads : u # t => Line(u)' = Line(u)
  <1>1. /\ batch[t] \in Seq(Reports) /\ reportQueues[t] \in Seq(Reports)
        /\ batch'[t] = Tail(batch[t])
        /\ \A u \in Threads : u # t => batch'[u] = batch[u]
    BY DEF Types
  <1>2. \A u \in Threads : u # t => Line(u)' = Line(u)
    BY <1>1 DEF Line
  <1>3. PICK p \in Seq(Reports), q \in Seq(Reports) : p = batch[t] /\ q = reportQueues[t]
    BY <1>1
  <1>4. Line(t) = p \o q /\ Line(t)' = Tail(p) \o q /\ p # << >>
    BY <1>1, <1>3 DEF Line
  <1>5. /\ Len(p \o q) >= 1 /\ (p \o q)[1] = Head(p)
        /\ Len(Tail(p) \o q) = Len(p \o q) - 1
        /\ \A i \in 1..(Len(p \o q) - 1) : (Tail(p) \o q)[i] = (p \o q)[i + 1]
    BY <1>4
  <1>6. QED
    BY <1>2, <1>3, <1>4, <1>5

-----------------------------------------------------------------------------
(* Every step preserves the invariant. *)

(* What do_connect leaves behind is a connection. *)
LEMMA NewConnType ==
  /\ \A s \in Outcomes, half \in BOOLEAN : \A out : NewConn(s, out, half) \in Conns
  /\ \A a \in Agents, half \in BOOLEAN : \A out : DoConnect(a, out, half) \subseteq Conns
  <1>1. \A s \in Outcomes, half \in BOOLEAN : \A out : NewConn(s, out, half) \in Conns
    BY DEF Outcomes, NewConn, Conns
  <1>2. QED
    BY <1>1 DEF DoConnect

(* No report has been made at the start. *)
LEMMA InitIInv == Init => IInv
  <1> SUFFICES ASSUME Init PROVE IInv
    OBVIOUS
  <1>1. thread_cnt \in Nat \ {0} /\ MaxReports \in Nat
    BY ReporterConstants
  <1>0. index \in Threads /\ index \in Nat
    BY <1>1, ReporterConstants DEF Init, Threads
  <1>2. Types
    <2>1. << >> \in Seq(Reports) /\ 0 \in 0..MaxReports
      BY <1>1
    <2>2. /\ made \in [Agents -> 0..MaxReports] /\ row \in [Agents -> 0..MaxReports]
          /\ last \in [Threads -> [Agents -> 0..MaxReports]]
      BY <2>1 DEF Init
    <2>3. /\ report_queue \in [Agents -> Seq(Reports)] /\ obuf \in [Agents -> Seq(Reports)]
          /\ wire \in [Agents -> Seq(Reports)]
          /\ reportQueues \in [Threads -> Seq(Reports)] /\ batch \in [Threads -> Seq(Reports)]
      BY <2>1 DEF Init
    <2>4. handler \in [Workers -> [at : {"idle", "load", "inc", "reload", "mod"}, val : Nat]]
      BY DEF Init, Idle
    <2>5. gone \in [Reports -> {0, 1}]
      BY DEF Init
    <2>6. conn \in [Agents -> Conns] /\ faults \in 0..MaxFaults
      <3>1. {NewConn(s, << >>, FALSE) : s \in Outcomes} \subseteq Conns
        BY NewConnType
      <3>2. faults \in 0..MaxFaults
        BY ReporterConstants DEF Init
      <3>3. QED
        BY <3>1, <3>2 DEF Init
    <2>7. QED
      BY <1>0, <2>2, <2>3, <2>4, <2>5, <2>6 DEF Init, Types
  <1>3. IndexInRange
    BY <1>0 DEF IndexInRange
  <1>4. \A a \in Agents :
          /\ Len(wire[a]) = 0 /\ Len(obuf[a]) = 0 /\ Len(report_queue[a]) = 0
          /\ Left(a) = 0 /\ wire[a] = << >>
    BY DEF Init, Left, Written, Sent
  <1>5. QueueNumbered /\ BufNumbered /\ WireNumbered /\ WireIsUp
    BY <1>4 DEF QueueNumbered, BufNumbered, WireNumbered, WireIsUp
  <1>6. \A t \in Threads : Len(Line(t)) = 0
    BY DEF Init, Line
  <1>7. LineLeft /\ LineSorted /\ LinesApart /\ LineAfterLast
    BY <1>6 DEF LineLeft, LineSorted, LinesApart, LineAfterLast
  <1>8. LastLeft
    BY <1>4 DEF Init, LastLeft
  <1>9. Settled
    <2>1. \A r \in Reports : gone[r] = 0 /\ ~(r.n <= Left(r.agent))
      BY <1>4, ReportIsPair DEF Init
    <2>2. QED
      BY <2>1 DEF Settled
  <1>10. QED
    BY <1>2, <1>3, <1>5, <1>7, <1>8, <1>9 DEF IInv

(* The conjuncts of IInv, one by one. *)
LEMMA Parts ==
  ASSUME IInv
  PROVE  /\ Types /\ IndexInRange
         /\ QueueNumbered /\ BufNumbered /\ WireNumbered /\ WireIsUp
         /\ LineLeft /\ LineSorted /\ LinesApart /\ LineAfterLast /\ LastLeft /\ Settled
  BY DEF IInv

(* Lines that do not change, of reports that do not move. *)
LEMMA SameLines ==
  ASSUME IInv, \A t \in Threads : Line(t)' = Line(t),
         \A a \in Agents : Left(a)' = Left(a), gone' = gone, last' = last
  PROVE  /\ LineLeft'
         /\ LineSorted'
         /\ LinesApart'
         /\ LineAfterLast'
         /\ LastLeft'
         /\ Settled'
  <1>1. \A t \in Threads : \A i \in 1..Len(Line(t)) :
          Line(t)[i] \in Reports /\ Line(t)[i].agent \in Agents
    BY Parts, LineTypes, ReportIsPair
  <1>2. LineLeft'
    BY <1>1, Parts DEF LineLeft
  <1>3. LineSorted' /\ LinesApart'
    BY Parts DEF LineSorted, LinesApart
  <1>4. LineAfterLast' /\ LastLeft'
    BY Parts DEF LineAfterLast, LastLeft
  <1>5. \A r \in Reports, t \in Threads : InLine(r, t)' <=> InLine(r, t)
    BY DEF InLine
  <1>6. Settled'
    BY <1>5, Parts, ReportIsPair DEF Settled
  <1>7. QED
    BY <1>2, <1>3, <1>4, <1>6

(* A step of a thread of the reporter that moves no report. *)
LEMMA QuietIInv ==
  ASSUME IInv, UNCHANGED <<made, report_queue, obuf, wire, gone, last>>,
         \A t \in Threads : Line(t)' = Line(t), Types', IndexInRange', WireIsUp'
  PROVE  IInv'
  <1>1. \A a \in Agents : Sent(a)' = Sent(a) /\ Written(a)' = Written(a) /\ Left(a)' = Left(a)
    BY DEF Sent, Written, Left
  <1>2. QueueNumbered' /\ BufNumbered' /\ WireNumbered'
    BY <1>1, Parts DEF QueueNumbered, BufNumbered, WireNumbered
  <1>3. QED
    BY <1>1, <1>2, SameLines DEF IInv

(* The new report gets the next number. *)
LEMMA CommitIInv ==
  ASSUME IInv, NEW a \in Agents, Commit(a)
  PROVE  IInv'
  <1>1. PICK x : x = Report(a, made[a] + 1)
    OBVIOUS
  <1>2. /\ made[a] < MaxReports /\ made' = [made EXCEPT ![a] = @ + 1]
        /\ report_queue' = [report_queue EXCEPT ![a] = Append(@, x)]
        /\ UNCHANGED <<conn, obuf, wire, faults, served, index, handler, reportQueues, started,
                       batch, row, gone, last, fault>>
    BY <1>1 DEF Commit, dbVars
  <1>3. \A b \in Agents :
          /\ report_queue[b] \in Seq(Reports) /\ Len(report_queue[b]) \in Nat
          /\ made[b] \in Nat /\ Len(obuf[b]) \in Nat /\ Len(wire[b]) \in Nat
    BY Parts, Progress
  <1>4. x \in Reports
    <2>1. made[a] + 1 \in 1..MaxReports
      BY <1>2, <1>3, ReporterConstants
    <2>2. QED
      BY <1>1, <2>1, ReportIsPair
  <1>5. /\ report_queue'[a] = Append(report_queue[a], x) /\ made'[a] = made[a] + 1
        /\ \A b \in Agents : b # a => report_queue'[b] = report_queue[b] /\ made'[b] = made[b]
    BY <1>2, Parts DEF Types
  <1>6. /\ Len(report_queue'[a]) = Len(report_queue[a]) + 1
        /\ report_queue'[a][Len(report_queue[a]) + 1] = x
        /\ \A i \in 1..Len(report_queue[a]) : report_queue'[a][i] = report_queue[a][i]
    BY <1>3, <1>4, <1>5, Entries
  <1>7. Types'
    <2>1. made' \in [Agents -> 0..MaxReports]
      BY <1>2, <1>3, Parts, ReporterConstants DEF Types
    <2>2. report_queue' \in [Agents -> Seq(Reports)]
      BY <1>2, <1>4, Parts DEF Types
    <2>3. QED
      BY <1>2, <2>1, <2>2, Parts DEF Types
  <1>8. \A b \in Agents : Sent(b)' = Sent(b) /\ Written(b)' = Written(b) /\ Left(b)' = Left(b)
    <2>1. \A b \in Agents : Sent(b)' = Sent(b)
      <3>1. \A m, l \in Nat : (m + 1) - (l + 1) = m - l
        OBVIOUS
      <3>2. Sent(a)' = (made[a] + 1) - (Len(report_queue[a]) + 1)
        BY <1>5, <1>6 DEF Sent
      <3>3. Sent(a)' = Sent(a)
        BY <1>3, <3>1, <3>2 DEF Sent
      <3>4. QED
        BY <1>5, <3>3 DEF Sent
    <2>2. QED
      BY <1>2, <2>1 DEF Written, Left
  <1>9. QueueNumbered'
    <2> SUFFICES ASSUME NEW b \in Agents, NEW i \in 1..Len(report_queue'[b])
                 PROVE  report_queue'[b][i] = Report(b, Sent(b)' + i)
      BY DEF QueueNumbered
    <2>1. CASE b # a
      BY <1>5, <1>8, <2>1, Parts DEF QueueNumbered
    <2>2. CASE b = a /\ i \in 1..Len(report_queue[a])
      BY <1>6, <1>8, <2>2, Parts DEF QueueNumbered
    <2>3. CASE b = a /\ i = Len(report_queue[a]) + 1
      <3>1. Sent(a) + i = made[a] + 1
        BY <1>3, <2>3 DEF Sent
      <3>2. QED
        BY <1>1, <1>6, <1>8, <2>3, <3>1
    <2>4. QED
      BY <1>3, <1>6, <2>1, <2>2, <2>3
  <1>10. BufNumbered' /\ WireNumbered' /\ WireIsUp'
    BY <1>2, <1>8, Parts DEF BufNumbered, WireNumbered, WireIsUp
  <1>11. IndexInRange'
    BY <1>2, Parts DEF IndexInRange
  <1>12. \A t \in Threads : Line(t)' = Line(t)
    BY <1>2 DEF Line
  <1>13. QED
    BY <1>2, <1>7, <1>8, <1>9, <1>10, <1>11, <1>12, SameLines DEF IInv

(* What is sent follows what is in the output buffer. *)
LEMMA NewReportRequestIInv ==
  ASSUME IInv, NEW a \in Agents, NewReportRequest(a)
  PROVE  IInv'
  <1>1. /\ obuf' = [obuf EXCEPT ![a] = @ \o report_queue[a]]
        /\ report_queue' = [report_queue EXCEPT ![a] = << >>]
        /\ conn' = conn \/ conn' = [conn EXCEPT ![a].epollout = "do_write"]
        /\ UNCHANGED <<made, wire, faults, served, index, handler, reportQueues, started, batch,
                       row, gone, last, fault>>
    BY DEF NewReportRequest, dbVars
  <1>2. \A b \in Agents :
          /\ report_queue[b] \in Seq(Reports) /\ Len(report_queue[b]) \in Nat
          /\ obuf[b] \in Seq(Reports) /\ Len(obuf[b]) \in Nat
          /\ made[b] \in Nat /\ Sent(b) \in Int /\ Written(b) \in Int
          /\ made[b] = Sent(b) + Len(report_queue[b]) /\ Sent(b) = Written(b) + Len(obuf[b])
          /\ Len(wire[b]) \in Nat
    BY Parts, Progress
  <1>3. /\ obuf'[a] = obuf[a] \o report_queue[a] /\ report_queue'[a] = << >>
        /\ \A b \in Agents : b # a => report_queue'[b] = report_queue[b] /\ obuf'[b] = obuf[b]
    BY <1>1, Parts DEF Types
  <1>4. /\ obuf'[a] \in Seq(Reports)
        /\ Len(obuf'[a]) = Len(obuf[a]) + Len(report_queue[a]) /\ Len(report_queue'[a]) = 0
        /\ \A i \in 1..Len(obuf[a]) : obuf'[a][i] = obuf[a][i]
        /\ \A i \in 1..Len(report_queue[a]) : obuf'[a][Len(obuf[a]) + i] = report_queue[a][i]
    <2>1. PICK p \in Seq(Reports), q \in Seq(Reports) : p = obuf[a] /\ q = report_queue[a]
      BY <1>2
    <2>2. /\ p \o q \in Seq(Reports) /\ Len(p \o q) = Len(p) + Len(q)
          /\ \A i \in 1..Len(p) : (p \o q)[i] = p[i]
          /\ \A i \in 1..Len(q) : (p \o q)[Len(p) + i] = q[i]
      BY Joined
    <2>3. Len(report_queue'[a]) = 0
      BY <1>3
    <2>4. QED
      BY <1>3, <2>1, <2>2, <2>3
  <1>5. Types'
    <2>1. << >> \in Seq(Reports)
      OBVIOUS
    <2>2. /\ obuf' \in [Agents -> Seq(Reports)]
          /\ report_queue' \in [Agents -> Seq(Reports)]
      BY <1>1, <1>3, <1>4, <2>1, Parts DEF Types
    <2>3. conn' \in [Agents -> Conns]
      <3>1. conn \in [Agents -> Conns]
        BY Parts DEF Types
      <3>2. \A c \in Conns : [c EXCEPT !.epollout = "do_write"] \in Conns
        BY DEF Conns
      <3>3. QED
        BY <1>1, <3>1, <3>2
    <2>4. QED
      BY <1>1, <2>2, <2>3, Parts DEF Types
  <1>6. \A b \in Agents : Written(b)' = Written(b) /\ (b # a => Sent(b)' = Sent(b))
    <2>1. \A b \in Agents : b # a => Sent(b)' = Sent(b) /\ Written(b)' = Written(b)
      BY <1>1, <1>3 DEF Sent, Written
    <2>2. /\ Written(a) = (made[a] - Len(report_queue[a])) - Len(obuf[a])
          /\ Written(a)' = (made[a] - Len(report_queue'[a])) - Len(obuf'[a])
      BY <1>1 DEF Sent, Written
    <2>3. \A m, x, y \in Nat : (m - 0) - (x + y) = (m - y) - x
      OBVIOUS
    <2>4. made[a] \in Nat /\ Len(obuf[a]) \in Nat /\ Len(report_queue[a]) \in Nat
      BY <1>2
    <2>5. Written(a)' = (made[a] - 0) - (Len(obuf[a]) + Len(report_queue[a]))
      BY <1>4, <2>2, Zenon
    <2>6. Written(a)' = Written(a)
      BY <2>2, <2>3, <2>4, <2>5, Zenon
    <2>7. QED
      BY <2>1, <2>6
  <1>7. QueueNumbered'
    BY <1>3, <1>4, <1>6, Parts DEF QueueNumbered
  <1>8. BufNumbered'
    <2> SUFFICES ASSUME NEW b \in Agents
                 PROVE  \A i \in 1..Len(obuf'[b]) : obuf'[b][i] = Report(b, Written(b)' + i)
      BY DEF BufNumbered
    <2>2. CASE b # a
      BY <1>3, <1>6, <2>2, Parts DEF BufNumbered
    <2>3. CASE b = a
      <3> SUFFICES ASSUME NEW i \in 1..Len(obuf'[a]) PROVE obuf'[a][i] = Report(a, Written(a) + i)
        BY <1>6, <2>3
      <3>1. CASE i \in 1..Len(obuf[a])
        BY <1>4, <3>1, Parts DEF BufNumbered
      <3>2. CASE i \notin 1..Len(obuf[a])
        <4>1. PICK j \in 1..Len(report_queue[a]) : i = Len(obuf[a]) + j
          <5>1. i - Len(obuf[a]) \in 1..Len(report_queue[a])
            <6>1. i \in 1..(Len(obuf[a]) + Len(report_queue[a]))
              BY <1>4
            <6>2. Len(obuf[a]) \in Nat /\ Len(report_queue[a]) \in Nat
              BY <1>2
            <6>3. \A x, y \in Nat : \A k \in 1..(x + y) : k \notin 1..x => k - x \in 1..y
              OBVIOUS
            <6>4. QED
              BY <3>2, <6>1, <6>2, <6>3, Zenon
          <5>2. QED
            BY <1>2, <5>1
        <4>2. Sent(a) + j = Written(a) + i
          BY <1>2, <4>1
        <4>3. obuf'[a][i] = report_queue[a][j]
          BY <1>4, <4>1
        <4>4. QED
          BY <4>2, <4>3, Parts DEF QueueNumbered
      <3>3. QED
        BY <3>1, <3>2
    <2>4. QED
      BY <2>2, <2>3
  <1>9. IndexInRange'
    BY <1>1, Parts DEF IndexInRange
  <1>10. \A t \in Threads : Line(t)' = Line(t)
    BY <1>1 DEF Line
  <1>11. \A b \in Agents : Left(b)' = Left(b)
    BY <1>1, <1>6 DEF Left
  <1>12. WireNumbered'
    BY <1>1, <1>11, Parts DEF WireNumbered
  <1>13. WireIsUp'
    <2>1. \A b \in Agents : conn'[b].sock = conn[b].sock
      <3>1. /\ DOMAIN conn = Agents
            /\ \A c \in Conns : [c EXCEPT !.epollout = "do_write"].sock = c.sock
        BY Parts DEF Types, Conns
      <3>2. \A b \in Agents : conn[b] \in Conns
        BY Parts DEF Types
      <3>3. QED
        BY <1>1, <3>1, <3>2
    <2>2. QED
      BY <1>1, <2>1, Parts DEF WireIsUp
  <1>14. QED
    BY <1>1, <1>5, <1>7, <1>8, <1>9, <1>10, <1>11, <1>12, <1>13, SameLines DEF IInv

(* The reports in a stretch that is numbered from m on. *)
LEMMA Stretch ==
  ASSUME NEW a \in Agents, NEW q \in Seq(Reports), NEW m \in Int,
         \A i \in 1..Len(q) : q[i] = Report(a, m + i), NEW r \in Reports
  PROVE  Contains(q, r) <=> r.agent = a /\ r.n > m /\ r.n <= m + Len(q)
  <1>1. r = Report(r.agent, r.n) /\ r.n \in Nat /\ Len(q) \in Nat
    BY ReportIsPair, Entries
  <1>2. ASSUME NEW i \in 1..Len(q), q[i] = r
        PROVE  r.agent = a /\ r.n > m /\ r.n <= m + Len(q)
    <2>1. r = Report(a, m + i)
      BY <1>2
    <2>2. r.agent = a /\ r.n = m + i
      BY <2>1 DEF Report
    <2>3. QED
      BY <1>1, <2>2
  <1>3. ASSUME r.agent = a, r.n > m, r.n <= m + Len(q)
        PROVE  \E i \in 1..Len(q) : q[i] = r
    <2>1. PICK i \in 1..Len(q) : r.n = m + i
      <3>1. r.n - m \in 1..Len(q)
        BY <1>1, <1>3
      <3>2. QED
        BY <1>1, <3>1
    <2>2. q[i] = r
      BY <1>1, <1>3, <2>1
    <2>3. QED
      BY <2>2
  <1>4. QED
    BY <1>2, <1>3 DEF Contains

(***************************************************************************)
(* The next reports of a, those of q, are lost: they are gone once, and    *)
(* count as having left the connection.                                    *)
(***************************************************************************)
LEMMA LoseIInv ==
  ASSUME IInv, NEW a \in Agents, NEW q \in Seq(Reports), Lose(q),
         \A i \in 1..Len(q) : q[i] = Report(a, Left(a) + i),
         Left(a)' = Left(a) + Len(q), \A b \in Agents : b # a => Left(b)' = Left(b),
         UNCHANGED <<reportQueues, batch, last>>
  PROVE  /\ gone' \in [Reports -> {0, 1}]
         /\ \A b \in Agents : Left(b)' >= 0
         /\ LineLeft' /\ LineSorted' /\ LinesApart' /\ LineAfterLast' /\ LastLeft' /\ Settled'
  <1>1. gone' = [r \in Reports |-> IF Contains(q, r) THEN gone[r] + 1 ELSE gone[r]]
    BY DEF Lose
  <1>2. /\ \A b \in Agents : Left(b) \in Int /\ Left(b) >= 0
        /\ Len(q) \in Nat
    BY Parts, Progress, Entries DEF WireNumbered
  <1>3. \A b \in Agents : Left(b)' \in Int /\ Left(b) <= Left(b)' /\ Left(b)' >= 0
    BY <1>2
  <1>4. \A r \in Reports :
          Contains(q, r) <=> r.agent = a /\ r.n > Left(a) /\ r.n <= Left(a)'
    BY <1>2, Stretch
  <1>5. \A r \in Reports : Contains(q, r) => gone[r] = 0
    <2> SUFFICES ASSUME NEW r \in Reports, r.agent = a, r.n > Left(a) PROVE gone[r] = 0
      BY <1>4
    <2>1. ~(r.n <= Left(a))
      BY <1>2, ReportIsPair
    <2>2. QED
      BY <2>1, Parts DEF Settled
  <1>6. gone' \in [Reports -> {0, 1}]
    BY <1>1, <1>5, Parts DEF Types
  <1>7. \A t \in Threads : Line(t)' = Line(t)
    BY DEF Line
  <1>8. \A t \in Threads : \A i \in 1..Len(Line(t)) :
           /\ Line(t)[i] \in Reports /\ Line(t)[i].agent \in Agents /\ Line(t)[i].n \in Nat
           /\ Line(t)[i].n <= Left(Line(t)[i].agent) /\ gone[Line(t)[i]] = 0
    BY Parts, LineTypes, ReportIsPair DEF LineLeft
  <1>9. LineLeft'
    <2> SUFFICES ASSUME NEW t \in Threads, NEW i \in 1..Len(Line(t))
                 PROVE  Line(t)[i].n <= Left(Line(t)[i].agent)' /\ gone'[Line(t)[i]] = 0
      BY <1>7 DEF LineLeft
    <2>1. PICK r \in Reports :
            /\ r = Line(t)[i] /\ r.agent \in Agents /\ r.n \in Nat
            /\ r.n <= Left(r.agent) /\ gone[r] = 0
      BY <1>8
    <2>2. r.n <= Left(r.agent)'
      BY <1>2, <1>3, <2>1
    <2>3. ~Contains(q, r)
      BY <1>2, <1>4, <2>1
    <2>4. gone'[r] = 0
      BY <1>1, <2>1, <2>3
    <2>5. QED
      BY <1>7, <2>1, <2>2, <2>4
  <1>10. LineSorted' /\ LinesApart'
    BY <1>7, Parts DEF LineSorted, LinesApart
  <1>11. LineAfterLast'
    BY <1>7, Parts DEF LineAfterLast
  <1>12. LastLeft'
    <2>1. \A t \in Threads, b \in Agents : last[t][b] \in Nat /\ last[t][b] <= Left(b)
      BY Parts, ReporterConstants DEF LastLeft, Types
    <2>2. QED
      BY <1>2, <1>3, <2>1 DEF LastLeft
  <1>13. Settled'
    <2> SUFFICES ASSUME NEW r \in Reports
                 PROVE  IF r.n <= Left(r.agent)'
                          THEN gone'[r] = 1 \/ \E t \in Threads : InLine(r, t)'
                          ELSE gone'[r] = 0
      BY DEF Settled
    <2>1. r.agent \in Agents /\ r.n \in Nat
      BY ReportIsPair
    <2>2. \A t \in Threads : InLine(r, t)' <=> InLine(r, t)
      BY <1>7 DEF InLine
    <2>3. gone'[r] = IF Contains(q, r) THEN gone[r] + 1 ELSE gone[r]
      BY <1>1
    <2>4. CASE Contains(q, r)
      <3>1. r.n <= Left(r.agent)' /\ gone'[r] = 1
        BY <1>4, <1>5, <2>3, <2>4
      <3>2. QED
        BY <3>1
    <2>5. CASE ~Contains(q, r)
      <3>1. gone'[r] = gone[r]
        BY <2>3, <2>5
      <3>2. r.n <= Left(r.agent)' <=> r.n <= Left(r.agent)
        <4>1. r.agent = a => (r.n <= Left(a)' <=> r.n <= Left(a))
          BY <1>2, <1>3, <1>4, <2>1, <2>5
        <4>2. QED
          BY <2>1, <4>1
      <3>3. QED
        BY <2>2, <3>1, <3>2, Parts DEF Settled
    <2>6. QED
      BY <2>4, <2>5
  <1>14. QED
    BY <1>3, <1>6, <1>9, <1>10, <1>11, <1>12, <1>13

(* A connection that is closed takes along what is on it. *)
LEMMA PeerClosesIInv ==
  ASSUME IInv, NEW a \in Agents, PeerCloses(a)
  PROVE  IInv'
  <1>1. /\ conn' = [conn EXCEPT ![a].sock = "closed"] /\ Lose(wire[a])
        /\ wire' = [wire EXCEPT ![a] = << >>] /\ faults < MaxFaults /\ faults' = faults + 1
        /\ UNCHANGED <<made, report_queue, obuf, served, index, handler, reportQueues, started,
                       batch, row, last, fault>>
    BY DEF PeerCloses
  <1>2. \A b \in Agents :
          /\ wire[b] \in Seq(Reports) /\ Len(wire[b]) \in Nat /\ Left(b) \in Int
          /\ Written(b) \in Int /\ Written(b) = Left(b) + Len(wire[b])
    BY Parts, Progress
  <1>3. wire'[a] = << >> /\ Len(wire'[a]) = 0 /\ \A b \in Agents : b # a => wire'[b] = wire[b]
    BY <1>1, Parts DEF Types
  <1>4. \A b \in Agents : Sent(b)' = Sent(b) /\ Written(b)' = Written(b)
    BY <1>1 DEF Sent, Written
  <1>5. Left(a)' = Left(a) + Len(wire[a]) /\ \A b \in Agents : b # a => Left(b)' = Left(b)
    BY <1>2, <1>3, <1>4 DEF Left
  <1>6. \A i \in 1..Len(wire[a]) : wire[a][i] = Report(a, Left(a) + i)
    BY Parts DEF WireNumbered
  <1>7. /\ gone' \in [Reports -> {0, 1}] /\ \A b \in Agents : Left(b)' >= 0
        /\ LineLeft' /\ LineSorted' /\ LinesApart' /\ LineAfterLast' /\ LastLeft' /\ Settled'
    BY <1>1, <1>2, <1>5, <1>6, LoseIInv
  <1>8. Types'
    <2>1. wire' \in [Agents -> Seq(Reports)]
      <3>1. << >> \in Seq(Reports)
        OBVIOUS
      <3>2. QED
        BY <1>1, <3>1, Parts DEF Types
    <2>2. conn' \in [Agents -> Conns]
      <3>1. conn \in [Agents -> Conns]
        BY Parts DEF Types
      <3>2. \A c \in Conns : [c EXCEPT !.sock = "closed"] \in Conns
        BY DEF Conns
      <3>3. QED
        BY <1>1, <3>1, <3>2
    <2>3. faults' \in 0..MaxFaults
      BY <1>1, Parts, ReporterConstants DEF Types
    <2>4. QED
      BY <1>1, <1>7, <2>1, <2>2, <2>3, Parts DEF Types
  <1>9. IndexInRange'
    BY <1>1, Parts DEF IndexInRange
  <1>10. QueueNumbered' /\ BufNumbered'
    BY <1>1, <1>4, Parts DEF QueueNumbered, BufNumbered
  <1>11. WireNumbered'
    BY <1>3, <1>5, <1>7, Parts DEF WireNumbered
  <1>12. WireIsUp'
    <2>1. \A b \in Agents : b # a => conn'[b] = conn[b]
      BY <1>1, Parts DEF Types
    <2>2. QED
      BY <1>3, <2>1, Parts DEF WireIsUp
  <1>13. QED
    BY <1>7, <1>8, <1>9, <1>10, <1>11, <1>12 DEF IInv

(* What is written to a closed connection is lost; nothing is ahead of it. *)
LEMMA DoWriteInVainIInv ==
  ASSUME IInv, NEW a \in Agents, DoWriteInVain(a)
  PROVE  IInv'
  <1>1. /\ conn[a].sock = "closed" /\ Lose(obuf[a])
        /\ conn' = [conn EXCEPT ![a] = [conn[a] EXCEPT !.torn = FALSE, !.epollout = "none"]]
        /\ obuf' = [obuf EXCEPT ![a] = << >>]
        /\ UNCHANGED <<made, report_queue, wire, faults, served, index, handler, reportQueues,
                       started, batch, row, last, fault>>
    BY DEF DoWriteInVain
  <1>2. \A b \in Agents :
          /\ obuf[b] \in Seq(Reports) /\ Len(obuf[b]) \in Nat /\ Len(wire[b]) \in Nat
          /\ Sent(b) \in Int /\ Sent(b) = Written(b) + Len(obuf[b])
          /\ Written(b) \in Int /\ Written(b) = Left(b) + Len(wire[b]) /\ Left(b) \in Int
    BY Parts, Progress
  <1>3. wire[a] = << >> /\ Len(wire[a]) = 0 /\ Written(a) = Left(a)
    <2>1. wire[a] = << >>
      BY <1>1, Parts DEF WireIsUp
    <2>2. Len(wire[a]) = 0
      BY <2>1
    <2>3. QED
      BY <1>2, <2>1, <2>2
  <1>4. obuf'[a] = << >> /\ Len(obuf'[a]) = 0 /\ \A b \in Agents : b # a => obuf'[b] = obuf[b]
    BY <1>1, Parts DEF Types
  <1>5. \A b \in Agents : Sent(b)' = Sent(b) /\ (b # a => Written(b)' = Written(b))
    BY <1>1, <1>4 DEF Sent, Written
  <1>6. Left(a)' = Left(a) + Len(obuf[a]) /\ \A b \in Agents : b # a => Left(b)' = Left(b)
    <2>1. Written(a)' = Sent(a)
      BY <1>2, <1>4, <1>5 DEF Written
    <2>2. Left(a)' = Sent(a)
      BY <1>1, <1>2, <1>3, <2>1 DEF Left
    <2>3. QED
      BY <1>1, <1>2, <1>3, <1>5, <2>2 DEF Left
  <1>7. \A i \in 1..Len(obuf[a]) : obuf[a][i] = Report(a, Left(a) + i)
    BY <1>3, Parts DEF BufNumbered
  <1>8. /\ gone' \in [Reports -> {0, 1}] /\ \A b \in Agents : Left(b)' >= 0
        /\ LineLeft' /\ LineSorted' /\ LinesApart' /\ LineAfterLast' /\ LastLeft' /\ Settled'
    BY <1>1, <1>2, <1>6, <1>7, LoseIInv
  <1>9. Types'
    <2>1. obuf' \in [Agents -> Seq(Reports)]
      <3>1. << >> \in Seq(Reports)
        OBVIOUS
      <3>2. QED
        BY <1>1, <3>1, Parts DEF Types
    <2>2. conn' \in [Agents -> Conns]
      <3>1. conn \in [Agents -> Conns]
        BY Parts DEF Types
      <3>2. \A c \in Conns : [c EXCEPT !.torn = FALSE, !.epollout = "none"] \in Conns
        BY DEF Conns
      <3>3. QED
        BY <1>1, <3>1, <3>2
    <2>3. QED
      BY <1>1, <1>8, <2>1, <2>2, Parts DEF Types
  <1>10. IndexInRange'
    BY <1>1, Parts DEF IndexInRange
  <1>11. QueueNumbered' /\ BufNumbered'
    BY <1>1, <1>4, <1>5, Parts DEF QueueNumbered, BufNumbered
  <1>12. WireNumbered'
    BY <1>1, <1>3, <1>6, <1>8, Parts DEF WireNumbered
  <1>13. WireIsUp'
    <2>1. \A b \in Agents : b # a => conn'[b] = conn[b]
      BY <1>1, Parts DEF Types
    <2>2. QED
      BY <1>1, <1>3, <2>1, Parts DEF WireIsUp
  <1>14. QED
    BY <1>8, <1>9, <1>10, <1>11, <1>12, <1>13 DEF IInv

(* A connection that is not up is made, given up or made anew. *)
LEMMA ClientStepIInv ==
  ASSUME IInv, NEW a \in Agents, NEW c \in Conns, ClientStep(a, c),
         conn[a].sock # "connected", faults' \in 0..MaxFaults, served' \in [Agents -> Workers]
  PROVE  IInv'
  <1>1. /\ conn' = [conn EXCEPT ![a] = c]
        /\ UNCHANGED <<made, report_queue, obuf, wire, index, handler, reportQueues, started, batch,
                       row, gone, last, fault>>
    BY DEF ClientStep, dbVars
  <1>2. Types'
    BY <1>1, Parts DEF Types
  <1>3. IndexInRange'
    BY <1>1, Parts DEF IndexInRange
  <1>4. WireIsUp'
    <2>1. wire[a] = << >> /\ \A b \in Agents : b # a => conn'[b] = conn[b]
      BY <1>1, Parts DEF Types, WireIsUp
    <2>2. QED
      BY <1>1, <2>1, Parts DEF WireIsUp
  <1>5. \A t \in Threads : Line(t)' = Line(t)
    BY <1>1 DEF Line
  <1>6. QED
    BY <1>1, <1>2, <1>3, <1>4, <1>5, QuietIInv

LEMMA ConnectIInv ==
  ASSUME IInv, NEW a \in Agents,
         ConnectCompletes(a) \/ ConnectRefused(a) \/ \E w \in Workers : CleanConn(a, w)
  PROVE  IInv'
  <1>1. /\ conn[a] \in Conns /\ conn[a].torn \in BOOLEAN
        /\ faults \in 0..MaxFaults /\ served \in [Agents -> Workers]
    BY Parts DEF Types, Conns
  <1>2. CASE ConnectCompletes(a)
    <2>1. [conn[a] EXCEPT !.sock = "connected"] \in Conns
      BY <1>1 DEF Conns
    <2>2. NewConn("connected", obuf[a], conn[a].torn) \in Conns
      BY <1>1, NewConnType DEF Outcomes
    <2>3. PICK c \in Conns : ClientStep(a, c)
      BY <1>2, <2>1, <2>2 DEF ConnectCompletes
    <2>4. conn[a].sock # "connected" /\ UNCHANGED <<faults, served>>
      BY <1>2 DEF ConnectCompletes
    <2>5. QED
      BY <1>1, <2>3, <2>4, ClientStepIInv
  <1>3. CASE ConnectRefused(a)
    <2>1. \A e \in {"none", "connection_succ", "do_write"} :
            [conn[a] EXCEPT !.sock = "dead", !.epollout = e] \in Conns
      BY <1>1 DEF Conns
    <2>2. conn[a].epollout \in {"none", "connection_succ", "do_write"}
      BY <1>1 DEF Conns
    <2>3. PICK c \in Conns : ClientStep(a, c)
      BY <1>3, <2>1, <2>2 DEF ConnectRefused
    <2>4. /\ conn[a].sock # "connected" /\ served' = served
          /\ faults < MaxFaults /\ faults' = faults + 1
      BY <1>3 DEF ConnectRefused
    <2>5. faults' \in 0..MaxFaults
      BY <1>1, <2>4, ReporterConstants
    <2>6. QED
      BY <1>1, <2>3, <2>4, <2>5, ClientStepIInv
  <1>4. CASE \E w \in Workers : CleanConn(a, w)
    <2>1. PICK w \in Workers : CleanConn(a, w)
      BY <1>4
    <2>2. DoConnect(a, obuf[a], conn[a].torn) \subseteq Conns
      BY <1>1, NewConnType
    <2>3. PICK c \in Conns : ClientStep(a, c)
      BY <2>1, <2>2 DEF CleanConn
    <2>4. /\ conn[a].sock # "connected" /\ faults' = faults
          /\ served' = [served EXCEPT ![a] = w]
      BY <2>1 DEF CleanConn
    <2>5. served' \in [Agents -> Workers]
      BY <1>1, <2>4
    <2>6. QED
      BY <1>1, <2>3, <2>4, <2>5, ClientStepIInv
  <1>5. QED
    BY <1>2, <1>3, <1>4

(* A part of what is in the buffer follows what is on the wire. *)
LEMMA CutInTwo ==
  ASSUME NEW S, NEW p \in Seq(S), NEW q \in Seq(S), NEW n \in 0..Len(q)
  PROVE  /\ p \o SubSeq(q, 1, n) \in Seq(S) /\ SubSeq(q, n + 1, Len(q)) \in Seq(S)
         /\ Len(p \o SubSeq(q, 1, n)) = Len(p) + n
         /\ Len(SubSeq(q, n + 1, Len(q))) = Len(q) - n
         /\ \A i \in 1..Len(p) : (p \o SubSeq(q, 1, n))[i] = p[i]
         /\ \A i \in 1..n : (p \o SubSeq(q, 1, n))[Len(p) + i] = q[i]
         /\ \A i \in 1..(Len(q) - n) : SubSeq(q, n + 1, Len(q))[i] = q[n + i]
  OBVIOUS

LEMMA DoWriteIInv ==
  ASSUME IInv, NEW a \in Agents, DoWrite(a)
  PROVE  IInv'
  <1>1. PICK n \in 0..Len(obuf[a]), half \in BOOLEAN :
          /\ wire' = [wire EXCEPT ![a] = @ \o SubSeq(obuf[a], 1, n)]
          /\ obuf' = [obuf EXCEPT ![a] = SubSeq(@, n + 1, Len(@))]
          /\ conn' = [conn EXCEPT ![a].torn = half,
                        ![a].epollout = IF n = Len(obuf[a]) THEN "none" ELSE @]
    BY DEF DoWrite
  <1>2. /\ conn[a].sock = "connected" /\ conn[a].epollout = "do_write"
        /\ UNCHANGED <<made, report_queue, faults, served, index, handler, reportQueues, started,
                       batch, row, gone, last, fault>>
    BY DEF DoWrite, dbVars
  <1>3. \A b \in Agents :
          /\ obuf[b] \in Seq(Reports) /\ Len(obuf[b]) \in Nat
          /\ wire[b] \in Seq(Reports) /\ Len(wire[b]) \in Nat
          /\ Sent(b) \in Int /\ Sent(b) = Written(b) + Len(obuf[b])
          /\ Written(b) \in Int /\ Written(b) = Left(b) + Len(wire[b]) /\ Left(b) \in Int
    BY Parts, Progress
  <1>4. /\ wire'[a] = wire[a] \o SubSeq(obuf[a], 1, n)
        /\ obuf'[a] = SubSeq(obuf[a], n + 1, Len(obuf[a]))
        /\ \A b \in Agents : b # a => obuf'[b] = obuf[b] /\ wire'[b] = wire[b]
    BY <1>1, Parts DEF Types
  <1>5. PICK p \in Seq(Reports), q \in Seq(Reports) : p = wire[a] /\ q = obuf[a]
    BY <1>3
  <1>6. /\ wire'[a] \in Seq(Reports) /\ obuf'[a] \in Seq(Reports)
        /\ Len(wire'[a]) = Len(p) + n /\ Len(obuf'[a]) = Len(q) - n
        /\ \A i \in 1..Len(p) : wire'[a][i] = p[i]
        /\ \A i \in 1..n : wire'[a][Len(p) + i] = q[i]
        /\ \A i \in 1..(Len(q) - n) : obuf'[a][i] = q[n + i]
    <2>1. n \in 0..Len(q)
      BY <1>5
    <2>2. wire'[a] = p \o SubSeq(q, 1, n) /\ obuf'[a] = SubSeq(q, n + 1, Len(q))
      BY <1>4, <1>5
    <2>3. QED
      BY <2>1, <2>2, CutInTwo
  <1>7. /\ Len(p) \in Nat /\ Len(q) \in Nat /\ n \in Nat /\ n <= Len(q)
    BY <1>3, <1>5
  <1>8. Types'
    <2>1. wire' \in [Agents -> Seq(Reports)] /\ obuf' \in [Agents -> Seq(Reports)]
      BY <1>1, <1>4, <1>6, Parts DEF Types
    <2>2. conn' \in [Agents -> Conns]
      <3>1. conn \in [Agents -> Conns] /\ conn[a] \in Conns
        BY Parts DEF Types
      <3>2. PICK e \in {"none", "do_write"} :
              conn' = [conn EXCEPT ![a] = [conn[a] EXCEPT !.torn = half, !.epollout = e]]
        BY <1>1, <1>2
      <3>3. [conn[a] EXCEPT !.torn = half, !.epollout = e] \in Conns
        BY <3>1 DEF Conns
      <3>4. QED
        BY <3>1, <3>2, <3>3
    <2>3. QED
      BY <1>2, <2>1, <2>2, Parts DEF Types
  <1>9. \A b \in Agents : Sent(b)' = Sent(b) /\ (b # a => Written(b)' = Written(b))
    BY <1>2, <1>4 DEF Sent, Written
  <1>10. Written(a)' = Written(a) + n
    <2>1. Written(a)' = Sent(a) - (Len(q) - n) /\ Sent(a) = Written(a) + Len(q)
      BY <1>3, <1>5, <1>6, <1>9 DEF Written
    <2>2. QED
      BY <1>3, <1>7, <2>1
  <1>11. \A b \in Agents : Left(b)' = Left(b)
    <2>1. \A b \in Agents : b # a => Left(b)' = Left(b)
      BY <1>4, <1>9 DEF Left
    <2>2. Left(a)' = (Written(a) + n) - (Len(p) + n) /\ Written(a) = Left(a) + Len(p)
      BY <1>3, <1>5, <1>6, <1>10 DEF Left
    <2>3. Left(a)' = Left(a)
      BY <1>3, <1>7, <2>2
    <2>4. QED
      BY <2>1, <2>3
  <1>12. QueueNumbered'
    BY <1>2, <1>9, Parts DEF QueueNumbered
  <1>13. BufNumbered'
    <2> SUFFICES ASSUME NEW b \in Agents, NEW i \in 1..Len(obuf'[b])
                 PROVE  obuf'[b][i] = Report(b, Written(b)' + i)
      BY DEF BufNumbered
    <2>1. CASE b # a
      BY <1>4, <1>9, <2>1, Parts DEF BufNumbered
    <2>2. CASE b = a
      <3>1. /\ i \in 1..(Len(q) - n) /\ n + i \in 1..Len(q)
            /\ Written(a) + (n + i) = (Written(a) + n) + i
        BY <1>3, <1>6, <1>7, <2>2
      <3>2. q[n + i] = Report(a, Written(a) + (n + i))
        BY <1>5, <3>1, Parts DEF BufNumbered
      <3>3. QED
        BY <1>6, <1>10, <2>2, <3>1, <3>2
    <2>3. QED
      BY <2>1, <2>2
  <1>14. WireNumbered'
    <2> SUFFICES ASSUME NEW b \in Agents
                 PROVE  /\ Left(b)' >= 0
                        /\ \A i \in 1..Len(wire'[b]) : wire'[b][i] = Report(b, Left(b)' + i)
      BY DEF WireNumbered
    <2>1. Left(b)' >= 0
      BY <1>11, Parts DEF WireNumbered
    <2>2. CASE b # a
      BY <1>4, <1>11, <2>1, <2>2, Parts DEF WireNumbered
    <2>3. CASE b = a
      <3> SUFFICES ASSUME NEW i \in 1..Len(wire'[a]) PROVE wire'[a][i] = Report(a, Left(a) + i)
        BY <1>11, <2>1, <2>3
      <3>1. CASE i \in 1..Len(p)
        BY <1>5, <1>6, <3>1, Parts DEF WireNumbered
      <3>2. CASE i \notin 1..Len(p)
        <4>1. PICK j \in 1..n : i = Len(p) + j
          <5>1. i \in 1..(Len(p) + n)
            BY <1>6
          <5>2. \A x, y \in Nat : \A k \in 1..(x + y) :
                  k \notin 1..x => k - x \in 1..y /\ k = x + (k - x)
            OBVIOUS
          <5>3. QED
            BY <1>7, <3>2, <5>1, <5>2, Zenon
        <4>2. Written(a) + j = Left(a) + i /\ j \in 1..Len(q)
          <5>1. PICK l \in Int, x \in Nat : l = Left(a) /\ x = Len(p)
            BY <1>3, <1>7
          <5>2. Written(a) = l + x /\ i = x + j
            BY <1>3, <1>5, <4>1, <5>1
          <5>3. (l + x) + j = l + (x + j) /\ j \in 1..Len(q)
            BY <1>7
          <5>4. QED
            BY <5>1, <5>2, <5>3
        <4>3. wire'[a][i] = q[j]
          BY <1>6, <4>1
        <4>4. q[j] = Report(a, Written(a) + j)
          BY <1>5, <4>2, Parts DEF BufNumbered
        <4>5. QED
          BY <4>2, <4>3, <4>4
      <3>3. QED
        BY <3>1, <3>2
    <2>4. QED
      BY <2>2, <2>3
  <1>15. WireIsUp'
    <2>1. \A b \in Agents : b # a => conn'[b] = conn[b]
      BY <1>1, Parts DEF Types
    <2>2. conn'[a].sock = "connected"
      <3>1. conn \in [Agents -> Conns] /\ conn[a] \in Conns
        BY Parts DEF Types
      <3>2. PICK e : conn'[a] = [conn[a] EXCEPT !.torn = half, !.epollout = e]
        BY <1>1, <3>1
      <3>3. QED
        BY <1>2, <3>1, <3>2 DEF Conns
    <2>3. QED
      BY <1>4, <2>1, <2>2, Parts DEF WireIsUp
  <1>16. IndexInRange'
    BY <1>2, Parts DEF IndexInRange
  <1>17. \A t \in Threads : Line(t)' = Line(t)
    BY <1>2 DEF Line
  <1>18. QED
    BY <1>2, <1>8, <1>11, <1>12, <1>13, <1>14, <1>15, <1>16, <1>17, SameLines DEF IInv

(* The first report on the wire is newer than all that the threads have. *)
LEMMA SendToThreadIInv ==
  ASSUME IInv, NEW w \in Workers, NEW a \in Agents, SendToThread(w, a), index \in Threads
  PROVE  IInv'
  <1>1. PICK t \in Threads : t = index
    OBVIOUS
  <1>2. PICK x : x = Head(wire[a])
    OBVIOUS
  <1>3. /\ wire[a] # << >> /\ wire' = [wire EXCEPT ![a] = Tail(@)]
        /\ handler[w].at = "idle" /\ handler' = [handler EXCEPT ![w].at = "load"]
        /\ reportQueues' = [reportQueues EXCEPT ![t] = Append(@, x)]
        /\ UNCHANGED <<made, report_queue, conn, obuf, faults, served, index, started, batch, row,
                       gone, last, fault>>
    BY <1>1, <1>2 DEF SendToThread, dbVars
  <1>4. \A b \in Agents :
          /\ Len(wire[b]) \in Nat /\ Written(b) \in Int /\ Left(b) \in Int /\ Left(b) >= 0
          /\ Written(b) = Left(b) + Len(wire[b])
    BY Parts, Progress DEF WireNumbered
  <1>5. /\ Len(wire[a]) >= 1 /\ Len(wire'[a]) = Len(wire[a]) - 1
        /\ x = wire[a][1] /\ x \in Reports /\ wire'[a] \in Seq(Reports)
        /\ \A i \in 1..(Len(wire[a]) - 1) : wire'[a][i] = wire[a][i + 1]
    <2>1. wire[a] \in Seq(Reports) /\ wire'[a] = Tail(wire[a])
      BY <1>3, Parts DEF Types
    <2>2. QED
      BY <1>2, <1>3, <2>1, FirstTaken
  <1>6. \A b \in Agents : b # a => wire'[b] = wire[b]
    BY <1>3, Parts DEF Types
  <1>7. \A b \in Agents : Sent(b)' = Sent(b) /\ Written(b)' = Written(b)
    BY <1>3 DEF Sent, Written
  <1>8. Left(a)' = Left(a) + 1 /\ \A b \in Agents : b # a => Left(b)' = Left(b)
    <2>1. Left(a)' = Written(a) - Len(wire'[a])
      BY <1>7 DEF Left
    <2>2. \A m, x1, y \in Int : m = x1 + y => m - (y - 1) = x1 + 1
      OBVIOUS
    <2>3. Left(a)' = Left(a) + 1
      BY <1>4, <1>5, <2>1, <2>2
    <2>4. QED
      BY <1>6, <1>7, <2>3 DEF Left
  <1>9. \A b \in Agents : Left(b)' \in Int /\ Left(b) <= Left(b)' /\ Left(b)' >= 0
    BY <1>4, <1>8
  <1>10. x = Report(a, Left(a) + 1) /\ x.agent = a /\ x.n = Left(a) + 1
    <2>1. x = Report(a, Left(a) + 1)
      BY <1>4, <1>5, Parts DEF WireNumbered
    <2>2. QED
      BY <2>1 DEF Report
  <1>11. gone[x] = 0
    <2>1. ~(x.n <= Left(x.agent))
      BY <1>4, <1>10
    <2>2. QED
      BY <1>5, <2>1, Parts DEF Settled
  <1>12. Types'
    <2>1. wire' \in [Agents -> Seq(Reports)]
      BY <1>3, <1>5, Parts DEF Types
    <2>2. reportQueues' \in [Threads -> Seq(Reports)]
      BY <1>3, <1>5, Parts DEF Types
    <2>3. handler' \in [Workers -> [at : {"idle", "load", "inc", "reload", "mod"}, val : Nat]]
      BY <1>3, Parts DEF Types
    <2>4. QED
      BY <1>3, <2>1, <2>2, <2>3, Parts DEF Types
  <1>13. IndexInRange'
    BY <1>1, <1>3 DEF IndexInRange
  <1>14. QueueNumbered' /\ BufNumbered' /\ WireIsUp'
    <2>1. QueueNumbered' /\ BufNumbered'
      BY <1>3, <1>7, Parts DEF QueueNumbered, BufNumbered
    <2>2. WireIsUp'
      BY <1>3, <1>6, Parts DEF WireIsUp
    <2>3. QED
      BY <2>1, <2>2
  <1>15. WireNumbered'
    <2> SUFFICES ASSUME NEW b \in Agents
                 PROVE  /\ Left(b)' >= 0
                        /\ \A i \in 1..Len(wire'[b]) : wire'[b][i] = Report(b, Left(b)' + i)
      BY DEF WireNumbered
    <2>1. CASE b # a
      BY <1>6, <1>8, <1>9, <2>1, Parts DEF WireNumbered
    <2>2. CASE b = a
      <3> SUFFICES ASSUME NEW i \in 1..(Len(wire[a]) - 1)
                   PROVE  wire[a][i + 1] = Report(a, (Left(a) + 1) + i)
        BY <1>5, <1>8, <1>9, <2>2
      <3>1. i + 1 \in 1..Len(wire[a]) /\ Left(a) + (i + 1) = (Left(a) + 1) + i
        BY <1>4
      <3>2. QED
        BY <3>1, Parts DEF WireNumbered
    <2>3. QED
      BY <2>1, <2>2
  <1>16. /\ Len(Line(t)') = Len(Line(t)) + 1 /\ Line(t)'[Len(Line(t)) + 1] = x
         /\ \A i \in 1..Len(Line(t)) : Line(t)'[i] = Line(t)[i]
         /\ \A u \in Threads : u # t => Line(u)' = Line(u)
    BY <1>3, <1>5, Parts, LineGrows
  <1>17. \A u \in Threads : Len(Line(u)) \in Nat
    BY Parts, LineTypes
  <1>18. \A u \in Threads : \A i \in 1..Len(Line(u)') :
           \/ i \in 1..Len(Line(u)) /\ Line(u)'[i] = Line(u)[i]
           \/ u = t /\ i = Len(Line(t)) + 1 /\ Line(u)'[i] = x
    BY <1>16, <1>17
  <1>19. \A u \in Threads : \A i \in 1..Len(Line(u)) :
           /\ i \in 1..Len(Line(u)') /\ Line(u)'[i] = Line(u)[i]
           /\ Line(u)[i] \in Reports /\ Line(u)[i].agent \in Agents /\ Line(u)[i].n \in Nat
           /\ Line(u)[i].n <= Left(Line(u)[i].agent) /\ gone[Line(u)[i]] = 0
    <2>1. \A u \in Threads : \A i \in 1..Len(Line(u)) :
            i \in 1..Len(Line(u)') /\ Line(u)'[i] = Line(u)[i]
      BY <1>16, <1>17
    <2>2. \A u \in Threads : \A i \in 1..Len(Line(u)) :
            /\ Line(u)[i] \in Reports /\ Line(u)[i].agent \in Agents /\ Line(u)[i].n \in Nat
            /\ Line(u)[i].n <= Left(Line(u)[i].agent) /\ gone[Line(u)[i]] = 0
      BY Parts, LineTypes, ReportIsPair DEF LineLeft
    <2>3. QED
      BY <2>1, <2>2
  <1>20. \A u \in Threads : \A i \in 1..Len(Line(u)) :
           Line(u)[i] # x /\ (Line(u)[i].agent = a => Line(u)[i].n < x.n)
    BY <1>4, <1>10, <1>19
  <1>21. LineLeft'
    <2> SUFFICES ASSUME NEW u \in Threads, NEW i \in 1..Len(Line(u)')
                 PROVE  /\ Line(u)'[i].n <= Left(Line(u)[i].agent)'
                        /\ gone'[Line(u)'[i]] = 0
      BY DEF LineLeft
    <2>1. PICK r : r = Line(u)'[i]
      OBVIOUS
    <2>2. r \in Reports /\ r.agent \in Agents /\ r.n <= Left(r.agent)' /\ gone[r] = 0
      <3>1. CASE i \in 1..Len(Line(u)) /\ Line(u)'[i] = Line(u)[i]
        <4>1. /\ r \in Reports /\ r.agent \in Agents /\ r.n \in Nat
              /\ r.n <= Left(r.agent) /\ gone[r] = 0
          BY <1>19, <2>1, <3>1
        <4>2. QED
          BY <1>4, <1>9, <4>1
      <3>2. CASE Line(u)'[i] = x
        BY <1>4, <1>5, <1>8, <1>10, <1>11, <2>1, <3>2
      <3>3. QED
        BY <1>18, <3>1, <3>2
    <2>3. QED
      BY <1>3, <2>1, <2>2
  <1>22. LineSorted'
    <2> SUFFICES ASSUME NEW u \in Threads,
                        NEW i \in 1..Len(Line(u)'), NEW j \in 1..Len(Line(u)'), i < j,
                        Line(u)'[i].agent = Line(u)'[j].agent
                 PROVE  Line(u)'[i].n < Line(u)'[j].n
      BY DEF LineSorted
    <2>1. i \in 1..Len(Line(u)) /\ Line(u)'[i] = Line(u)[i]
      BY <1>17, <1>18
    <2>2. CASE j \in 1..Len(Line(u)) /\ Line(u)'[j] = Line(u)[j]
      BY <2>1, <2>2, Parts DEF LineSorted
    <2>3. CASE Line(u)'[j] = x
      BY <1>10, <1>20, <2>1, <2>3
    <2>4. QED
      BY <1>18, <2>2, <2>3
  <1>23. LinesApart'
    <2> SUFFICES ASSUME NEW u \in Threads, NEW v \in Threads,
                        NEW i \in 1..Len(Line(u)'), NEW j \in 1..Len(Line(v)'),
                        Line(u)'[i] = Line(v)'[j]
                 PROVE  u = v
      BY DEF LinesApart
    <2>1. /\ \/ i \in 1..Len(Line(u)) /\ Line(u)'[i] = Line(u)[i]
             \/ u = t /\ Line(u)'[i] = x
          /\ \/ j \in 1..Len(Line(v)) /\ Line(v)'[j] = Line(v)[j]
             \/ v = t /\ Line(v)'[j] = x
      BY <1>18
    <2>2. QED
      BY <1>20, <2>1, Parts DEF LinesApart
  <1>24. LineAfterLast'
    <2> SUFFICES ASSUME NEW u \in Threads, NEW i \in 1..Len(Line(u)')
                 PROVE  last[u][Line(u)'[i].agent] < Line(u)'[i].n
      BY <1>3 DEF LineAfterLast
    <2>1. CASE i \in 1..Len(Line(u)) /\ Line(u)'[i] = Line(u)[i]
      BY <2>1, Parts DEF LineAfterLast
    <2>2. CASE Line(u)'[i] = x
      <3>1. last[u][a] <= Left(a) /\ last[u][a] \in Nat
        BY Parts, ReporterConstants DEF LastLeft, Types
      <3>2. QED
        BY <1>4, <1>10, <2>2, <3>1
    <2>3. QED
      BY <1>18, <2>1, <2>2
  <1>25. LastLeft'
    <2>1. \A u \in Threads, b \in Agents : last[u][b] \in Nat /\ last[u][b] <= Left(b)
      BY Parts, ReporterConstants DEF LastLeft, Types
    <2>2. QED
      BY <1>3, <1>4, <1>9, <2>1 DEF LastLeft
  <1>26. Settled'
    <2> SUFFICES ASSUME NEW r \in Reports
                 PROVE  IF r.n <= Left(r.agent)'
                          THEN gone'[r] = 1 \/ \E u \in Threads : InLine(r, u)'
                          ELSE gone'[r] = 0
      BY DEF Settled
    <2>1. r.agent \in Agents /\ r.n \in Nat /\ r = Report(r.agent, r.n)
      BY ReportIsPair
    <2>2. \A u \in Threads : InLine(r, u) => InLine(r, u)'
      BY <1>19 DEF InLine
    <2>3. InLine(x, t)'
      <3>1. Len(Line(t)) + 1 \in 1..Len(Line(t)')
        BY <1>16, <1>17
      <3>2. QED
        BY <1>16, <3>1 DEF InLine
    <2>4. CASE r = x
      <3>1. r.n <= Left(r.agent)'
        BY <1>4, <1>8, <1>10, <2>4
      <3>2. QED
        BY <2>3, <2>4, <3>1
    <2>5. CASE r # x
      <3>1. r.n <= Left(r.agent)' <=> r.n <= Left(r.agent)
        <4>1. r.agent = a => r.n # Left(a) + 1
          BY <1>10, <2>1, <2>5
        <4>2. QED
          BY <1>4, <1>8, <2>1, <4>1
      <3>2. QED
        BY <1>3, <2>2, <3>1, Parts DEF Settled
    <2>6. QED
      BY <2>4, <2>5
  <1>27. QED
    BY <1>12, <1>13, <1>14, <1>15, <1>21, <1>22, <1>23, <1>24, <1>25, <1>26 DEF IInv

(* The first report of a line is stored, or its query fails. *)
LEMMA StoreIInv ==
  ASSUME IInv, NEW t \in Threads, Store(t)
  PROVE  IInv'
  <1>1. PICK x : x = Head(batch[t])
    OBVIOUS
  <1>2. /\ batch[t] # << >> /\ batch' = [batch EXCEPT ![t] = Tail(@)]
        /\ gone' = [gone EXCEPT ![x] = @ + 1]
        /\ \/ row' = [row EXCEPT ![x.agent] = x.n] /\ last' = [last EXCEPT ![t][x.agent] = x.n]
           \/ UNCHANGED <<row, last>>
        /\ UNCHANGED <<made, report_queue, conn, obuf, wire, faults, served, index, handler,
                       reportQueues, started, fault>>
    BY <1>1 DEF Store, agentVars
  <1>3. \A a \in Agents :
          /\ Left(a) \in Int /\ made[a] \in Nat /\ made[a] <= MaxReports
          /\ Sent(a)' = Sent(a) /\ Written(a)' = Written(a) /\ Left(a)' = Left(a)
    BY <1>2, Parts, Progress DEF Sent, Written, Left
  <1>4. /\ Len(Line(t)) >= 1 /\ Line(t)[1] = x
        /\ Len(Line(t)') = Len(Line(t)) - 1
        /\ \A i \in 1..(Len(Line(t)) - 1) : Line(t)'[i] = Line(t)[i + 1]
        /\ \A u \in Threads : u # t => Line(u)' = Line(u)
    BY <1>1, <1>2, Parts, LineShrinks
  <1>5. \A u \in Threads :
          /\ Len(Line(u)) \in Nat
          /\ \A i \in 1..Len(Line(u)) :
               /\ Line(u)[i] \in Reports /\ Line(u)[i].agent \in Agents /\ Line(u)[i].n \in Nat
               /\ Line(u)[i].n <= Left(Line(u)[i].agent) /\ gone[Line(u)[i]] = 0
               /\ last[u][Line(u)[i].agent] < Line(u)[i].n
    <2>1. \A u \in Threads :
            /\ Len(Line(u)) \in Nat
            /\ \A i \in 1..Len(Line(u)) :
                 Line(u)[i] \in Reports /\ Line(u)[i].agent \in Agents /\ Line(u)[i].n \in Nat
      BY Parts, LineTypes, ReportIsPair
    <2>2. QED
      BY <2>1, Parts DEF LineLeft, LineAfterLast
  <1>6. 1 \in 1..Len(Line(t))
    BY <1>4, <1>5
  <1>7. /\ x \in Reports /\ x.agent \in Agents /\ x.n \in Nat /\ gone[x] = 0
        /\ x.n <= Left(x.agent) /\ x.n \in 0..MaxReports
    <2>1. /\ x \in Reports /\ x.agent \in Agents /\ x.n \in Nat /\ gone[x] = 0
          /\ x.n <= Left(x.agent)
      BY <1>4, <1>5, <1>6
    <2>2. x.n \in 0..MaxReports
      BY <2>1, ReporterConstants DEF Reports
    <2>3. QED
      BY <2>1, <2>2
  <1>8. \A r \in Reports : gone'[r] = IF r = x THEN 1 ELSE gone[r]
    BY <1>2, <1>7, Parts DEF Types
  <1>9. \A u \in Threads, a \in Agents :
          last'[u][a] = last[u][a] \/ (u = t /\ a = x.agent /\ last'[u][a] = x.n)
    <2>1. CASE last' = [last EXCEPT ![t] = [last[t] EXCEPT ![x.agent] = x.n]]
      <3>1. DOMAIN last = Threads /\ DOMAIN last[t] = Agents
        BY Parts DEF Types
      <3>2. \A u \in Threads : u # t => last'[u] = last[u]
        BY <2>1, <3>1
      <3>3. last'[t] = [last[t] EXCEPT ![x.agent] = x.n]
        BY <2>1, <3>1
      <3>4. \A a \in Agents : last'[t][a] = IF a = x.agent THEN x.n ELSE last[t][a]
        BY <3>1, <3>3
      <3>5. QED
        BY <3>2, <3>4
    <2>2. CASE last' = last
      BY <2>2
    <2>3. QED
      BY <1>2, <2>1, <2>2
  <1>10. Types'
    <2>1. batch' \in [Threads -> Seq(Reports)]
      <3>1. batch[t] \in Seq(Reports)
        BY Parts DEF Types
      <3>2. Tail(batch[t]) \in Seq(Reports)
        BY <1>2, <3>1, FirstTaken
      <3>3. QED
        BY <1>2, <3>2, Parts DEF Types
    <2>2. gone' \in [Reports -> {0, 1}]
      BY <1>2, <1>7, Parts DEF Types
    <2>3. row' \in [Agents -> 0..MaxReports]
      BY <1>2, <1>7, Parts DEF Types
    <2>4. last' \in [Threads -> [Agents -> 0..MaxReports]]
      <3>1. last \in [Threads -> [Agents -> 0..MaxReports]]
        BY Parts DEF Types
      <3>2. [last[t] EXCEPT ![x.agent] = x.n] \in [Agents -> 0..MaxReports]
        BY <1>7, <3>1
      <3>3. [last EXCEPT ![t] = [last[t] EXCEPT ![x.agent] = x.n]]
              \in [Threads -> [Agents -> 0..MaxReports]]
        BY <3>1, <3>2
      <3>4. QED
        BY <1>2, <3>1, <3>3
    <2>5. QED
      BY <1>2, <2>1, <2>2, <2>3, <2>4, Parts DEF Types
  <1>11. IndexInRange'
    BY <1>2, Parts DEF IndexInRange
  <1>12. QueueNumbered' /\ BufNumbered' /\ WireNumbered' /\ WireIsUp'
    BY <1>2, <1>3, Parts DEF QueueNumbered, BufNumbered, WireNumbered, WireIsUp
  (* A report of a line after the step was in it before, behind the first of t. *)
  <1>13. \A u \in Threads : \A i \in 1..Len(Line(u)') :
           IF u = t THEN i + 1 \in 2..Len(Line(u)) /\ Line(u)'[i] = Line(u)[i + 1]
                    ELSE i \in 1..Len(Line(u)) /\ Line(u)'[i] = Line(u)[i]
    BY <1>4, <1>5
  <1>14. \A u \in Threads : \A i \in 1..Len(Line(u)) :
           \/ u = t /\ i = 1
           \/ u = t /\ i - 1 \in 1..Len(Line(u)') /\ Line(u)'[i - 1] = Line(u)[i]
           \/ u # t /\ i \in 1..Len(Line(u)') /\ Line(u)'[i] = Line(u)[i]
    <2> SUFFICES ASSUME NEW u \in Threads, NEW i \in 1..Len(Line(u))
                 PROVE  \/ u = t /\ i = 1
                        \/ u = t /\ i - 1 \in 1..Len(Line(u)') /\ Line(u)'[i - 1] = Line(u)[i]
                        \/ u # t /\ i \in 1..Len(Line(u)') /\ Line(u)'[i] = Line(u)[i]
      OBVIOUS
    <2>1. CASE u # t
      BY <1>4, <2>1
    <2>2. CASE u = t /\ i # 1
      <3>1. i - 1 \in 1..(Len(Line(t)) - 1) /\ (i - 1) + 1 = i
        BY <1>5, <2>2
      <3>2. QED
        BY <1>4, <2>2, <3>1
    <2>3. QED
      BY <2>1, <2>2
  <1>15. \A i \in 2..Len(Line(t)) :
           Line(t)[i] # x /\ (Line(t)[i].agent = x.agent => x.n < Line(t)[i].n)
    <2> SUFFICES ASSUME NEW i \in 2..Len(Line(t)), Line(t)[i].agent = x.agent
                 PROVE  x.n < Line(t)[i].n
      BY <1>7
    <2>1. i \in 1..Len(Line(t)) /\ 1 < i
      BY <1>5
    <2>2. QED
      BY <1>4, <1>6, <2>1, Parts DEF LineSorted
  <1>16. \A u \in Threads : u # t => \A i \in 1..Len(Line(u)) : Line(u)[i] # x
    BY <1>4, <1>6, Parts DEF LinesApart
  <1>17. \A u \in Threads : \A i \in 1..Len(Line(u)') :
           \E j \in 1..Len(Line(u)) :
             /\ Line(u)'[i] = Line(u)[j] /\ Line(u)[j] # x
             /\ u = t /\ Line(u)[j].agent = x.agent => x.n < Line(u)[j].n
    <2> SUFFICES ASSUME NEW u \in Threads, NEW i \in 1..Len(Line(u)')
                 PROVE  \E j \in 1..Len(Line(u)) :
                          /\ Line(u)'[i] = Line(u)[j] /\ Line(u)[j] # x
                          /\ u = t /\ Line(u)[j].agent = x.agent => x.n < Line(u)[j].n
      OBVIOUS
    <2>1. CASE u # t
      BY <1>13, <1>16, <2>1
    <2>2. CASE u = t
      <3>1. PICK j \in 2..Len(Line(t)) : Line(t)'[i] = Line(t)[j]
        BY <1>13, <2>2
      <3>2. j \in 1..Len(Line(t))
        BY <1>5
      <3>3. QED
        BY <1>15, <2>2, <3>1, <3>2
    <2>3. QED
      BY <2>1, <2>2
  <1>18. LineLeft'
    <2> SUFFICES ASSUME NEW u \in Threads, NEW i \in 1..Len(Line(u)')
                 PROVE  /\ Line(u)'[i].n <= Left(Line(u)[i].agent)'
                        /\ gone'[Line(u)'[i]] = 0
      BY DEF LineLeft
    <2>1. PICK j \in 1..Len(Line(u)) : Line(u)'[i] = Line(u)[j] /\ Line(u)[j] # x
      BY <1>17
    <2>2. PICK r : r = Line(u)[j]
      OBVIOUS
    <2>3. /\ r \in Reports
          /\ r.agent \in Agents
          /\ r.n <= Left(r.agent)
          /\ gone[r] = 0
          /\ r # x
      BY <1>5, <2>1, <2>2
    <2>4. r.n <= Left(r.agent)' /\ gone'[r] = 0
      BY <1>3, <1>8, <2>3
    <2>5. QED
      BY <2>1, <2>2, <2>4
  <1>19. LineSorted'
    <2> SUFFICES ASSUME NEW u \in Threads,
                        NEW i \in 1..Len(Line(u)'), NEW j \in 1..Len(Line(u)'), i < j,
                        Line(u)'[i].agent = Line(u)'[j].agent
                 PROVE  Line(u)'[i].n < Line(u)'[j].n
      BY DEF LineSorted
    <2>1. PICK k \in 1..Len(Line(u)), l \in 1..Len(Line(u)) :
            k < l /\ Line(u)'[i] = Line(u)[k] /\ Line(u)'[j] = Line(u)[l]
      <3>1. CASE u # t
        BY <1>13, <3>1
      <3>2. CASE u = t
        <4>1. i + 1 \in 1..Len(Line(u)) /\ j + 1 \in 1..Len(Line(u)) /\ i + 1 < j + 1
          BY <1>5, <1>13, <3>2
        <4>2. QED
          BY <1>13, <3>2, <4>1
      <3>3. QED
        BY <3>1, <3>2
    <2>2. QED
      BY <2>1, Parts DEF LineSorted
  <1>20. LinesApart'
    <2> SUFFICES ASSUME NEW u \in Threads, NEW v \in Threads,
                        NEW i \in 1..Len(Line(u)'), NEW j \in 1..Len(Line(v)'),
                        Line(u)'[i] = Line(v)'[j]
                 PROVE  u = v
      BY DEF LinesApart
    <2>1. PICK k \in 1..Len(Line(u)) : Line(u)'[i] = Line(u)[k]
      BY <1>17
    <2>2. PICK l \in 1..Len(Line(v)) : Line(v)'[j] = Line(v)[l]
      BY <1>17
    <2>3. Line(u)[k] = Line(v)[l]
      BY <2>1, <2>2
    <2>4. QED
      BY <2>3, Parts DEF LinesApart
  <1>21. LineAfterLast'
    <2> SUFFICES ASSUME NEW u \in Threads, NEW i \in 1..Len(Line(u)')
                 PROVE  last'[u][Line(u)'[i].agent] < Line(u)'[i].n
      BY DEF LineAfterLast
    <2>1. PICK j \in 1..Len(Line(u)) :
            /\ Line(u)'[i] = Line(u)[j]
            /\ u = t /\ Line(u)[j].agent = x.agent => x.n < Line(u)[j].n
      BY <1>17
    <2>2. PICK r : r = Line(u)[j]
      OBVIOUS
    <2>3. /\ r.agent \in Agents /\ last[u][r.agent] < r.n
          /\ u = t /\ r.agent = x.agent => x.n < r.n
      BY <1>5, <2>1, <2>2
    <2>4. last'[u][r.agent] < r.n
      BY <1>9, <2>3
    <2>5. QED
      BY <2>1, <2>2, <2>4
  <1>22. LastLeft'
    <2> SUFFICES ASSUME NEW u \in Threads, NEW a \in Agents PROVE last'[u][a] <= Left(a)
      BY <1>3 DEF LastLeft
    <2>1. CASE last'[u][a] = last[u][a]
      BY <2>1, Parts DEF LastLeft
    <2>2. CASE a = x.agent /\ last'[u][a] = x.n
      BY <1>7, <2>2
    <2>3. QED
      BY <1>9, <2>1, <2>2
  <1>23. Settled'
    <2> SUFFICES ASSUME NEW r \in Reports
                 PROVE  IF r.n <= Left(r.agent)'
                          THEN gone'[r] = 1 \/ \E u \in Threads : InLine(r, u)'
                          ELSE gone'[r] = 0
      BY DEF Settled
    <2>1. r.agent \in Agents
      BY ReportIsPair
    <2>2. CASE r = x
      BY <1>3, <1>7, <1>8, <2>1, <2>2
    <2>3. CASE r # x
      <3>1. \A u \in Threads : InLine(r, u) => InLine(r, u)'
        <4> SUFFICES ASSUME NEW u \in Threads, NEW i \in 1..Len(Line(u)), Line(u)[i] = r
                     PROVE  \E j \in 1..Len(Line(u)') : Line(u)'[j] = r
          BY DEF InLine
        <4>1. ~(u = t /\ i = 1)
          BY <1>4, <2>3
        <4>2. QED
          BY <1>14, <4>1
      <3>2. QED
        BY <1>3, <1>8, <2>1, <2>3, <3>1, Parts DEF Settled
    <2>4. QED
      BY <2>2, <2>3
  <1>24. QED
    BY <1>10, <1>11, <1>12, <1>18, <1>19, <1>20, <1>21, <1>22, <1>23 DEF IInv

(* index is loaded and stored; the remainder brings it back into range. *)
LEMMA IndexIInv ==
  ASSUME IInv, NEW w \in Workers,
         IncLoad(w) \/ IncStore(w) \/ ModLoad(w) \/ ModStore(w)
  PROVE  IInv'
  <1>1. /\ UNCHANGED <<made, report_queue, conn, obuf, wire, faults, served, reportQueues,
                       started, batch, row, gone, last, fault>>
        /\ \A u \in Workers : u # w => handler'[u] = handler[u]
    BY Parts DEF IncLoad, IncStore, ModLoad, ModStore, Step, agentVars, dbVars, Types
  <1>2. \A t \in Threads : Line(t)' = Line(t)
    BY <1>1 DEF Line
  <1>3. index \in Nat /\ handler[w].val \in Nat /\ thread_cnt \in Nat \ {0}
    BY Parts, ReporterConstants DEF Types
  <1>4. /\ handler' \in [Workers -> [at : {"idle", "load", "inc", "reload", "mod"}, val : Nat]]
        /\ index' \in Nat
    <2>1. CASE IncLoad(w)
      BY <1>3, <2>1, Parts DEF IncLoad, Step, Types
    <2>2. CASE IncStore(w)
      BY <1>3, <2>2, Parts DEF IncStore, Step, Types
    <2>3. CASE ModLoad(w)
      BY <1>3, <2>3, Parts DEF ModLoad, Step, Types
    <2>4. CASE ModStore(w)
      <3>1. handler[w].val % thread_cnt \in Nat
        BY <1>3
      <3>2. QED
        BY <2>4, <3>1, Parts DEF ModStore, Step, Types
    <2>5. QED
      BY <2>1, <2>2, <2>3, <2>4
  <1>5. Types'
    BY <1>1, <1>4, Parts DEF Types
  <1>6. IndexInRange'
    <2>1. CASE IncLoad(w)
      <3>1. index' = index /\ handler[w].at = "load"
        BY <2>1 DEF IncLoad, Step
      <3>2. QED
        BY <1>1, <3>1, Parts DEF IndexInRange
    <2>2. CASE IncStore(w)
      <3>1. handler'[w].at = "reload"
        BY <2>2, Parts DEF IncStore, Step, Types
      <3>2. QED
        BY <3>1 DEF IndexInRange
    <2>3. CASE ModLoad(w)
      <3>1. handler'[w].at = "mod"
        BY <2>3, Parts DEF ModLoad, Step, Types
      <3>2. QED
        BY <3>1 DEF IndexInRange
    <2>4. CASE ModStore(w)
      <3>1. handler[w].val % thread_cnt \in 0..(thread_cnt - 1)
        BY <1>3
      <3>2. QED
        BY <2>4, <3>1 DEF IndexInRange, ModStore, Threads
    <2>5. QED
      BY <2>1, <2>2, <2>3, <2>4
  <1>7. WireIsUp'
    BY <1>1, Parts DEF WireIsUp
  <1>8. QED
    BY <1>1, <1>2, <1>5, <1>6, <1>7, QuietIInv

(* The death of the process, the start of a thread and recv() move nothing. *)
LEMMA StillIInv ==
  ASSUME IInv,
         \/ \E w \in Workers, a \in Agents : SendToThread(w, a) /\ index \notin Threads
         \/ \E t \in Threads : StoreMain(t) \/ RecvReports(t)
         \/ UNCHANGED vars
  PROVE  IInv'
  <1>1. ASSUME UNCHANGED <<made, report_queue, conn, obuf, wire, faults, served, index, handler,
                           row, gone, last>>,
               \A t \in Threads : Line(t)' = Line(t),
               reportQueues' \in [Threads -> Seq(Reports)], batch' \in [Threads -> Seq(Reports)],
               started' \subseteq Threads, fault' \in {"none", "index", "mysql"}
        PROVE  IInv'
    <2>1. Types'
      BY <1>1, Parts DEF Types
    <2>2. IndexInRange' /\ WireIsUp'
      BY <1>1, Parts DEF IndexInRange, WireIsUp
    <2>3. QED
      BY <1>1, <2>1, <2>2, QuietIInv
  <1>2. ASSUME UNCHANGED <<reportQueues, batch>>
        PROVE  /\ \A t \in Threads : Line(t)' = Line(t)
               /\ reportQueues' \in [Threads -> Seq(Reports)]
               /\ batch' \in [Threads -> Seq(Reports)]
    BY <1>2, Parts DEF Line, Types
  <1>3. ASSUME NEW w \in Workers, NEW a \in Agents, SendToThread(w, a), index \notin Threads
        PROVE  IInv'
    BY <1>1, <1>2, <1>3, Parts DEF SendToThread, dbVars, Types
  <1>4. ASSUME NEW t \in Threads, StoreMain(t)
        PROVE  IInv'
    BY <1>1, <1>2, <1>4, Parts DEF StoreMain, agentVars, Types
  <1>5. ASSUME NEW t \in Threads, RecvReports(t)
        PROVE  IInv'
    <2>1. /\ batch[t] = << >> /\ batch' = [batch EXCEPT ![t] = reportQueues[t]]
          /\ reportQueues' = [reportQueues EXCEPT ![t] = << >>]
          /\ UNCHANGED <<made, report_queue, conn, obuf, wire, faults, served, index, handler,
                         row, gone, last, started, fault>>
      BY <1>5 DEF RecvReports, agentVars
    <2>2. \A u \in Threads : Line(u)' = Line(u)
      BY <2>1, Parts, LineReceived
    <2>3. << >> \in Seq(Reports)
      OBVIOUS
    <2>4. /\ reportQueues' \in [Threads -> Seq(Reports)]
          /\ batch' \in [Threads -> Seq(Reports)]
      BY <2>1, <2>3, Parts DEF Types
    <2>5. started' \subseteq Threads /\ fault' \in {"none", "index", "mysql"}
      BY <2>1, Parts DEF Types
    <2>6. QED
      BY <1>1, <2>1, <2>2, <2>4, <2>5
  <1>6. CASE UNCHANGED vars
    BY <1>1, <1>2, <1>6, Parts DEF vars, agentVars, dbVars, Types
  <1>7. QED
    BY <1>3, <1>4, <1>5, <1>6

(* Every step of every thread preserves the invariant. *)
LEMMA StepIInv == IInv /\ [Next]_vars => IInv'
  <1> SUFFICES ASSUME IInv, [Next]_vars PROVE IInv'
    OBVIOUS
  <1>1. CASE \E a \in Agents : Commit(a) \/ PeerCloses(a)
    BY <1>1, CommitIInv, PeerClosesIInv
  <1>2. CASE \E a \in Agents : Client(a)
    BY <1>2, NewReportRequestIInv, ConnectIInv, DoWriteIInv, DoWriteInVainIInv DEF Client
  <1>3. CASE \E w \in Workers : Handler(w)
    <2>1. PICK w \in Workers : Handler(w)
      BY <1>3
    <2>2. CASE \E a \in Agents : SendToThread(w, a)
      <3>1. PICK a \in Agents : SendToThread(w, a)
        BY <2>2
      <3>2. CASE index \in Threads
        BY <3>1, <3>2, SendToThreadIInv
      <3>3. CASE index \notin Threads
        BY <3>1, <3>3, StillIInv
      <3>4. QED
        BY <3>2, <3>3
    <2>3. CASE IncLoad(w) \/ IncStore(w) \/ ModLoad(w) \/ ModStore(w)
      BY <2>3, IndexIInv
    <2>4. QED
      BY <2>1, <2>2, <2>3 DEF Handler
  <1>4. CASE \E t \in Threads : DbThread(t)
    BY <1>4, StillIInv, StoreIInv DEF DbThread
  <1>5. CASE UNCHANGED vars
    BY <1>5, StillIInv
  <1>6. QED
    BY <1>1, <1>2, <1>3, <1>4, <1>5 DEF Next

(* IInv holds in every reachable state of the reporter. *)
THEOREM ReporterInvariant == Spec => []IInv
  BY InitIInv, StepIInv, PTL DEF Spec

-----------------------------------------------------------------------------
(* The properties. *)

(* index is in the array again as soon as no handler is in between. *)
THEOREM IndexComesBack == Spec => []IndexRecovers
  <1>1. IInv => IndexRecovers
    <2> SUFFICES ASSUME IInv PROVE IndexRecovers
      OBVIOUS
    <2>1. \A t \in Threads :
            Range(reportQueues[t]) \subseteq Reports /\ Range(batch[t]) \subseteq Reports
      <3>1. \A q \in Seq(Reports) : Range(q) \subseteq Reports
        <4> SUFFICES ASSUME NEW q \in Seq(Reports), NEW x \in Range(q) PROVE x \in Reports
          OBVIOUS
        <4>1. PICK i \in DOMAIN q : x = q[i]
          BY DEF Range
        <4>2. QED
          BY <4>1
      <3>2. QED
        BY <3>1, Parts DEF Types
    <2>2. TypeOK
      BY <2>1, Parts DEF Types, TypeOK
    <2>3. QED
      BY <2>2, Parts DEF IndexInRange, IndexRecovers
  <1>2. QED
    BY <1>1, ReporterInvariant, PTL

(* The newest report of an agent that a thread has stored is never replaced  *)
(* by an older one.                                                          *)
THEOREM ThreadsStoreInOrder == Spec => OrderInThread
  <1> DEFINE A == \A a \in Agents, t \in Threads : last'[t][a] >= last[t][a]
  <1>1. ASSUME IInv, [Next]_vars
        PROVE  [A]_vars
    <2> SUFFICES ASSUME NEW a \in Agents, NEW t \in Threads PROVE last'[t][a] >= last[t][a]
      OBVIOUS
    <2>1. last[t][a] \in Nat
      BY <1>1, Parts, ReporterConstants DEF Types
    <2>2. CASE last' = last
      BY <2>1, <2>2
    <2>3. CASE \E u \in Threads : Store(u)
      <3>1. PICK u \in Threads : Store(u)
        BY <2>3
      <3>2. PICK x : x = Head(batch[u])
        OBVIOUS
      <3>3. /\ batch[u] # << >> /\ batch' = [batch EXCEPT ![u] = Tail(@)]
            /\ reportQueues' = reportQueues
            /\ last' = last \/ last' = [last EXCEPT ![u] = [last[u] EXCEPT ![x.agent] = x.n]]
        BY <3>1, <3>2 DEF Store
      <3>4. /\ Len(Line(u)) >= 1 /\ Line(u)[1] = x
        BY <1>1, <3>2, <3>3, Parts, LineShrinks
      <3>5. last[u][x.agent] < x.n /\ x.n \in Nat
        <4>1. 1 \in 1..Len(Line(u)) /\ x \in Reports
          BY <1>1, <3>4, Parts, LineTypes
        <4>2. QED
          BY <1>1, <3>4, <4>1, Parts, ReportIsPair DEF LineAfterLast
      <3>6. DOMAIN last = Threads /\ DOMAIN last[t] = Agents
        BY <1>1, Parts DEF Types
      <3>7. CASE u # t
        BY <2>1, <2>2, <3>3, <3>6, <3>7
      <3>8. CASE u = t /\ last' = [last EXCEPT ![t] = [last[t] EXCEPT ![x.agent] = x.n]]
        <4>1. last'[t] = [last[t] EXCEPT ![x.agent] = x.n]
          BY <3>6, <3>8
        <4>2. last'[t][a] = IF a = x.agent THEN x.n ELSE last[t][a]
          BY <3>6, <4>1
        <4>3. QED
          BY <2>1, <3>5, <3>8, <4>2
      <3>9. QED
        BY <2>2, <3>3, <3>7, <3>8
    <2>4. last' = last \/ \E u \in Threads : Store(u)
      BY <1>1
      DEF Next, Handler, DbThread, Client, Commit, NewReportRequest, ConnectCompletes,
          ConnectRefused, DoWrite, DoWriteInVain, CleanConn, ClientStep, PeerCloses, SendToThread,
          IncLoad, IncStore, ModLoad, ModStore, Step, StoreMain, RecvReports, vars, dbVars
    <2>5. QED
      BY <2>2, <2>3, <2>4
  <1>2. IInv /\ [Next]_vars => [A]_vars
    BY <1>1
  <1>3. QED
    BY <1>2, ReporterInvariant, PTL DEF Spec, OrderInThread

(* The places that Copies counts. *)
LEMMA CopiesCounted ==
  ASSUME NEW D, NEW qs, DOMAIN qs = D, \A q \in D : qs[q] \in Seq(Reports), NEW r
  PROVE  /\ (\A q \in D : \A i \in 1..Len(qs[q]) : qs[q][i] # r) => Copies(r, qs) = 0
         /\ \A c \in D : \A k \in 1..Len(qs[c]) :
              /\ qs[c][k] = r
              /\ \A q \in D : \A i \in 1..Len(qs[q]) : qs[q][i] = r => q = c /\ i = k
              => Copies(r, qs) = 1
  <1> DEFINE P == {p \in UNION {{q} \X DOMAIN qs[q] : q \in DOMAIN qs} : qs[p[1]][p[2]] = r}
  <1>1. Copies(r, qs) = Cardinality(P)
    BY DEF Copies
  <1>2. \A q \in D : DOMAIN qs[q] = 1..Len(qs[q])
    OBVIOUS
  <1>3. \A p \in P : \E q \in D : \E i \in 1..Len(qs[q]) : p = <<q, i>> /\ qs[q][i] = r
    BY <1>2
  <1>4. ASSUME \A q \in D : \A i \in 1..Len(qs[q]) : qs[q][i] # r
        PROVE  Copies(r, qs) = 0
    <2>1. P = {}
      BY <1>3, <1>4
    <2>2. QED
      BY <1>1, <2>1, FS_EmptySet
  <1>5. ASSUME NEW c \in D, NEW k \in 1..Len(qs[c]), qs[c][k] = r,
               \A q \in D : \A i \in 1..Len(qs[q]) : qs[q][i] = r => q = c /\ i = k
        PROVE  Copies(r, qs) = 1
    <2>1. <<c, k>> \in P
      BY <1>2, <1>5
    <2>2. P = {<<c, k>>}
      BY <1>3, <1>5, <2>1
    <2>3. QED
      BY <1>1, <2>2, FS_Singleton
  <1>6. QED
    BY <1>4, <1>5

(* Where a line holds its reports. *)
LEMMA LinePlaces ==
  ASSUME Types, NEW t \in Threads
  PROVE  /\ \A i \in 1..Len(batch[t]) : i \in 1..Len(Line(t)) /\ Line(t)[i] = batch[t][i]
         /\ \A i \in 1..Len(reportQueues[t]) :
              /\ Len(batch[t]) + i \in 1..Len(Line(t))
              /\ Line(t)[Len(batch[t]) + i] = reportQueues[t][i]
         /\ \A i \in 1..Len(Line(t)) :
              i \in 1..Len(batch[t]) \/ i - Len(batch[t]) \in 1..Len(reportQueues[t])
  <1>1. PICK p \in Seq(Reports), q \in Seq(Reports) : p = batch[t] /\ q = reportQueues[t]
    BY LineTypes
  <1>2. /\ Len(p \o q) = Len(p) + Len(q) /\ Len(p) \in Nat /\ Len(q) \in Nat
        /\ \A i \in 1..Len(p) : (p \o q)[i] = p[i]
        /\ \A i \in 1..Len(q) : (p \o q)[Len(p) + i] = q[i]
    BY Joined, Entries
  <1>3. \A x, y \in Nat :
          /\ \A i \in 1..x : i \in 1..(x + y)
          /\ \A i \in 1..y : x + i \in 1..(x + y)
          /\ \A i \in 1..(x + y) : i \in 1..x \/ i - x \in 1..y
    OBVIOUS
  <1>4. Line(t) = p \o q
    BY <1>1 DEF Line
  <1>5. QED
    BY <1>1, <1>2, <1>3, <1>4

(* A report is at one place of one line. *)
LEMMA OnePlace ==
  ASSUME IInv, NEW t \in Threads, NEW u \in Threads,
         NEW i \in 1..Len(Line(t)), NEW j \in 1..Len(Line(u)), Line(t)[i] = Line(u)[j]
  PROVE  t = u /\ i = j
  <1>1. t = u
    BY Parts DEF LinesApart
  <1>2. Len(Line(t)) \in Nat /\ Line(t)[i].n \in Nat
    BY Parts, LineTypes, ReportIsPair
  <1>3. ~(i < j) /\ ~(j < i)
    BY <1>1, <1>2, Parts DEF LineSorted
  <1>4. QED
    BY <1>1, <1>2, <1>3

(* A report that the threads do not have is in none of their sequences. *)
LEMMA NotInLine ==
  ASSUME IInv, NEW r \in Reports, \A t \in Threads : ~InLine(r, t)
  PROVE  Copies(r, reportQueues) = 0 /\ Copies(r, batch) = 0
  <1>1. /\ DOMAIN reportQueues = Threads /\ \A t \in Threads : reportQueues[t] \in Seq(Reports)
        /\ DOMAIN batch = Threads /\ \A t \in Threads : batch[t] \in Seq(Reports)
    BY Parts DEF Types
  <1>2. \A t \in Threads : \A i \in 1..Len(batch[t]) : batch[t][i] # r
    BY Parts, LinePlaces DEF InLine
  <1>3. \A t \in Threads : \A i \in 1..Len(reportQueues[t]) : reportQueues[t][i] # r
    BY Parts, LinePlaces DEF InLine
  <1>4. QED
    BY <1>1, <1>2, <1>3, CopiesCounted

(* A report that a thread has is in its batch or in its queue, once. *)
LEMMA OnceInLine ==
  ASSUME IInv, NEW r \in Reports, NEW t \in Threads, InLine(r, t)
  PROVE  \/ Copies(r, reportQueues) = 0 /\ Copies(r, batch) = 1
         \/ Copies(r, reportQueues) = 1 /\ Copies(r, batch) = 0
  <1>1. /\ DOMAIN reportQueues = Threads /\ \A u \in Threads : reportQueues[u] \in Seq(Reports)
        /\ DOMAIN batch = Threads /\ \A u \in Threads : batch[u] \in Seq(Reports)
    BY Parts DEF Types
  <1>2. PICK k \in 1..Len(Line(t)) : Line(t)[k] = r
    BY DEF InLine
  <1>3. \A u \in Threads : Len(batch[u]) \in Nat /\ Len(reportQueues[u]) \in Nat
    BY <1>1, Entries
  <1>4. \A u \in Threads : \A i \in 1..Len(batch[u]) : batch[u][i] = r => u = t /\ i = k
    BY <1>2, Parts, LinePlaces, OnePlace
  <1>5. \A u \in Threads : \A i \in 1..Len(reportQueues[u]) :
          reportQueues[u][i] = r => u = t /\ Len(batch[u]) + i = k
    <2> SUFFICES ASSUME NEW u \in Threads, NEW i \in 1..Len(reportQueues[u]),
                        reportQueues[u][i] = r
                 PROVE  u = t /\ Len(batch[u]) + i = k
      OBVIOUS
    <2>1. Len(batch[u]) + i \in 1..Len(Line(u)) /\ Line(u)[Len(batch[u]) + i] = r
      BY Parts, LinePlaces
    <2>2. QED
      BY <1>2, <2>1, OnePlace
  <1>6. CASE k \in 1..Len(batch[t])
    <2>1. batch[t][k] = r
      BY <1>2, <1>6, Parts, LinePlaces
    <2>2. \A u \in Threads : \A i \in 1..Len(reportQueues[u]) : reportQueues[u][i] # r
      BY <1>3, <1>5, <1>6
    <2>3. Copies(r, batch) = 1
      BY <1>1, <1>4, <1>6, <2>1, CopiesCounted
    <2>4. Copies(r, reportQueues) = 0
      BY <1>1, <2>2, CopiesCounted
    <2>5. QED
      BY <2>3, <2>4
  <1>7. CASE k \notin 1..Len(batch[t])
    <2>1. PICK l \in 1..Len(reportQueues[t]) : k = Len(batch[t]) + l
      <3>1. k - Len(batch[t]) \in 1..Len(reportQueues[t])
        BY <1>7, Parts, LinePlaces
      <3>2. k \in Int
        OBVIOUS
      <3>3. QED
        BY <1>3, <3>1, <3>2
    <2>2. reportQueues[t][l] = r
      BY <1>2, <2>1, Parts, LinePlaces
    <2>3. \A u \in Threads : \A i \in 1..Len(reportQueues[u]) :
            reportQueues[u][i] = r => u = t /\ i = l
      BY <1>3, <1>5, <2>1, SMTT(30)
    <2>4. \A u \in Threads : \A i \in 1..Len(batch[u]) : batch[u][i] # r
      BY <1>4, <1>7
    <2>5. Copies(r, reportQueues) = 1
      <3>1. /\ DOMAIN reportQueues = Threads
            /\ \A u \in Threads : reportQueues[u] \in Seq(Reports)
        BY <1>1
      <3>2. \A c \in Threads : \A m \in 1..Len(reportQueues[c]) :
              /\ reportQueues[c][m] = r
              /\ \A u \in Threads : \A i \in 1..Len(reportQueues[u]) :
                   reportQueues[u][i] = r => u = c /\ i = m
              => Copies(r, reportQueues) = 1
        BY <3>1, CopiesCounted
      <3>3. QED
        BY <2>2, <2>3, <3>2, Zenon
    <2>6. Copies(r, batch) = 0
      BY <1>1, <2>4, CopiesCounted
    <2>7. QED
      BY <2>5, <2>6
  <1>8. QED
    BY <1>6, <1>7

(* Between commit() and the database a report is in one place, once.         *)
THEOREM NoReportIsLostOrDoubled == Spec => []EachReportOnce
  <1>1. ASSUME IInv, NEW a \in Agents, NEW n \in 1..made[a]
        PROVE  Copies(Report(a, n), report_queue) + Copies(Report(a, n), obuf)
                 + Copies(Report(a, n), wire) + Copies(Report(a, n), reportQueues)
                 + Copies(Report(a, n), batch) + gone[Report(a, n)] = 1
    <2>1. \A b \in Agents :
            /\ Len(report_queue[b]) \in Nat /\ Len(obuf[b]) \in Nat /\ Len(wire[b]) \in Nat
            /\ made[b] \in Nat /\ made[b] <= MaxReports /\ MaxReports \in Nat
            /\ Sent(b) \in Int /\ Written(b) \in Int /\ Left(b) \in Int
            /\ made[b] = Sent(b) + Len(report_queue[b]) /\ Sent(b) = Written(b) + Len(obuf[b])
            /\ Written(b) = Left(b) + Len(wire[b])
      BY <1>1, Parts, Progress
    <2>2. PICK r \in Reports : r = Report(a, n) /\ r.agent = a /\ r.n = n
      <3>1. n \in 1..MaxReports
        BY <1>1, <2>1
      <3>2. QED
        BY <3>1, ReportIsPair
    <2>3. \A b \in Agents : \A m : Report(b, m) = r => b = a /\ m = n
      <3>1. \A b \in Agents : \A m : Report(b, m).agent = b /\ Report(b, m).n = m
        BY DEF Report
      <3>2. QED
        BY <2>2, <3>1
    <2>4. /\ DOMAIN report_queue = Agents /\ \A b \in Agents : report_queue[b] \in Seq(Reports)
          /\ DOMAIN obuf = Agents /\ \A b \in Agents : obuf[b] \in Seq(Reports)
          /\ DOMAIN wire = Agents /\ \A b \in Agents : wire[b] \in Seq(Reports)
      BY <1>1, Parts DEF Types
    <2>5. \A b \in Agents : \A i \in 1..Len(report_queue[b]) :
            /\ report_queue[b][i] = Report(b, Sent(b) + i)
            /\ report_queue[b][i] = r => b = a /\ n = Sent(a) + i
      BY <1>1, <2>3, Parts DEF QueueNumbered
    <2>6. \A b \in Agents : \A i \in 1..Len(wire[b]) :
            /\ wire[b][i] = Report(b, Left(b) + i)
            /\ wire[b][i] = r => b = a /\ n = Left(a) + i
      BY <1>1, <2>3, Parts DEF WireNumbered
    <2>7. \A b \in Agents : \A i \in 1..Len(obuf[b]) :
            /\ obuf[b][i] = Report(b, Written(b) + i)
            /\ obuf[b][i] = r => b = a /\ n = Written(a) + i
      BY <1>1, <2>3, Parts DEF BufNumbered
    <2>8. \A t \in Threads : InLine(r, t) => n <= Left(a) /\ gone[r] = 0
      BY <1>1, <2>2, Parts DEF InLine, LineLeft
    <2>9. ~(n > Sent(a)) => Copies(r, report_queue) = 0
      <3> SUFFICES ASSUME ~(n > Sent(a)) PROVE Copies(r, report_queue) = 0
        OBVIOUS
      <3>1. \A b \in Agents : \A i \in 1..Len(report_queue[b]) : report_queue[b][i] # r
        BY <2>1, <2>5
      <3>2. QED
        BY <2>4, <3>1, CopiesCounted
    <2>10. ~(n > Left(a) /\ n <= Written(a)) => Copies(r, wire) = 0
      <3> SUFFICES ASSUME ~(n > Left(a) /\ n <= Written(a)) PROVE Copies(r, wire) = 0
        OBVIOUS
      <3>1. \A b \in Agents : \A i \in 1..Len(wire[b]) : wire[b][i] # r
        BY <2>1, <2>6, SMTT(30)
      <3>2. QED
        BY <2>4, <3>1, CopiesCounted
    <2>11. ~(n > Written(a) /\ n <= Sent(a)) => Copies(r, obuf) = 0
      <3> SUFFICES ASSUME ~(n > Written(a) /\ n <= Sent(a)) PROVE Copies(r, obuf) = 0
        OBVIOUS
      <3>1. \A b \in Agents : \A i \in 1..Len(obuf[b]) : obuf[b][i] # r
        BY <2>1, <2>7, SMTT(30)
      <3>2. QED
        BY <2>4, <3>1, CopiesCounted
    <2>12. ~(n <= Left(a)) => gone[r] = 0 /\ \A t \in Threads : ~InLine(r, t)
      BY <1>1, <2>2, <2>8, Parts DEF Settled
    <2>13. CASE n > Sent(a)
      <3>1. PICK k \in 1..Len(report_queue[a]) : n = Sent(a) + k
        <4>1. n - Sent(a) \in 1..Len(report_queue[a])
          BY <2>1, <2>13
        <4>2. QED
          BY <2>1, <4>1
      <3>2. report_queue[a][k] = r
        BY <2>2, <2>5, <3>1
      <3>3. \A b \in Agents : \A i \in 1..Len(report_queue[b]) :
              report_queue[b][i] = r => b = a /\ i = k
        BY <2>1, <2>5, <3>1
      <3>4. Copies(r, report_queue) = 1
        BY <2>4, <3>2, <3>3, CopiesCounted, SMTT(30)
      <3>5. /\ ~(n <= Left(a)) /\ ~(n > Left(a) /\ n <= Written(a))
            /\ ~(n > Written(a) /\ n <= Sent(a))
        BY <2>1, <2>13
      <3>6. Copies(r, obuf) = 0 /\ Copies(r, wire) = 0
        BY <2>10, <2>11, <3>5
      <3>7. QED
        BY <1>1, <2>2, <2>12, <3>4, <3>5, <3>6, NotInLine
    <2>14. CASE n > Written(a) /\ n <= Sent(a)
      <3>1. PICK k \in 1..Len(obuf[a]) : n = Written(a) + k
        <4>1. n - Written(a) \in 1..Len(obuf[a])
          BY <2>1, <2>14
        <4>2. QED
          BY <2>1, <4>1
      <3>2. obuf[a][k] = r
        BY <2>2, <2>7, <3>1
      <3>3. \A b \in Agents : \A i \in 1..Len(obuf[b]) : obuf[b][i] = r => b = a /\ i = k
        BY <2>1, <2>7, <3>1
      <3>4. Copies(r, obuf) = 1
        BY <2>4, <3>2, <3>3, CopiesCounted, SMTT(30)
      <3>5. /\ ~(n <= Left(a)) /\ ~(n > Sent(a))
            /\ ~(n > Left(a) /\ n <= Written(a))
        BY <2>1, <2>14
      <3>6. Copies(r, report_queue) = 0 /\ Copies(r, wire) = 0
        BY <2>9, <2>10, <3>5
      <3>7. QED
        BY <1>1, <2>2, <2>12, <3>4, <3>5, <3>6, NotInLine
    <2>15. CASE n > Left(a) /\ n <= Written(a)
      <3>1. PICK k \in 1..Len(wire[a]) : n = Left(a) + k
        <4>1. n - Left(a) \in 1..Len(wire[a])
          BY <2>1, <2>15
        <4>2. QED
          BY <2>1, <4>1
      <3>2. wire[a][k] = r
        BY <2>2, <2>6, <3>1
      <3>3. \A b \in Agents : \A i \in 1..Len(wire[b]) : wire[b][i] = r => b = a /\ i = k
        BY <2>1, <2>6, <3>1
      <3>4. Copies(r, wire) = 1
        BY <2>4, <3>2, <3>3, CopiesCounted, SMTT(30)
      <3>5. /\ ~(n <= Left(a)) /\ ~(n > Sent(a))
            /\ ~(n > Written(a) /\ n <= Sent(a))
        BY <2>1, <2>15
      <3>6. Copies(r, report_queue) = 0 /\ Copies(r, obuf) = 0
        BY <2>9, <2>11, <3>5
      <3>7. QED
        BY <1>1, <2>2, <2>12, <3>4, <3>5, <3>6, NotInLine
    <2>16. CASE n <= Left(a)
      <3>1. Copies(r, report_queue) = 0 /\ Copies(r, obuf) = 0 /\ Copies(r, wire) = 0
        <4>1. /\ ~(n > Sent(a)) /\ ~(n > Written(a) /\ n <= Sent(a))
              /\ ~(n > Left(a) /\ n <= Written(a))
          BY <2>1, <2>16
        <4>2. QED
          BY <2>9, <2>10, <2>11, <4>1
      <3>2. gone[r] \in {0, 1} /\ (gone[r] = 1 \/ \E t \in Threads : InLine(r, t))
        BY <1>1, <2>2, <2>16, Parts DEF Settled, Types
      <3>3. CASE gone[r] = 1
        <4>1. Copies(r, reportQueues) = 0 /\ Copies(r, batch) = 0
          BY <1>1, <2>8, <3>3, NotInLine
        <4>2. QED
          BY <2>2, <3>1, <3>3, <4>1
      <3>4. CASE \E t \in Threads : InLine(r, t)
        <4>1. gone[r] = 0
          BY <2>8, <3>4
        <4>2. \/ Copies(r, reportQueues) = 0 /\ Copies(r, batch) = 1
              \/ Copies(r, reportQueues) = 1 /\ Copies(r, batch) = 0
          BY <1>1, <3>4, OnceInLine
        <4>3. QED
          BY <2>2, <3>1, <4>1, <4>2
      <3>5. QED
        BY <3>2, <3>3, <3>4
    <2>17. QED
      BY <2>1, <2>13, <2>14, <2>15, <2>16
  <1>2. IInv => EachReportOnce
    BY <1>1 DEF EachReportOnce
  <1>3. QED
    BY <1>2, ReporterInvariant, PTL
=============================================================================
