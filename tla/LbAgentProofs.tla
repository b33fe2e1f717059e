--------------------------- MODULE LbAgentProofs ----------------------------
(***************************************************************************)
(* Proofs about LbAgent and the TcpClient below it, for any number of mods *)
(* and hosts and any number and order of lost connections.                 *)
(*                                                                         *)
(* WaitingOnlyIfDropped and StrandedOnlyIfDead are preserved by every step *)
(* as they stand.  AgentFresh is not: it says nothing while a message is   *)
(* on its way.  UpToDate does: the last message in the inbox that is about *)
(* a subscribed mod carries its current route, and when there is none left *)
(* the load_balance has taken it over.  SubsConnected is needed for that:  *)
(* a subscription ends with its connection, so no change of a subscribed   *)
(* mod goes without a push.                                                *)
(***************************************************************************)
EXTENDS LbAgent, SequenceTheorems, TLAPS

(* The events of an entry of _io_evs, and what may be registered for them. *)
Masks == {"EPOLLIN", "EPOLLOUT"}

Callbacks == {"none", "do_read", "do_write", "connection_succ"}

(* A GetRouteResponse. *)
Message == [mod : Mods, hosts : SUBSET Hosts]

(* The values of the connection's variables, functions and sequences included. *)
ConnTypes ==
    /\ ConnTypeOK
    /\ io_ev \in [Masks -> Callbacks]
    /\ obuf \in Seq(Mods) /\ net \in Seq(Mods) /\ inbox \in Seq(Message)

(* A load_balance is absent or being pulled, as far as its status goes. *)
LbTypes ==
    /\ lb \in [Mods -> [status : {"absent", "PULLING"}, hosts : SUBSET Hosts]]
    /\ \A m \in Mods : lb[m] = Absent \/ lb[m].status = "PULLING"

(* The same for all variables. *)
Types ==
    /\ TypeOK
    /\ ConnTypes
    /\ dns_queue \in Seq(Mods)
    /\ LbTypes
    /\ route \in [Mods -> SUBSET Hosts]
    /\ subs \subseteq Mods
    /\ changes \in Nat

(* Subscriptions are those of a connection that is up. *)
SubsConnected == subs # {} => sock = "connected"

(* Nothing in box is about m. *)
Silent(box, m) == \A i \in 1..Len(box) : box[i].mod # m

(* The last message of box about m says hosts. *)
LastSays(box, m, hosts) ==
    \E i \in 1..Len(box) :
        /\ box[i].mod = m /\ box[i].hosts = hosts
        /\ \A j \in 1..Len(box) : j > i => box[j].mod # m

(* The agent has, or will have read, the current route of m. *)
UpToDate(m) ==
    m \in subs =>
        \/ LastSays(inbox, m, route[m])
        \/ /\ Silent(inbox, m)
           /\ lb[m].hosts # {} => route[m] # {} /\ route[m] \subseteq lb[m].hosts

(* The inductive invariant. *)
IInv ==
    /\ Types
    /\ StrandedOnlyIfDead
    /\ WaitingOnlyIfDropped
    /\ SubsConnected
    /\ \A m \in Mods : UpToDate(m)
-----------------------------------------------------------------------------
(* Sequences of messages. *)

(* The elements of a sequence of one. *)
LEMMA RangeOne == \A x : Range(<<x>>) = {x}
  BY DEF Range

(* The elements of a sequence with one more at its end. *)
LEMMA RangeAppend ==
  ASSUME NEW S, NEW s \in Seq(S), NEW x \in S
  PROVE  Append(s, x) \in Seq(S) /\ Range(Append(s, x)) = Range(s) \cup {x}
  <1>1. Append(s, x) = s \o <<x>> /\ <<x>> \in Seq(S)
    BY AppendIsConcat
  <1>2. Range(s \o <<x>>) = Range(s) \cup Range(<<x>>)
    BY <1>1, RangeConcatenation, SMTT(30)
  <1>3. Append(s, x) \in Seq(S)
    OBVIOUS
  <1>4. QED
    BY <1>1, <1>2, <1>3, RangeOne, Zenon

(* The elements of a sequence whose first one is taken off. *)
LEMMA RangeTail ==
  ASSUME NEW S, NEW s \in Seq(S), s # << >>
  PROVE  /\ Head(s) \in S /\ Tail(s) \in Seq(S)
         /\ Range(s) = {Head(s)} \cup Range(Tail(s))
  <1>1. Head(s) \in S /\ Tail(s) \in Seq(S) /\ <<Head(s)>> \in Seq(S)
    OBVIOUS
  <1>2. s = <<Head(s)>> \o Tail(s)
    OBVIOUS
  <1>3. Range(<<Head(s)>> \o Tail(s)) = Range(<<Head(s)>>) \cup Range(Tail(s))
    BY <1>1, RangeConcatenation, ZenonT(60)
  <1>4. QED
    BY <1>1, <1>2, <1>3, RangeOne, Zenon

(* The elements of a sequence that is cut in two. *)
LEMMA RangeSplit ==
  ASSUME NEW S, NEW s \in Seq(S), NEW n \in 0..Len(s)
  PROVE  /\ SubSeq(s, 1, n) \in Seq(S) /\ SubSeq(s, n + 1, Len(s)) \in Seq(S)
         /\ Range(s) = Range(SubSeq(s, 1, n)) \cup Range(SubSeq(s, n + 1, Len(s)))
  <1>1. Len(s) \in Nat /\ n \in Nat /\ n <= Len(s)
    OBVIOUS
  <1>2. SubSeq(s, 1, n) \in Seq(S) /\ SubSeq(s, n + 1, Len(s)) \in Seq(S)
    BY <1>1
  <1>3. SubSeq(s, 1, n) \o SubSeq(s, n + 1, Len(s)) = s
    <2>1. 1 \in 1..(Len(s) + 1) /\ n \in (1 - 1)..Len(s) /\ Len(s) \in n..Len(s)
      BY <1>1
    <2>2. QED
      BY <2>1, ConcatAdjacentSubSeq, SubSeqFull
  <1>4. QED
    BY <1>2, <1>3, RangeConcatenation, ZenonT(60)

-----------------------------------------------------------------------------
(* The connection. *)

(* What a connection in each of its states is registered for. *)
LEMMA Registrations ==
  /\ \A out : /\ Listening(out) \in [Masks -> Callbacks]
              /\ Listening(out)["EPOLLIN"] = "do_read"
              /\ Listening(out)["EPOLLOUT"] = IF out # << >> THEN "do_write" ELSE "none"
  /\ Connecting \in [Masks -> Callbacks]
  /\ Connecting["EPOLLIN"] = "none" /\ Connecting["EPOLLOUT"] = "connection_succ"
  /\ NoEvents \in [Masks -> Callbacks]
  /\ NoEvents["EPOLLIN"] = "none" /\ NoEvents["EPOLLOUT"] = "none"
  BY DEF Listening, Connecting, NoEvents, AddIoEvent, Masks, Callbacks

(* A step of the connection keeps its types, and strands no output. *)
LEMMA ConnectionKeeps ==
  ASSUME ConnTypes, StrandedOnlyIfDead, ConnStep \/ LossStep
  PROVE  ConnTypes' /\ StrandedOnlyIfDead'
  <1> USE DEF ConnTypes, ConnTypeOK, StrandedOnlyIfDead
  <1>1. CASE ConnectCompletes
    BY <1>1 DEF ConnectCompletes
  <1>2. CASE ConnectRefused
    BY <1>2 DEF ConnectRefused
  <1>3. CASE ConnectionLost
    BY <1>3 DEF ConnectionLost
  <1>4. CASE ConnectionSucc
    <2>1. /\ UNCHANGED <<obuf, torn, split, net, inbox, faults>>
          /\ \/ sock \in {"connected", "closed"} /\ io_ev' = Listening(obuf) /\ sock' = sock
             \/ sock = "failed" /\ io_ev' = NoEvents /\ sock' = "dead"
      BY <1>4 DEF ConnectionSucc
    <2>2. CASE io_ev' = Listening(obuf) /\ sock' = sock
      BY <2>1, <2>2, Registrations
    <2>3. CASE io_ev' = NoEvents /\ sock' = "dead"
      BY <2>1, <2>3, Registrations
    <2>4. QED
      BY <2>1, <2>2, <2>3
  <1>5. CASE DoWrite
    <2>1. PICK n \in 0..Len(obuf) :
            /\ obuf' = SubSeq(obuf, n + 1, Len(obuf))
            /\ net' = net \o SubSeq(obuf, 1, n)
            /\ \/ n > 0 /\ torn' = FALSE
               \/ "short" \in Allow /\ n < Len(obuf) /\ torn' = TRUE
      BY <1>5 DEF DoWrite
    <2>2. obuf' \in Seq(Mods) /\ net' \in Seq(Mods)
      BY <2>1, RangeSplit, ConcatProperties
    <2>3. QED
      BY <1>5, <2>1, <2>2 DEF DoWrite, DelIoEvent, Masks, Callbacks, Writable
  <1>6. CASE DoWriteInVain
    <2>1. /\ obuf' = << >> /\ torn' = FALSE
          /\ io_ev' = [io_ev EXCEPT !["EPOLLOUT"] = "none"]
          /\ UNCHANGED <<sock, split, net, inbox, faults>>
      BY <1>6 DEF DoWriteInVain, DelIoEvent
    <2>2. obuf' \in Seq(Mods)
      BY <2>1
    <2>3. torn' \in BOOLEAN
      BY <2>1
    <2>4. QED
      BY <2>1, <2>2, <2>3 DEF Masks, Callbacks
  <1>7. CASE CleanConn
    <2>1. net' = << >> /\ inbox' = << >> /\ obuf' = obuf /\ faults' = faults
      BY <1>7 DEF CleanConn, DoConnect
    <2>2. torn' = torn /\ split' = torn
      BY <1>7 DEF CleanConn
    <2>3. \/ sock' = "connected" /\ io_ev' = Listening(obuf)
          \/ sock' = "connecting" /\ io_ev' = Connecting
          \/ sock' = "exited" /\ io_ev' = NoEvents
      BY <1>7 DEF CleanConn, DoConnect
    <2>4. net' \in Seq(Mods) /\ inbox' \in Seq(Message)
      BY <2>1
    <2>5. torn' \in BOOLEAN /\ split' \in BOOLEAN
      BY <2>2
    <2>6. CASE sock' = "connected" /\ io_ev' = Listening(obuf)
      BY <2>1, <2>4, <2>5, <2>6, Registrations
    <2>7. CASE sock' = "connecting" /\ io_ev' = Connecting
      BY <2>1, <2>4, <2>5, <2>7, Registrations
    <2>8. CASE sock' = "exited" /\ io_ev' = NoEvents
      BY <2>1, <2>4, <2>5, <2>8, Registrations
    <2>9. QED
      BY <2>3, <2>6, <2>7, <2>8
  <1>8. QED
    BY <1>1, <1>2, <1>3, <1>4, <1>5, <1>6, <1>7
    DEF ConnStep, LossStep, DoWriteError, DoReadClosed

(* So do the steps of the threads and of the service around it. *)
LEMMA ExchangeKeeps ==
  ASSUME ConnTypes, StrandedOnlyIfDead, NEW r \in Message, Exchange(<<r>>)
  PROVE  ConnTypes' /\ StrandedOnlyIfDead'
  <1>1. net' \in Seq(Mods) /\ inbox' \in Seq(Message)
    BY DEF Exchange, ConnTypes
  <1>2. QED
    BY <1>1 DEF Exchange, ConnTypes, ConnTypeOK, StrandedOnlyIfDead

(* A send_message that finds the buffer empty arms EPOLLOUT. *)
LEMMA SendKeeps ==
  ASSUME ConnTypes, StrandedOnlyIfDead, NEW q \in Seq(Mods), SendMessages(q)
  PROVE  ConnTypes' /\ StrandedOnlyIfDead'
  <1>1. obuf' \in Seq(Mods)
    BY DEF SendMessages, ConnTypes
  <1>2. obuf = << >> /\ q = << >> => obuf' = << >>
    BY DEF SendMessages
  <1>3. QED
    BY <1>1, <1>2
    DEF SendMessages, AddIoEvent, Masks, Callbacks, ConnTypes, ConnTypeOK,
        StrandedOnlyIfDead

(* A message that is read leaves the rest of the inbox. *)
LEMMA ReadKeeps ==
  ASSUME ConnTypes, StrandedOnlyIfDead, DoRead
  PROVE  ConnTypes' /\ StrandedOnlyIfDead'
  BY DEF DoRead, ConnTypes, ConnTypeOK, StrandedOnlyIfDead

-----------------------------------------------------------------------------
(* The agent. *)

(* A step that has nothing to do with the connection. *)
LEMMA SameConnection ==
  ASSUME ConnTypes, StrandedOnlyIfDead, UNCHANGED connVars
  PROVE  ConnTypes' /\ StrandedOnlyIfDead'
  BY DEF connVars, ConnTypes, ConnTypeOK, StrandedOnlyIfDead

(* What is on the connection is about mods. *)
LEMMA OnTheWayMods ==
  ASSUME ConnTypes
  PROVE  OnTheWay \subseteq Mods
  <1>1. /\ Range(obuf) \subseteq Mods
        /\ Range(net) \subseteq Mods
        /\ Range(inbox) \subseteq Message
    BY RangeOfSeq DEF ConnTypes
  <1>2. {r.mod : r \in Range(inbox)} \subseteq Mods
    BY <1>1 DEF Message
  <1>3. QED
    BY <1>1, <1>2 DEF OnTheWay

(* No step gives a variable a value of another type, or strands output. *)
LEMMA TypesStep ==
  ASSUME Types, StrandedOnlyIfDead, Next
  PROVE  Types' /\ StrandedOnlyIfDead'
  <1> USE DEF connVars, agentVars, envVars
  <1>1. ASSUME CreateReportQueue PROVE Types' /\ StrandedOnlyIfDead'
    BY <1>1, ZenonT(60)
    DEF CreateReportQueue, Types, TypeOK, LbTypes, ConnTypes, ConnTypeOK,
        StrandedOnlyIfDead
  <1>2. ASSUME CreateDnsQueue PROVE Types' /\ StrandedOnlyIfDead'
    BY <1>2, ZenonT(60)
    DEF CreateDnsQueue, Types, TypeOK, LbTypes, ConnTypes, ConnTypeOK,
        StrandedOnlyIfDead
  <1>3. ASSUME NEW m \in Mods, GetHostNew(m) PROVE Types' /\ StrandedOnlyIfDead'
    <2>1. lb' = [lb EXCEPT ![m] = [status |-> "PULLING", hosts |-> {}]]
      BY <1>3 DEF GetHostNew
    <2>2. dns_queue' \in Seq(Mods)
      <3>1. CASE dns_queue' = Append(dns_queue, m)
        BY <3>1, RangeAppend DEF Types
      <3>2. CASE dns_queue' = dns_queue
        BY <3>2 DEF Types
      <3>3. QED
        BY <1>3, <3>1, <3>2 DEF GetHostNew
    <2>3. LbTypes'
      BY <2>1 DEF Types, LbTypes
    <2>4. QED
      <3>1. ConnTypes' /\ StrandedOnlyIfDead'
        BY <1>3, SameConnection DEF GetHostNew, Types
      <3>2. fault' \in {"none", "dns_queue is NULL"}
        BY <1>3 DEF GetHostNew, Types, TypeOK
      <3>3. reply' \in {"none", "RET_SUCC", "RET_OVERLOAD", "RET_NOEXIST"}
        BY <1>3 DEF GetHostNew, Types, TypeOK
      <3>4. UNCHANGED <<main, route, subs, changes, dropped>>
        BY <1>3 DEF GetHostNew
      <3>5. QED
        BY <2>2, <2>3, <3>1, <3>2, <3>3, <3>4 DEF Types, TypeOK, ConnTypes, LbTypes
  <1>4. ASSUME NEW m \in Mods, GetHostPulling(m) PROVE Types' /\ StrandedOnlyIfDead'
    BY <1>4, ZenonT(60)
    DEF GetHostPulling, Types, TypeOK, LbTypes, ConnTypes, ConnTypeOK,
        StrandedOnlyIfDead
  <1>5. ASSUME NEW m \in Mods, GetHostChoice(m) PROVE Types' /\ StrandedOnlyIfDead'
    <2>1. ConnTypes' /\ StrandedOnlyIfDead'
      BY <1>5, SameConnection DEF GetHostChoice, Types
    <2>2. reply' \in {"none", "RET_SUCC", "RET_OVERLOAD", "RET_NOEXIST"}
      BY <1>5 DEF GetHostChoice
    <2>3. QED
      BY <1>5, <2>1, <2>2 DEF GetHostChoice, Types, TypeOK, LbTypes, ConnTypes
  <1>6. ASSUME NewDnsRequest PROVE Types' /\ StrandedOnlyIfDead'
    <2>1. ConnTypes' /\ StrandedOnlyIfDead'
      BY <1>6, SendKeeps DEF NewDnsRequest, Types
    <2>2. dns_queue' = << >> /\ dns_queue' \in Seq(Mods)
      BY <1>6 DEF NewDnsRequest
    <2>3. dropped' \subseteq Mods
      BY <1>6, RangeOfSeq DEF NewDnsRequest, Types, TypeOK
    <2>4. QED
      BY <1>6, <2>1, <2>2, <2>3 DEF NewDnsRequest, Types, TypeOK, ConnTypes, LbTypes
  <1>7. ASSUME DealRecvRoute PROVE Types' /\ StrandedOnlyIfDead'
    <2>1. ConnTypes' /\ StrandedOnlyIfDead'
      BY <1>7, ReadKeeps DEF DealRecvRoute, Types
    <2>2. Head(inbox) \in Message
      BY <1>7 DEF DealRecvRoute, DoRead, Types, ConnTypes
    <2>3. LbTypes'
      <3>1. Head(inbox).mod \in Mods /\ Head(inbox).hosts \subseteq Hosts
        BY <2>2 DEF Message
      <3>2. UpdateHost(Head(inbox).mod, Head(inbox).hosts)
        BY <1>7 DEF DealRecvRoute
      <3>3. QED
        BY <3>1, <3>2, ZenonT(60) DEF UpdateHost, Types, LbTypes, Has, Absent
    <2>4. QED
      BY <1>7, <2>1, <2>3 DEF DealRecvRoute, Types, TypeOK, ConnTypes, LbTypes
  <1>8. ASSUME Connection PROVE Types' /\ StrandedOnlyIfDead'
    <2>1. ConnTypes' /\ StrandedOnlyIfDead'
      BY <1>8, ConnectionKeeps DEF Connection, Types
    <2>2. OnTheWay \subseteq Mods
      BY OnTheWayMods DEF Types
    <2>3. QED
      BY <1>8, <2>1, <2>2 DEF Connection, Types, TypeOK, ConnTypes, LbTypes
  <1>9. ASSUME DnsAnswers PROVE Types' /\ StrandedOnlyIfDead'
    <2>1. Head(net) \in Mods
      BY <1>9 DEF DnsAnswers, Types, ConnTypes
    <2>2. Response(Head(net)) \in Message
      BY <2>1 DEF Response, Message, Types
    <2>3. ConnTypes' /\ StrandedOnlyIfDead'
      BY <1>9, <2>2, ExchangeKeeps DEF DnsAnswers, Types
    <2>4. QED
      BY <1>9, <2>1, <2>3 DEF DnsAnswers, Types, TypeOK, ConnTypes, LbTypes
  <1>10. ASSUME NEW m \in Mods, NEW hosts \in SUBSET Hosts,
                RouteChanges(m, hosts)
         PROVE  Types' /\ StrandedOnlyIfDead'
    <2>1. [mod |-> m, hosts |-> hosts] \in Message
      BY DEF Message
    <2>2. inbox' \in Seq(Message)
      BY <1>10, <2>1 DEF RouteChanges, Types, ConnTypes
    <2>3. QED
      <3>1. ConnTypes' /\ StrandedOnlyIfDead'
        BY <1>10, <2>2
        DEF RouteChanges, Types, ConnTypes, ConnTypeOK, StrandedOnlyIfDead
      <3>2. route' \in [Mods -> SUBSET Hosts] /\ changes' \in Nat
        BY <1>10 DEF RouteChanges, Types
      <3>3. UNCHANGED <<main, lb, dns_queue, fault, subs, reply, dropped>>
        BY <1>10 DEF RouteChanges
      <3>4. QED
        BY <3>1, <3>2, <3>3 DEF Types, TypeOK, LbTypes, ConnTypes
  <1>11. QED
    BY <1>1, <1>2, <1>3, <1>4, <1>5, <1>6, <1>7, <1>8, <1>9, <1>10
    DEF Next, GetHost, ClientThread

(* A step of the kernel or of do_write takes nothing off its way. *)
LEMMA OnTheWayKept ==
  ASSUME ConnTypes, ConnStep
  PROVE  OnTheWay \subseteq OnTheWay'
  <1>1. CASE DoWrite
    <2>1. PICK n \in 0..Len(obuf) :
            obuf' = SubSeq(obuf, n + 1, Len(obuf)) /\ net' = net \o SubSeq(obuf, 1, n)
      BY <1>1 DEF DoWrite
    <2>2. obuf \in Seq(Mods) /\ net \in Seq(Mods)
      BY DEF ConnTypes
    <2>3. /\ SubSeq(obuf, 1, n) \in Seq(Mods)
          /\ Range(obuf) = Range(SubSeq(obuf, 1, n)) \cup Range(obuf')
      BY <2>1, <2>2, RangeSplit
    <2>4. Range(net') = Range(net) \cup Range(SubSeq(obuf, 1, n))
      <3>1. \A a, b \in Seq(Mods) : Range(a \o b) = Range(a) \cup Range(b)
        BY RangeConcatenation
      <3>2. Range(net \o SubSeq(obuf, 1, n)) = Range(net) \cup Range(SubSeq(obuf, 1, n))
        BY <2>2, <2>3, <3>1, Zenon
      <3>3. QED
        BY <2>1, <3>2
    <2>5. UNCHANGED <<split, inbox>>
      BY <1>1 DEF DoWrite
    <2>6. QED
      BY <2>3, <2>4, <2>5 DEF OnTheWay
  <1>2. CASE ConnectCompletes \/ ConnectRefused \/ ConnectionSucc
    BY <1>2 DEF ConnectCompletes, ConnectRefused, ConnectionSucc, OnTheWay
  <1>3. QED
    BY <1>1, <1>2 DEF ConnStep

(* No step but the loss of a connection loses a request or its answer. *)
LEMMA WaitingStep ==
  ASSUME Types, WaitingOnlyIfDropped, Next
  PROVE  WaitingOnlyIfDropped'
  <1> USE DEF connVars, agentVars, envVars
  <1>1. ASSUME CreateReportQueue PROVE WaitingOnlyIfDropped'
    <2>1. UNCHANGED <<dns_queue, obuf, net, inbox, split, dropped, lb>> /\ Alive
      BY <1>1 DEF CreateReportQueue
    <2>2. QED
      BY <2>1 DEF WaitingOnlyIfDropped, InFlight, OnTheWay, Has
  <1>2. ASSUME CreateDnsQueue PROVE WaitingOnlyIfDropped'
    <2>1. UNCHANGED <<dns_queue, obuf, net, inbox, split, dropped, lb>> /\ Alive
      BY <1>2 DEF CreateDnsQueue
    <2>2. QED
      BY <2>1 DEF WaitingOnlyIfDropped, InFlight, OnTheWay, Has
  <1>3. ASSUME NEW n \in Mods, GetHostNew(n) PROVE WaitingOnlyIfDropped'
    <2> SUFFICES ASSUME NEW m \in Mods, Alive', Has(m)', lb'[m].hosts = {}
                 PROVE  InFlight(m)' \/ m \in dropped'
      BY DEF WaitingOnlyIfDropped
    <2>1. UNCHANGED <<obuf, net, inbox, split, dropped>> /\ Alive
      BY <1>3 DEF GetHostNew
    <2>2. dns_queue' = Append(dns_queue, n)
      BY <1>3 DEF GetHostNew, Alive
    <2>3. Range(dns_queue') = Range(dns_queue) \cup {n}
      BY <2>2, RangeAppend DEF Types
    <2>4. CASE m = n
      BY <2>3, <2>4 DEF InFlight
    <2>5. CASE m # n
      <3>1. lb'[m] = lb[m]
        BY <1>3, <2>5 DEF GetHostNew, Types, LbTypes
      <3>2. InFlight(m) \/ m \in dropped
        BY <2>1, <3>1 DEF WaitingOnlyIfDropped, Has
      <3>3. QED
        BY <2>1, <2>3, <3>2 DEF InFlight, OnTheWay
    <2>6. QED
      BY <2>4, <2>5
  <1>4. ASSUME NEW n \in Mods, GetHostPulling(n) PROVE WaitingOnlyIfDropped'
    <2>1. UNCHANGED <<dns_queue, obuf, net, inbox, split, dropped, lb>> /\ Alive
      BY <1>4 DEF GetHostPulling
    <2>2. QED
      BY <2>1 DEF WaitingOnlyIfDropped, InFlight, OnTheWay, Has
  <1>5. ASSUME NEW n \in Mods, GetHostChoice(n) PROVE WaitingOnlyIfDropped'
    <2>1. UNCHANGED <<dns_queue, obuf, net, inbox, split, dropped, lb>> /\ Alive
      BY <1>5 DEF GetHostChoice
    <2>2. QED
      BY <2>1 DEF WaitingOnlyIfDropped, InFlight, OnTheWay, Has
  <1>6. ASSUME NewDnsRequest PROVE WaitingOnlyIfDropped'
    <2>1. UNCHANGED <<net, inbox, split, lb>> /\ Alive
      BY <1>6 DEF NewDnsRequest, SendMessages
    <2>2. Range(obuf') = Range(obuf) \cup Range(dns_queue)
      BY <1>6, RangeConcatenation DEF NewDnsRequest, SendMessages, Types, ConnTypes
    <2>3. dropped \subseteq dropped' /\ (split => Range(dns_queue) \subseteq dropped')
      BY <1>6 DEF NewDnsRequest
    <2>4. ~split => OnTheWay' = OnTheWay \cup Range(dns_queue)
      BY <2>1, <2>2 DEF OnTheWay
    <2>5. split => OnTheWay' = OnTheWay
      BY <2>1 DEF OnTheWay
    <2>6. QED
      BY <2>1, <2>3, <2>4, <2>5 DEF WaitingOnlyIfDropped, InFlight, Has
  <1>7. ASSUME DealRecvRoute PROVE WaitingOnlyIfDropped'
    <2>0. PICK r \in Message : r = Head(inbox)
      BY <1>7 DEF DealRecvRoute, DoRead, Types, ConnTypes
    <2>1. UNCHANGED <<dns_queue, obuf, net, split, dropped>> /\ Alive
      BY <1>7 DEF DealRecvRoute, DoRead
    <2>2. Range(inbox) = {r} \cup Range(inbox')
      BY <1>7, <2>0, RangeTail DEF DealRecvRoute, DoRead, Types, ConnTypes
    <2>3. OnTheWay \subseteq OnTheWay' \cup {r.mod}
      BY <2>1, <2>2 DEF OnTheWay
    <2>4. UpdateHost(r.mod, r.hosts) /\ r.mod \in Mods
      BY <1>7, <2>0 DEF DealRecvRoute, Message
    <2>5. \A m \in Mods : m # r.mod => lb'[m] = lb[m]
      BY <2>4 DEF UpdateHost, Types, LbTypes
    <2>6. ~(Has(r.mod)' /\ lb'[r.mod].hosts = {})
      <3>1. CASE ~Has(r.mod)
        BY <2>4, <3>1 DEF UpdateHost, Has
      <3>2. CASE Has(r.mod) /\ r.hosts = {}
        <4>1. lb' = [lb EXCEPT ![r.mod] = Absent]
          BY <2>4, <3>2 DEF UpdateHost
        <4>2. QED
          BY <2>4, <4>1 DEF Types, LbTypes, Has
      <3>3. CASE Has(r.mod) /\ r.hosts # {}
        <4>1. lb' = [lb EXCEPT ![r.mod].hosts = @ \cup r.hosts]
          BY <2>4, <3>3 DEF UpdateHost
        <4>2. lb'[r.mod].hosts = lb[r.mod].hosts \cup r.hosts
          BY <2>4, <4>1 DEF Types, LbTypes
        <4>3. QED
          BY <3>3, <4>2
      <3>4. QED
        BY <3>1, <3>2, <3>3
    <2>7. QED
      BY <2>1, <2>3, <2>4, <2>5, <2>6 DEF WaitingOnlyIfDropped, InFlight, Has
  <1>8. ASSUME Connection PROVE WaitingOnlyIfDropped'
    <2>1. UNCHANGED <<dns_queue, lb>> /\ Alive
      BY <1>8 DEF Connection
    <2>2. CASE ConnStep /\ dropped' = dropped
      BY <2>1, <2>2, OnTheWayKept DEF Types, WaitingOnlyIfDropped, InFlight, Has
    <2>3. CASE dropped' = dropped \cup (OnTheWay \ OnTheWay')
      BY <2>1, <2>3 DEF WaitingOnlyIfDropped, InFlight, Has
    <2>4. QED
      BY <1>8, <2>2, <2>3 DEF Connection
  <1>9. ASSUME DnsAnswers PROVE WaitingOnlyIfDropped'
    <2> DEFINE h == Head(net)
    <2>1. UNCHANGED <<dns_queue, lb, obuf, split, dropped>> /\ Alive
      BY <1>9 DEF DnsAnswers, Exchange
    <2>2. net # << >> /\ net' = Tail(net) /\ inbox' = inbox \o <<Response(h)>> /\ ~split
      BY <1>9 DEF DnsAnswers, Exchange
    <2>3. Range(net) = {h} \cup Range(net') /\ h \in Mods
      BY <2>2, RangeTail DEF Types, ConnTypes
    <2>4. Response(h) \in Message /\ Response(h).mod = h
      BY <2>3 DEF Response, Message, Types
    <2>5. Range(inbox') = Range(inbox) \cup {Response(h)}
      <3>1. inbox' = Append(inbox, Response(h))
        BY <2>2, <2>4 DEF Types, ConnTypes
      <3>2. QED
        BY <2>4, <3>1, RangeAppend DEF Types, ConnTypes
    <2>6. OnTheWay \subseteq OnTheWay'
      BY <2>1, <2>2, <2>3, <2>4, <2>5 DEF OnTheWay
    <2>7. QED
      BY <2>1, <2>6 DEF WaitingOnlyIfDropped, InFlight, Has
  <1>10. ASSUME NEW n \in Mods, NEW hosts \in SUBSET Hosts,
                RouteChanges(n, hosts)
         PROVE  WaitingOnlyIfDropped'
    <2> DEFINE r == [mod |-> n, hosts |-> hosts]
    <2>1. UNCHANGED <<dns_queue, lb, obuf, net, split, dropped>> /\ Alive
      BY <1>10 DEF RouteChanges
    <2>2. r \in Message
      BY DEF Message
    <2>3. Range(inbox) \subseteq Range(inbox')
      <3>1. CASE inbox' = inbox
        BY <3>1
      <3>2. CASE inbox' = Append(inbox, r)
        BY <2>2, <3>2, RangeAppend DEF Types, ConnTypes
      <3>3. QED
        BY <1>10, <3>1, <3>2 DEF RouteChanges
    <2>4. QED
      BY <2>1, <2>3 DEF OnTheWay, WaitingOnlyIfDropped, InFlight, Has
  <1>11. QED
    BY <1>1, <1>2, <1>3, <1>4, <1>5, <1>6, <1>7, <1>8, <1>9, <1>10
    DEF Next, GetHost, ClientThread

(* The connection stays up, or it takes its subscriptions along. *)
LEMMA ConnectionSubs ==
  ASSUME Types, Connection
  PROVE  \/ subs' = {}
         \/ (sock = "connected" /\ sock' = "connected" /\ subs' = subs /\ inbox' = inbox)
  <1>1. CASE sock = "connected" /\ sock' = "connected"
    <2>1. ~LossStep
      BY <1>1
      DEF LossStep, ConnectionLost, DoWriteInVain, DoWriteError, DoReadClosed,
          Readable
    <2>2. ConnStep
      BY <2>1 DEF Connection
    <2>3. inbox' = inbox
      BY <2>2 DEF ConnStep, ConnectCompletes, ConnectRefused, ConnectionSucc, DoWrite
    <2>4. QED
      BY <1>1, <2>3 DEF Connection
  <1>2. CASE ~(sock = "connected" /\ sock' = "connected")
    BY <1>2 DEF Connection
  <1>3. QED
    BY <1>1, <1>2

(* A subscription lasts no longer than its connection. *)
LEMMA SubsConnectedStep ==
  ASSUME Types, SubsConnected, Next
  PROVE  SubsConnected'
  <1> USE DEF connVars, agentVars, envVars
  <1>1. ASSUME CreateReportQueue PROVE SubsConnected'
    BY <1>1 DEF CreateReportQueue, SubsConnected
  <1>2. ASSUME CreateDnsQueue PROVE SubsConnected'
    BY <1>2 DEF CreateDnsQueue, SubsConnected
  <1>3. ASSUME NEW n \in Mods, GetHostNew(n) PROVE SubsConnected'
    BY <1>3 DEF GetHostNew, SubsConnected
  <1>4. ASSUME NEW n \in Mods, GetHostPulling(n) PROVE SubsConnected'
    BY <1>4 DEF GetHostPulling, SubsConnected
  <1>5. ASSUME NEW n \in Mods, GetHostChoice(n) PROVE SubsConnected'
    BY <1>5 DEF GetHostChoice, SubsConnected
  <1>6. ASSUME NewDnsRequest PROVE SubsConnected'
    BY <1>6 DEF NewDnsRequest, SendMessages, SubsConnected
  <1>7. ASSUME DealRecvRoute PROVE SubsConnected'
    BY <1>7 DEF DealRecvRoute, DoRead, SubsConnected
  <1>8. ASSUME Connection PROVE SubsConnected'
    BY <1>8, ConnectionSubs DEF SubsConnected
  <1>9. ASSUME DnsAnswers PROVE SubsConnected'
    BY <1>9 DEF DnsAnswers, Exchange, SubsConnected
  <1>10. ASSUME NEW n \in Mods, NEW hosts \in SUBSET Hosts,
                RouteChanges(n, hosts)
         PROVE  SubsConnected'
    BY <1>10 DEF RouteChanges, SubsConnected
  <1>11. QED
    BY <1>1, <1>2, <1>3, <1>4, <1>5, <1>6, <1>7, <1>8, <1>9, <1>10
    DEF Next, GetHost, ClientThread

(* What a further message does to the last word on a mod. *)
LEMMA BoxAppend ==
  ASSUME NEW box \in Seq(Message), NEW r \in Message, NEW m, NEW hosts
  PROVE  /\ r.mod = m => LastSays(Append(box, r), m, r.hosts)
         /\ r.mod # m /\ LastSays(box, m, hosts) => LastSays(Append(box, r), m, hosts)
         /\ r.mod # m /\ Silent(box, m) => Silent(Append(box, r), m)
  <1> DEFINE all == Append(box, r)
             k == Len(box) + 1
  <1>1. /\ Len(all) = k /\ Len(box) \in Nat
        /\ \A i \in 1..Len(box) : all[i] = box[i]
        /\ all[k] = r
    OBVIOUS
  <1>2. \A i \in 1..k : i \in 1..Len(box) \/ i = k
    BY <1>1
  <1>3. k \in 1..k /\ (\A j \in 1..k : ~(j > k)) /\ 1..Len(box) \subseteq 1..k
    BY <1>1
  <1> HIDE DEF all, k
  <1>4. ASSUME r.mod = m PROVE LastSays(all, m, r.hosts)
    BY <1>1, <1>3, <1>4 DEF LastSays
  <1>5. ASSUME r.mod # m, LastSays(box, m, hosts) PROVE LastSays(all, m, hosts)
    BY <1>1, <1>2, <1>3, <1>5 DEF LastSays
  <1>6. ASSUME r.mod # m, Silent(box, m) PROVE Silent(all, m)
    BY <1>1, <1>2, <1>6 DEF Silent
  <1>7. QED
    BY <1>4, <1>5, <1>6 DEF all

(* What reading the first message does to the last word on a mod. *)
LEMMA BoxTail ==
  ASSUME NEW box \in Seq(Message), box # << >>, NEW m, NEW hosts
  PROVE  /\ Silent(box, m) => Silent(Tail(box), m) /\ Head(box).mod # m
         /\ LastSays(box, m, hosts) =>
               \/ LastSays(Tail(box), m, hosts)
               \/ /\ Head(box).mod = m /\ Head(box).hosts = hosts
                  /\ Silent(Tail(box), m)
  <1> DEFINE rest == Tail(box)
  <1>1. /\ Len(box) \in Nat \ {0} /\ Len(rest) = Len(box) - 1 /\ Head(box) = box[1]
        /\ \A i \in 1..Len(rest) : rest[i] = box[i + 1]
    OBVIOUS
  <1>2. 1 \in 1..Len(box) /\ \A i \in 1..Len(rest) : i + 1 \in 1..Len(box) /\ i + 1 > 1
    BY <1>1
  <1> HIDE DEF rest
  <1>3. ASSUME Silent(box, m) PROVE Silent(rest, m) /\ Head(box).mod # m
    BY <1>1, <1>2, <1>3 DEF Silent
  <1>4. ASSUME NEW i \in 1..Len(box), box[i].mod = m, box[i].hosts = hosts,
               \A j \in 1..Len(box) : j > i => box[j].mod # m
        PROVE  \/ LastSays(rest, m, hosts)
               \/ Head(box).mod = m /\ Head(box).hosts = hosts /\ Silent(rest, m)
    <2>1. CASE i = 1
      BY <1>1, <1>2, <1>4, <2>1 DEF Silent
    <2>2. CASE i # 1
      <3>1. i - 1 \in 1..Len(rest) /\ (i - 1) + 1 = i
        BY <1>1, <2>2
      <3>2. rest[i - 1] = box[i]
        BY <1>1, <3>1
      <3>3. ASSUME NEW j \in 1..Len(rest), j > i - 1 PROVE rest[j].mod # m
        <4>1. j + 1 > i
          BY <3>3, <1>1
        <4>2. QED
          BY <1>1, <1>2, <1>4, <4>1
      <3>4. QED
        BY <1>4, <3>1, <3>2, <3>3 DEF LastSays
    <2>3. QED
      BY <2>1, <2>2
  <1>5. QED
    BY <1>3, <1>4 DEF LastSays, rest

(* The last word on a subscribed mod is, or will be, the current route. *)
LEMMA UpToDateStep ==
  ASSUME Types, SubsConnected, NEW m \in Mods, UpToDate(m), Next
  PROVE  UpToDate(m)'
  <1> USE DEF connVars, agentVars, envVars
  <1>1. ASSUME CreateReportQueue PROVE UpToDate(m)'
    <2>1. UNCHANGED <<inbox, route, subs, lb>>
      BY <1>1 DEF CreateReportQueue
    <2>2. QED
      BY <2>1 DEF UpToDate
  <1>2. ASSUME CreateDnsQueue PROVE UpToDate(m)'
    <2>1. UNCHANGED <<inbox, route, subs, lb>>
      BY <1>2 DEF CreateDnsQueue
    <2>2. QED
      BY <2>1 DEF UpToDate
  <1>3. ASSUME NEW n \in Mods, GetHostNew(n) PROVE UpToDate(m)'
    <2>1. UNCHANGED <<inbox, route, subs>>
      BY <1>3 DEF GetHostNew
    <2>2. lb'[m] = lb[m] \/ lb'[m].hosts = {}
      BY <1>3 DEF GetHostNew, Types, LbTypes
    <2>3. QED
      BY <2>1, <2>2 DEF UpToDate
  <1>4. ASSUME NEW n \in Mods, GetHostPulling(n) PROVE UpToDate(m)'
    <2>1. UNCHANGED <<inbox, route, subs, lb>>
      BY <1>4 DEF GetHostPulling
    <2>2. QED
      BY <2>1 DEF UpToDate
  <1>5. ASSUME NEW n \in Mods, GetHostChoice(n) PROVE UpToDate(m)'
    <2>1. UNCHANGED <<inbox, route, subs, lb>>
      BY <1>5 DEF GetHostChoice
    <2>2. QED
      BY <2>1 DEF UpToDate
  <1>6. ASSUME NewDnsRequest PROVE UpToDate(m)'
    <2>1. UNCHANGED <<inbox, route, subs, lb>>
      BY <1>6 DEF NewDnsRequest, SendMessages
    <2>2. QED
      BY <2>1 DEF UpToDate
  <1>7. ASSUME DealRecvRoute PROVE UpToDate(m)'
    <2>0. PICK r \in Message : r = Head(inbox)
      BY <1>7 DEF DealRecvRoute, DoRead, Types, ConnTypes
    <2>1. UNCHANGED <<route, subs>>
      BY <1>7 DEF DealRecvRoute
    <2>2. inbox # << >> /\ inbox' = Tail(inbox) /\ inbox \in Seq(Message)
      BY <1>7 DEF DealRecvRoute, DoRead, Types, ConnTypes
    <2>3. UpdateHost(r.mod, r.hosts) /\ r.mod \in Mods /\ r.hosts \subseteq Hosts
      BY <1>7, <2>0 DEF DealRecvRoute, Message
    <2>4. /\ Silent(inbox, m) => Silent(inbox', m) /\ r.mod # m
          /\ LastSays(inbox, m, route[m]) =>
                \/ LastSays(inbox', m, route[m])
                \/ r.mod = m /\ r.hosts = route[m] /\ Silent(inbox', m)
      BY <2>0, <2>2, BoxTail
    <2>5. CASE r.mod # m
      <3>1. lb'[m] = lb[m]
        BY <2>3, <2>5 DEF UpdateHost, Types, LbTypes
      <3>2. QED
        BY <2>1, <2>4, <2>5, <3>1 DEF UpToDate
    <2>6. CASE r.mod = m
      <3>1. lb'[m].hosts # {} => r.hosts # {} /\ r.hosts \subseteq lb'[m].hosts
        <4>1. CASE ~Has(m)
          BY <2>3, <2>6, <4>1 DEF UpdateHost, Has, Absent
        <4>2. CASE Has(m) /\ r.hosts = {}
          <5>1. lb' = [lb EXCEPT ![m] = Absent]
            BY <2>3, <2>6, <4>2 DEF UpdateHost
          <5>2. QED
            BY <5>1 DEF Types, LbTypes, Absent
        <4>3. CASE Has(m) /\ r.hosts # {}
          <5>1. lb' = [lb EXCEPT ![m].hosts = @ \cup r.hosts]
            BY <2>3, <2>6, <4>3 DEF UpdateHost
          <5>2. lb'[m].hosts = lb[m].hosts \cup r.hosts
            BY <5>1 DEF Types, LbTypes
          <5>3. QED
            BY <4>3, <5>2
        <4>4. QED
          BY <4>1, <4>2, <4>3
      <3>2. QED
        BY <2>1, <2>4, <2>6, <3>1 DEF UpToDate
    <2>7. QED
      BY <2>5, <2>6
  <1>8. ASSUME Connection PROVE UpToDate(m)'
    <2>1. UNCHANGED <<route, lb>>
      BY <1>8 DEF Connection
    <2>2. subs' = {} \/ (subs' = subs /\ inbox' = inbox)
      BY <1>8, ConnectionSubs
    <2>3. QED
      BY <2>1, <2>2 DEF UpToDate
  <1>9. ASSUME DnsAnswers PROVE UpToDate(m)'
    <2>0. PICK n \in Mods : n = Head(net)
      BY <1>9 DEF DnsAnswers, Types, ConnTypes
    <2>1. UNCHANGED <<route, lb>> /\ subs' = subs \cup {n}
      BY <1>9, <2>0 DEF DnsAnswers
    <2>2. PICK r \in Message : r = Response(n) /\ r.mod = n /\ r.hosts = route[n]
      <3>1. /\ Response(n) \in Message
            /\ Response(n).mod = n /\ Response(n).hosts = route[n]
        BY DEF Response, Message, Types
      <3>2. QED
        BY <3>1
    <2>3. inbox' = Append(inbox, r) /\ inbox \in Seq(Message)
      BY <1>9, <2>0, <2>2 DEF DnsAnswers, Exchange, Types, ConnTypes
    <2>4. CASE m = n
      BY <2>1, <2>2, <2>3, <2>4, BoxAppend DEF UpToDate
    <2>5. CASE m # n
      BY <2>1, <2>2, <2>3, <2>5, BoxAppend DEF UpToDate
    <2>6. QED
      BY <2>4, <2>5
  <1>10. ASSUME NEW n \in Mods, NEW hosts \in SUBSET Hosts,
                RouteChanges(n, hosts)
         PROVE  UpToDate(m)'
    <2>1. UNCHANGED <<subs, lb>> /\ route' = [route EXCEPT ![n] = hosts]
      BY <1>10 DEF RouteChanges
    <2>2. PICK r \in Message :
            r = [mod |-> n, hosts |-> hosts] /\ r.mod = n /\ r.hosts = hosts
      <3>1. [mod |-> n, hosts |-> hosts] \in Message
        BY DEF Message
      <3>2. QED
        BY <3>1
    <2>3. inbox \in Seq(Message)
      BY DEF Types, ConnTypes
    <2>4. CASE n \in subs
      <3>1. inbox' = Append(inbox, r)
        BY <1>10, <2>2, <2>4 DEF RouteChanges, SubsConnected
      <3>2. CASE m = n
        BY <2>1, <2>2, <2>3, <3>1, <3>2, BoxAppend DEF UpToDate, Types
      <3>3. CASE m # n
        BY <2>1, <2>2, <2>3, <3>1, <3>3, BoxAppend DEF UpToDate, Types
      <3>4. QED
        BY <3>2, <3>3
    <2>5. CASE n \notin subs
      BY <1>10, <2>1, <2>5 DEF RouteChanges, UpToDate, Types
    <2>6. QED
      BY <2>4, <2>5
  <1>11. QED
    BY <1>1, <1>2, <1>3, <1>4, <1>5, <1>6, <1>7, <1>8, <1>9, <1>10
    DEF Next, GetHost, ClientThread

-----------------------------------------------------------------------------
(* An agent that has just started waits for nothing. *)
LEMMA InitIInv == Init => IInv
  <1> SUFFICES ASSUME Init
               PROVE  IInv
    OBVIOUS
  <1>1. obuf = << >> /\ net = << >> /\ inbox = << >> /\ dns_queue = << >>
    BY DEF Init, ConnInit
  <1>2. /\ obuf \in Seq(Mods)
        /\ net \in Seq(Mods)
        /\ inbox \in Seq(Message)
        /\ dns_queue \in Seq(Mods)
    BY <1>1
  <1>3. torn \in BOOLEAN /\ split \in BOOLEAN
    BY DEF Init, ConnInit
  <1>4. \/ sock = "connected" /\ io_ev = Listening(<< >>)
        \/ sock = "connecting" /\ io_ev = Connecting
        \/ sock = "exited" /\ io_ev = NoEvents
    BY DEF Init, ConnInit
  <1>5. faults = 0
    BY DEF Init, ConnInit
  <1>6. ConnTypes
    <2>1. CASE sock = "connected" /\ io_ev = Listening(<< >>)
      BY <1>2, <1>3, <1>5, <2>1, Registrations DEF ConnTypes, ConnTypeOK
    <2>2. CASE sock = "connecting" /\ io_ev = Connecting
      BY <1>2, <1>3, <1>5, <2>2, Registrations DEF ConnTypes, ConnTypeOK
    <2>3. CASE sock = "exited" /\ io_ev = NoEvents
      BY <1>2, <1>3, <1>5, <2>3, Registrations DEF ConnTypes, ConnTypeOK
    <2>4. QED
      BY <1>4, <2>1, <2>2, <2>3
  <1>7. LbTypes /\ \A m \in Mods : lb[m] = Absent
    BY DEF Init, LbTypes, Absent
  <1>8. Types
    BY <1>2, <1>6, <1>7 DEF Init, Types, TypeOK, ConnTypes
  <1>9. /\ StrandedOnlyIfDead
        /\ WaitingOnlyIfDropped
        /\ SubsConnected
        /\ \A m \in Mods : UpToDate(m)
    BY <1>1, <1>7
    DEF Init, StrandedOnlyIfDead, WaitingOnlyIfDropped, Has, SubsConnected, UpToDate
  <1>10. QED
    BY <1>8, <1>9 DEF IInv

(* No step of the agent's threads, the network or the service breaks the invariant. *)
LEMMA StepIInv == IInv /\ [Next]_vars => IInv'
  <1> SUFFICES ASSUME IInv, [Next]_vars
               PROVE  IInv'
    OBVIOUS
  <1>1. CASE Next
    BY <1>1, TypesStep, WaitingStep, SubsConnectedStep, UpToDateStep DEF IInv
  <1>2. CASE UNCHANGED vars
    <2>1. UNCHANGED <<connVars, agentVars, envVars, reply, dropped>>
      BY <1>2 DEF vars
    <2>2. ConnTypes' /\ StrandedOnlyIfDead'
      BY <2>1, SameConnection DEF IInv, Types
    <2>3. Types'
      BY <2>1, <2>2 DEF IInv, Types, TypeOK, ConnTypes, LbTypes, agentVars, envVars
    <2>4. WaitingOnlyIfDropped' /\ SubsConnected' /\ \A m \in Mods : UpToDate(m)'
      BY <2>1
      DEF IInv, WaitingOnlyIfDropped, Alive, Has, InFlight, OnTheWay, SubsConnected,
                  UpToDate, connVars, agentVars, envVars
    <2>5. QED
      BY <2>2, <2>3, <2>4 DEF IInv
  <1>3. QED
    BY <1>1, <1>2

(***************************************************************************)
(* IInv holds throughout, whatever happens to the connection.              *)
(***************************************************************************)
THEOREM AgentInvariant == Spec => []IInv
  BY InitIInv, StepIInv, PTL DEF Spec

(***************************************************************************)
(* Every variable of the agent keeps its type; in particular the assertion *)
(* of route_lb::get_host that an empty load_balance is being pulled holds. *)
(***************************************************************************)
THEOREM AgentTypes == Spec => []TypeOK
  <1>1. IInv => TypeOK
    BY DEF IInv, Types
  <1>2. QED
    BY <1>1, AgentInvariant, PTL

(***************************************************************************)
(* Output that waits has a callback that will write it, whatever the order *)
(* in which connects end, connections are lost and messages are sent; only *)
(* a socket given up by connection_succ is the exception.                  *)
(***************************************************************************)
THEOREM OutputIsNotStranded == Spec => []StrandedOnlyIfDead
  <1>1. IInv => StrandedOnlyIfDead
    BY DEF IInv
  <1>2. QED
    BY <1>1, AgentInvariant, PTL

(***************************************************************************)
(* A load_balance that waits for hosts has its request or the answer under *)
(* way, unless a connection took one of them along.                        *)
(***************************************************************************)
THEOREM PullsAreUnderWay == Spec => []WaitingOnlyIfDropped
  <1>1. IInv => WaitingOnlyIfDropped
    BY DEF IInv
  <1>2. QED
    BY <1>1, AgentInvariant, PTL

(***************************************************************************)
(* At rest the agent knows every host of the mods it serves, for any order *)
(* of answers, pushed changes and empty routes.                            *)
(***************************************************************************)
THEOREM AgentKnowsItsRoutes == Spec => []AgentFresh
  <1>1. IInv => AgentFresh
    <2> SUFFICES ASSUME IInv, NEW m \in Mods, lb[m].hosts # {}, ~InFlight(m), m \in subs
                 PROVE  route[m] # {} /\ route[m] \subseteq lb[m].hosts
      BY DEF AgentFresh
    <2>1. \A r \in Range(inbox) : r.mod # m
      BY DEF InFlight, OnTheWay
    <2>2. \A i \in 1..Len(inbox) : inbox[i] \in Range(inbox)
      BY DEF IInv, Types, ConnTypes, Range
    <2>3. ~LastSays(inbox, m, route[m])
      BY <2>1, <2>2 DEF LastSays
    <2>4. QED
      BY <2>3 DEF IInv, UpToDate
  <1>2. QED
    BY <1>1, AgentInvariant, PTL

(***************************************************************************)
(* A connection gets deaf in no other way than by a message that is sent   *)
(* while its connect is in progress.                                       *)
(***************************************************************************)
THEOREM OnlyEarlySendsDeafen == Spec => DeafOnlyIfEarly
  <1> DEFINE A == ~Deaf /\ Deaf' => io_ev = Connecting /\ sock = sock' /\ obuf' # obuf
  <1>1. IInv /\ [Next]_vars => [A]_connVars
    <2> SUFFICES ASSUME IInv, [Next]_vars, ~Deaf, Deaf'
                 PROVE  io_ev = Connecting /\ sock = sock' /\ obuf' # obuf
      OBVIOUS
    <2>0. ConnTypes /\ Types
      BY DEF IInv, Types
    <2>1. ASSUME UNCHANGED <<sock, io_ev>> PROVE FALSE
      BY <2>1 DEF Deaf
    <2>2. ASSUME NEW q \in Seq(Mods), q # << >>, SendMessages(q)
          PROVE  io_ev = Connecting /\ sock = sock' /\ obuf' # obuf
      <3>1. sock' = sock /\ io_ev' # io_ev
        BY <2>1, <2>2 DEF SendMessages
      <3>2. /\ io_ev' = [io_ev EXCEPT !["EPOLLOUT"] = "do_write"]
            /\ obuf = << >>
            /\ obuf' = obuf \o q
        BY <2>2, <3>1 DEF SendMessages, AddIoEvent
      <3>3. io_ev'["EPOLLIN"] = io_ev["EPOLLIN"]
        BY <2>0, <3>2 DEF ConnTypes, Masks
      <3>4. obuf' # << >>
        BY <2>0, <2>2, <3>2 DEF ConnTypes
      <3>5. QED
        BY <3>1, <3>2, <3>3, <3>4 DEF Deaf
    <2>3. ASSUME CleanConn PROVE FALSE
      BY <2>3, Registrations DEF CleanConn, DoConnect, Deaf
    <2>4. ASSUME ConnectionSucc PROVE FALSE
      BY <2>4, Registrations DEF ConnectionSucc, Deaf
    <2>5. ASSUME DoWrite \/ DoWriteInVain PROVE FALSE
      <3>1. /\ sock' = sock /\ io_ev["EPOLLOUT"] = "do_write"
            /\ io_ev' = io_ev \/ io_ev' = DelIoEvent(io_ev, "EPOLLOUT")
        BY <2>5 DEF DoWrite, DoWriteInVain, Writable
      <3>2. io_ev'["EPOLLIN"] = io_ev["EPOLLIN"]
        BY <2>0, <3>1 DEF ConnTypes, Masks, DelIoEvent
      <3>3. io_ev # Connecting
        BY <3>1, Registrations
      <3>4. QED
        BY <3>1, <3>2, <3>3 DEF Deaf
    <2>6. ASSUME ConnectCompletes \/ ConnectRefused \/ ConnectionLost PROVE FALSE
      BY <2>6 DEF ConnectCompletes, ConnectRefused, ConnectionLost, Deaf
    <2>7. CASE Connection
      BY <2>3, <2>4, <2>5, <2>6, <2>7
      DEF Connection, ConnStep, LossStep, DoWriteError, DoReadClosed
    <2>8. CASE NewDnsRequest
      BY <2>0, <2>2, <2>8 DEF NewDnsRequest, Types
    <2>9. CASE DealRecvRoute \/ DnsAnswers \/ UNCHANGED vars
      BY <2>1, <2>9 DEF DealRecvRoute, DoRead, DnsAnswers, Exchange, vars, connVars
    <2>10. CASE \/ CreateReportQueue \/ CreateDnsQueue \/ \E m \in Mods : GetHost(m)
                \/ \E m \in Mods, hosts \in SUBSET Hosts : RouteChanges(m, hosts)
      BY <2>1, <2>10
      DEF CreateReportQueue, CreateDnsQueue, GetHost, GetHostNew, GetHostPulling,
          GetHostChoice,
          RouteChanges, connVars
    <2>11. QED
      BY <2>7, <2>8, <2>9, <2>10 DEF Next, ClientThread
  <1>2. QED
    BY <1>1, AgentInvariant, PTL DEF Spec, DeafOnlyIfEarly
=============================================================================
