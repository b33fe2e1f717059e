------------------------------ MODULE LbAgent -------------------------------
(***************************************************************************)
(* The agent (lars_lb_agent) between the callers' get_host and the DNS     *)
(* service: route_lb.cpp, load_balance::pull, main_server.cpp's start-up   *)
(* and the DNS client thread of dns_client.cpp, on top of TcpClient.       *)
(*                                                                         *)
(* A load_balance is reduced to its status and the keys of _host_map; what *)
(* it does with them is module LoadBalance.  route_lb's mutex makes each   *)
(* operation on it one step.  dns_queue is a FIFO that the client thread   *)
(* empties at a time; that no wake-up is lost is shown in ThreadPool.  The *)
(* DNS service answers a request with the current route and from then on   *)
(* pushes changes on the same connection, as long as it lasts (DnsService).*)
(***************************************************************************)
EXTENDS TcpClient, Functions

CONSTANTS Mods,       \* modid/cmdid keys
          Hosts,      \* host keys
          MaxChanges  \* bound: route changes

VARIABLES
    main,       \* main(): "udp" servers run, "report" queue exists, "run"
    lb,         \* lb[m]: the load_balance in _route_lb_map, or Absent
    dns_queue,  \* requests for the DNS client thread
    fault,      \* "none", or why the process died
    route,      \* the DNS service's route of each mod
    subs,       \* mods subscribed to on the current connection
    changes,    \* route changes so far
    reply,      \* retcode of the last GetHostResponse
    dropped     \* history: mods whose request or answer a connection lost

agentVars == <<main, lb, dns_queue, fault>>
envVars == <<route, subs, changes>>
vars == <<connVars, agentVars, envVars, reply, dropped>>

Absent == [status |-> "absent", hosts |-> {}]

Has(m) == lb[m] # Absent

Init ==
    /\ ConnInit
    /\ main = "udp"
    /\ lb = [m \in Mods |-> Absent]
    /\ dns_queue = << >>
    /\ fault = "none"
    /\ route \in [Mods -> SUBSET Hosts]
    /\ subs = {}
    /\ changes = 0
    /\ reply = "none"
    /\ dropped = {}

Alive == fault = "none" /\ sock # "exited"

-----------------------------------------------------------------------------
(* main(): the UDP servers are already running. *)

CreateReportQueue ==
    /\ Alive /\ main = "udp"
    /\ main' = "report"
    /\ UNCHANGED <<connVars, lb, dns_queue, fault, envVars, reply, dropped>>

(* dns_queue is created and the DNS client thread started. *)
CreateDnsQueue ==
    /\ Alive /\ main = "report"
    /\ main' = "run"
    /\ UNCHANGED <<connVars, lb, dns_queue, fault, envVars, reply, dropped>>

-----------------------------------------------------------------------------
(* route_lb::get_host, in a UDP server thread *)

(* Mutant: pull() does not set the status. *)
GetHostNewStatus(m) ==
    /\ Alive /\ ~Has(m) /\ main = "run"
    /\ lb' = [lb EXCEPT ![m] = [status |-> "NEW", hosts |-> {}]]
    /\ dns_queue' = Append(dns_queue, m)
    /\ reply' = "RET_NOEXIST"
    /\ UNCHANGED <<connVars, main, fault, envVars, dropped>>

(* No load_balance: make one and pull(), through a queue that may be NULL. *)
GetHostNew(m) ==
    /\ Alive /\ ~Has(m)
    /\ lb' = [lb EXCEPT ![m] = [status |-> "PULLING", hosts |-> {}]]
    /\ \/ /\ main = "run"
          /\ dns_queue' = Append(dns_queue, m)
          /\ reply' = "RET_NOEXIST"
          /\ UNCHANGED fault
       \/ /\ main # "run"
          /\ fault' = "dns_queue is NULL"
          /\ UNCHANGED <<dns_queue, reply>>
    /\ UNCHANGED <<connVars, main, envVars, dropped>>

(* An empty one: its route is being pulled (an assert; TypeOK has it too). *)
GetHostPulling(m) ==
    /\ Alive /\ Has(m) /\ lb[m].hosts = {}
    /\ lb[m].status = "PULLING"
    /\ reply' = "RET_NOEXIST"
    /\ UNCHANGED <<connVars, agentVars, envVars, dropped>>

(* choice_one_host answers with a host or with RET_OVERLOAD. *)
GetHostChoice(m) ==
    /\ Alive /\ Has(m) /\ lb[m].hosts # {}
    /\ reply' \in {"RET_SUCC", "RET_OVERLOAD"}
    /\ UNCHANGED <<connVars, agentVars, envVars, dropped>>

-----------------------------------------------------------------------------
(* The DNS client thread *)

(***************************************************************************)
(* Requests and answers on the connection.  A request in a stream that     *)
(* began inside a message reaches nobody.                                  *)
(***************************************************************************)
OnTheWay ==
    (IF split THEN {} ELSE Range(obuf) \cup Range(net)) \cup {r.mod : r \in Range(inbox)}

(* Mutant: one request is sent, although recv() took all of them. *)
NewDnsRequestOne ==
    /\ Alive /\ main = "run"
    /\ MaySend
    /\ dns_queue # << >>
    /\ SendMessages(<<Head(dns_queue)>>)
    /\ dns_queue' = << >>
    /\ dropped' = IF split THEN dropped \cup Range(dns_queue) ELSE dropped
    /\ UNCHANGED <<main, lb, fault, envVars, reply>>

(* Mutant: the callback is run for a single request only. *)
NewDnsRequestAlone ==
    /\ Alive /\ main = "run"
    /\ MaySend
    /\ Len(dns_queue) = 1
    /\ SendMessages(dns_queue)
    /\ dns_queue' = << >>
    /\ dropped' = IF split THEN dropped \cup Range(dns_queue) ELSE dropped
    /\ UNCHANGED <<main, lb, fault, envVars, reply>>

(* new_dns_request: take the whole queue, send_message for each. *)
NewDnsRequest ==
    /\ Alive /\ main = "run"
    /\ MaySend
    /\ dns_queue # << >>
    /\ SendMessages(dns_queue)
    /\ dns_queue' = << >>
    /\ dropped' = IF split THEN dropped \cup Range(dns_queue) ELSE dropped
    /\ UNCHANGED <<main, lb, fault, envVars, reply>>

(* Mutant: hosts are entered only into an empty load_balance. *)
UpdateHostFirst(m, hosts) ==
    lb' = IF ~Has(m) THEN lb
          ELSE IF hosts = {} THEN [lb EXCEPT ![m] = Absent]
          ELSE IF lb[m].hosts # {} THEN lb
          ELSE [lb EXCEPT ![m].hosts = hosts]

(* route_lb::update_host, with load_balance::update. *)
UpdateHost(m, hosts) ==
    lb' = IF ~Has(m) THEN lb
          ELSE IF hosts = {} THEN [lb EXCEPT ![m] = Absent]
          ELSE [lb EXCEPT ![m].hosts = @ \cup hosts]

(* deal_recv_route: a GetRouteResponse was read. *)
DealRecvRoute ==
    /\ Alive /\ main = "run"
    /\ DoRead
    /\ UpdateHost(Head(inbox).mod, Head(inbox).hosts)
    /\ UNCHANGED <<main, dns_queue, fault, envVars, reply, dropped>>

(***************************************************************************)
(* The connection by itself; a lost one takes its subscriptions along, and *)
(* perhaps requests and answers.                                           *)
(***************************************************************************)
Connection ==
    /\ Alive /\ main = "run"
    /\ \/ ConnStep /\ UNCHANGED dropped
       \/ LossStep /\ dropped' = dropped \cup (OnTheWay \ OnTheWay')
    /\ subs' = IF sock' = "connected" /\ sock = "connected" THEN subs ELSE {}
    /\ UNCHANGED <<agentVars, route, changes, reply>>

-----------------------------------------------------------------------------
(* The DNS service *)

Response(m) == [mod |-> m, hosts |-> route[m]]

(* get_request: subscribe and answer. *)
DnsAnswers ==
    /\ Alive /\ main = "run"
    /\ net # << >>
    /\ Exchange(<<Response(Head(net))>>)
    /\ subs' = subs \cup {Head(net)}
    /\ UNCHANGED <<agentVars, route, changes, reply, dropped>>

(* A route changes, and is pushed if the agent subscribed to it. *)
RouteChanges(m, hosts) ==
    /\ Alive
    /\ changes < MaxChanges
    /\ route[m] # hosts
    /\ changes' = changes + 1
    /\ route' = [route EXCEPT ![m] = hosts]
    /\ inbox' = IF m \in subs /\ sock = "connected"
                  THEN Append(inbox, [mod |-> m, hosts |-> hosts])
                  ELSE inbox
    /\ UNCHANGED <<sock, io_ev, obuf, torn, split, net, faults>>
    /\ UNCHANGED <<agentVars, subs, reply, dropped>>

GetHost(m) == GetHostNew(m) \/ GetHostPulling(m) \/ GetHostChoice(m)

ClientThread == NewDnsRequest \/ DealRecvRoute \/ Connection

Next ==
    \/ CreateReportQueue
    \/ CreateDnsQueue
    \/ \E m \in Mods : GetHost(m)
    \/ ClientThread
    \/ DnsAnswers
    \/ \E m \in Mods, hosts \in SUBSET Hosts : RouteChanges(m, hosts)

Spec == Init /\ [][Next]_vars

(***************************************************************************)
(* Fairness: the agent's threads run, the kernel completes what it began,  *)
(* the DNS service answers.  Callers owe no call.                          *)
(***************************************************************************)
FairSpec ==
    /\ Spec
    /\ WF_vars(CreateReportQueue \/ CreateDnsQueue)
    /\ WF_vars(NewDnsRequest)
    /\ WF_vars(DealRecvRoute)
    /\ WF_vars(Connection)
    /\ WF_vars(DnsAnswers)

-----------------------------------------------------------------------------
(* Properties. *)

(* Every variable of the agent keeps its type. *)
TypeOK ==
    /\ ConnTypeOK
    /\ main \in {"udp", "report", "run"}
    /\ \A m \in Mods : lb[m] = Absent \/ (lb[m].status = "PULLING" /\ lb[m].hosts \subseteq Hosts)
    /\ fault \in {"none", "dns_queue is NULL"}
    /\ dropped \subseteq Mods
    /\ reply \in {"none", "RET_SUCC", "RET_OVERLOAD", "RET_NOEXIST"}

(* The request or the answer for m is somewhere on its way. *)
InFlight(m) == m \in Range(dns_queue) \cup OnTheWay

(***************************************************************************)
(* "The lb exists and its hosts are empty: it is being pulled, the answer  *)
(* of dns_service has not come back yet": an empty load_balance, for which *)
(* every caller gets RET_NOEXIST and nobody pulls again, has its request   *)
(* or the answer to it under way.  If not, it will never be filled, and    *)
(* then its request or answer was lost with a connection; the queue, the   *)
(* buffer, the early returns and the deletion by an empty route lose none. *)
(***************************************************************************)
WaitingOnlyIfDropped ==
    \A m \in Mods :
        Alive /\ Has(m) /\ lb[m].hosts = {} => InFlight(m) \/ m \in dropped

(***************************************************************************)
(* A pull comes to an end: the load_balance gets hosts, or it is deleted   *)
(* because there are none, and the next get_host pulls again.  Only these  *)
(* can keep it from that: the request or the answer was lost with a        *)
(* connection, connection_succ has found that the connect failed, or the   *)
(* answer comes on a connection nobody reads from.                         *)
(***************************************************************************)
PullEnds ==
    \A m \in Mods :
        (Has(m) /\ lb[m].hosts = {})
          ~> (~Has(m) \/ lb[m].hosts # {} \/ m \in dropped \/ sock = "dead" \/ Deaf \/ ~Alive)

(***************************************************************************)
(* When nothing is on its way, the agent knows every host of a mod that it *)
(* serves, and serves none whose route is empty, whatever the order of the *)
(* answer to its pull, of pushed changes and of deletions by empty routes. *)
(***************************************************************************)
AgentFresh ==
    \A m \in Mods :
        Alive /\ lb[m].hosts # {} /\ ~InFlight(m) /\ m \in subs
          => route[m] # {} /\ route[m] \subseteq lb[m].hosts
=============================================================================
