------------------------------- MODULE LarsApi ------------------------------
(***************************************************************************)
(* The API of lars (lars_api.cpp) and the agent's UDP servers that answer  *)
(* it (udp_server.cpp, agent_udp_server.cpp): get_host, which sends a      *)
(* datagram and blocks in recvfrom until it gets an answer that is not     *)
(* older than its request, and report, which only sends.                   *)
(*                                                                         *)
(* A mod stands for modid + cmdid, which selects one of three sockets.     *)
(* What the agent's route_lb answers is any retcode; how it comes about is *)
(* modules LbAgent and LoadBalance.  Datagrams may be lost, but on the     *)
(* loopback device they are neither duplicated nor reordered.              *)
(***************************************************************************)
EXTENDS Integers, Sequences, FiniteSets, FiniteSetsExt, Functions

CONSTANTS Clients,   \* processes with a lars_client
          Mods,      \* modid + cmdid
          Retcodes,  \* answers of route_lb::get_host
          SeqMod,    \* 2^32: _seqid is a uint32_t
          Allow,     \* disturbances: "loss", sendto fails, "EINTR" in recvfrom
          MaxCalls   \* bound: calls of all clients

ASSUME LarsApiConstants ==
    /\ Mods \subseteq Nat
    /\ SeqMod \in Nat \ {0} /\ MaxCalls \in Nat
    /\ Allow \subseteq {"loss", "sendto", "EINTR"}

Servers == 0..2

VARIABLES
    calls,   \* calls[c]: get_host calls of c so far, of which _seqid is the rest
    api,     \* api[c]: what c is doing, with the mod of its call
    result,  \* result[c]: what the last get_host of c returned, and from where
    inq,     \* inq[s]: datagrams in the socket of server s
    cli,     \* cli[s]: _cli_addr, the sender of the last datagram
    ans,     \* ans[c][s]: datagrams in socket s of c
    counted, \* report_host calls in each server
    reports, \* reports sent to each server
    missed   \* history: why the answer of the call of c may never come

vars == <<calls, api, result, inq, cli, ans, counted, reports, missed>>

(* What get_host returns; asker, call and intact are history. *)
Result(d) == [ret |-> d.ret, asker |-> d.asker, call |-> d.call, intact |-> d.intact]

Nothing == [ret |-> "none", asker |-> "nobody", call |-> 0, intact |-> FALSE]
Failure == [Nothing EXCEPT !.ret = "RET_SYSTEM_ERROR"]

Init ==
    /\ calls = [c \in Clients |-> 0]
    /\ api = [c \in Clients |-> [at |-> "idle", mod |-> 0]]
    /\ result = [c \in Clients |-> Nothing]
    /\ inq = [s \in Servers |-> << >>]
    /\ cli = [s \in Servers |-> "nobody"]
    /\ ans = [c \in Clients |-> [s \in Servers |-> << >>]]
    /\ counted = [s \in Servers |-> 0]
    /\ reports = [s \in Servers |-> 0]
    /\ missed = [c \in Clients |-> {}]

(* "a simple hash to choose the agent's UDP server" *)
Index(m) == m % 3

(* _seqid of the call that c is in. *)
Seq0(c) == (calls[c] - 1) % SeqMod

Used == MapThenSumSet(LAMBDA c : calls[c], Clients) + MapThenSumSet(LAMBDA s : reports[s], Servers)

-----------------------------------------------------------------------------
(* lars_client *)

Request(c, m, n) == [kind |-> "get", cli |-> c, mod |-> m, call |-> n, seq |-> (n - 1) % SeqMod]

(* get_host: the request goes out, and perhaps gets lost on its way. *)
GetHostSend(c, m) ==
    /\ api[c].at = "idle" /\ Used < MaxCalls
    /\ calls' = [calls EXCEPT ![c] = @ + 1]
    /\ api' = [api EXCEPT ![c] = [at |-> "recv", mod |-> m]]
    /\ result' = [result EXCEPT ![c] = Nothing]
    /\ \/ /\ inq' = [inq EXCEPT ![Index(m)] = Append(@, Request(c, m, calls[c] + 1))]
          /\ missed' = [missed EXCEPT ![c] = {}]
       \/ /\ "loss" \in Allow
          /\ missed' = [missed EXCEPT ![c] = {"lost"}]
          /\ UNCHANGED inq
    /\ UNCHANGED <<cli, ans, counted, reports>>

(* sendto fails: the call is over, its seqid is used up. *)
GetHostSendFails(c, m) ==
    /\ api[c].at = "idle" /\ Used < MaxCalls /\ "sendto" \in Allow
    /\ calls' = [calls EXCEPT ![c] = @ + 1]
    /\ result' = [result EXCEPT ![c] = Failure]
    /\ missed' = [missed EXCEPT ![c] = {}]
    /\ UNCHANGED <<api, inq, cli, ans, counted, reports>>

(* report: a datagram, which may get lost, and no answer. *)
ReportSend(c, m) ==
    /\ api[c].at = "idle" /\ Used < MaxCalls
    /\ reports' = [reports EXCEPT ![Index(m)] = @ + 1]
    /\ \/ inq' = [inq EXCEPT ![Index(m)] =
                     Append(@, [kind |-> "report", cli |-> c, mod |-> m, call |-> 0, seq |-> 0])]
       \/ Allow \cap {"loss", "sendto"} # {} /\ UNCHANGED inq
    /\ UNCHANGED <<calls, api, result, cli, ans, counted, missed>>

(* get_host returns what it has from a datagram, or RET_SYSTEM_ERROR. *)
Return(c, res) ==
    /\ api' = [api EXCEPT ![c].at = "idle"]
    /\ result' = [result EXCEPT ![c] = res]
    /\ UNCHANGED missed

(* Mutant: an answer that is not older is taken without a further look. *)
GetHostRecvAny(c) ==
    /\ api[c].at = "recv"
    /\ LET s == Index(api[c].mod)
           d == Head(ans[c][s])
       IN  /\ ans[c][s] # << >>
           /\ ans' = [ans EXCEPT ![c][s] = Tail(@)]
           /\ \/ ~d.ok /\ Return(c, Failure)
              \/ /\ d.ok /\ d.seq < Seq0(c)
                 /\ missed' = [missed EXCEPT ![c] = IF d.call = calls[c] THEN @ \cup {"skipped"} ELSE @]
                 /\ UNCHANGED <<api, result>>
              \/ d.ok /\ d.seq >= Seq0(c) /\ Return(c, Result(d))
    /\ UNCHANGED <<calls, inq, cli, counted, reports>>

(***************************************************************************)
(* A datagram is received.  One that cannot be parsed ends the call, one   *)
(* with a smaller seq is skipped; another seq or mod is an error.          *)
(***************************************************************************)
GetHostRecv(c) ==
    /\ api[c].at = "recv"
    /\ LET s == Index(api[c].mod)
           d == Head(ans[c][s])
           mine == d.seq = Seq0(c) /\ d.mod = api[c].mod
       IN  /\ ans[c][s] # << >>
           /\ ans' = [ans EXCEPT ![c][s] = Tail(@)]
           /\ \/ ~d.ok /\ Return(c, Failure)
              \/ /\ d.ok /\ d.seq < Seq0(c)
                 /\ missed' = [missed EXCEPT ![c] = IF d.call = calls[c] THEN @ \cup {"skipped"} ELSE @]
                 /\ UNCHANGED <<api, result>>
              \/ d.ok /\ d.seq >= Seq0(c) /\ mine /\ Return(c, Result(d))
              \/ d.ok /\ d.seq >= Seq0(c) /\ ~mine /\ Return(c, Failure)
    /\ UNCHANGED <<calls, inq, cli, counted, reports>>

(* recvfrom fails, in a signal handler for one; the answer still comes. *)
GetHostInterrupted(c) ==
    /\ api[c].at = "recv" /\ "EINTR" \in Allow
    /\ Return(c, Failure)
    /\ UNCHANGED <<calls, inq, cli, ans, counted, reports>>

-----------------------------------------------------------------------------
(* udp_server, in the agent *)

(***************************************************************************)
(* send_message copies the body from the address of its parameter, not     *)
(* from where that points: the datagram has the length of the response,    *)
(* but its bytes are whatever is on the stack, which may not parse, or     *)
(* parse to any response.                                                  *)
(***************************************************************************)
Bodies(rsp) ==
    {[rsp EXCEPT !.ok = FALSE]}
      \cup [ok : {TRUE}, seq : 0 .. SeqMod - 1, mod : Mods, ret : Retcodes]

(* send_message to _cli_addr, for call n of client c; it may be lost. *)
Reply(s, rsp, c, n) ==
    \/ \E b \in Bodies(rsp) :
          /\ ans' = [ans EXCEPT ![cli'[s]][s] = Append(@,
                       [ok |-> b.ok, seq |-> b.seq, mod |-> b.mod, ret |-> b.ret,
                        asker |-> c, call |-> n, intact |-> b = rsp])]
          /\ UNCHANGED missed
    \/ /\ "loss" \in Allow
       /\ missed' = [missed EXCEPT ![c] = IF n = calls[c] THEN @ \cup {"lost"} ELSE @]
       /\ UNCHANGED ans

(* Mutant: only the first datagram tells who sent it. *)
RecvFromFirst(s) ==
    cli' = [cli EXCEPT ![s] = IF @ = "nobody" THEN Head(inq[s]).cli ELSE @]

(* Mutant: a second datagram in the socket is never read. *)
RecvFromOne(s) == Len(inq[s]) = 1 /\ cli' = [cli EXCEPT ![s] = Head(inq[s]).cli]

(* recvfrom notes the sender of the datagram in _cli_addr. *)
RecvFrom(s) == cli' = [cli EXCEPT ![s] = Head(inq[s]).cli]

(* get_host_cb: ask the route_lb of this server, and answer. *)
ServeGetHost(s) ==
    /\ inq[s] # << >> /\ Head(inq[s]).kind = "get"
    /\ RecvFrom(s)
    /\ inq' = [inq EXCEPT ![s] = Tail(@)]
    /\ LET q == Head(inq[s]) IN
       \E ret \in Retcodes :
          Reply(s, [ok |-> TRUE, seq |-> q.seq, mod |-> q.mod, ret |-> ret], q.cli, q.call)
    /\ UNCHANGED <<calls, api, result, counted, reports>>

(* report_cb: count it in the route_lb of this server. *)
ServeReport(s) ==
    /\ inq[s] # << >> /\ Head(inq[s]).kind = "report"
    /\ RecvFrom(s)
    /\ inq' = [inq EXCEPT ![s] = Tail(@)]
    /\ counted' = [counted EXCEPT ![s] = @ + 1]
    /\ UNCHANGED <<calls, api, result, ans, reports, missed>>

-----------------------------------------------------------------------------
Serve(s) == ServeGetHost(s) \/ ServeReport(s)

Next ==
    \/ \E c \in Clients, m \in Mods : GetHostSend(c, m) \/ GetHostSendFails(c, m) \/ ReportSend(c, m)
    \/ \E c \in Clients : GetHostRecv(c) \/ GetHostInterrupted(c)
    \/ \E s \in Servers : Serve(s)

Spec == Init /\ [][Next]_vars

(* Fairness: the servers run, and a client takes what it is waiting for. *)
FairSpec ==
    /\ Spec
    /\ \A c \in Clients : WF_vars(GetHostRecv(c))
    /\ \A s \in Servers : WF_vars(Serve(s))

-----------------------------------------------------------------------------
(* Properties. *)

(* Every variable keeps its type. *)
TypeOK ==
    /\ api \in [Clients -> [at : {"idle", "recv"}, mod : Mods \cup {0}]]
    /\ cli \in [Servers -> Clients \cup {"nobody"}]
    /\ \A s \in Servers : \A q \in Range(inq[s]) : q.kind \in {"get", "report"}
    /\ calls \in [Clients -> Nat]
    /\ \A s \in Servers : counted[s] <= reports[s]

(***************************************************************************)
(* A server has one _cli_addr for all its clients; still every answer is   *)
(* sent to the client that asked, into the socket on which it asked.       *)
(***************************************************************************)
AnswerToAsker ==
    /\ TypeOK
    /\ \A c \in Clients, s \in Servers : \A d \in Range(ans[c][s]) : d.asker = c

(***************************************************************************)
(* What get_host returns as the agent's answer is the agent's answer to    *)
(* this very call, if bodies are what was sent: no answer to a call that   *)
(* was interrupted is taken for it, until _seqid comes round.              *)
(***************************************************************************)
OwnAnswerIfIntact ==
    \A c \in Clients :
        LET r == result[c] IN
        r.ret \in Retcodes /\ r.intact
          => r.asker = c /\ (r.call = calls[c] \/ r.call <= calls[c] - SeqMod)

(***************************************************************************)
(* "Assemble the message, first the head, then the body": what get_host    *)
(* returns is what the agent answered.                                     *)
(***************************************************************************)
AgentsAnswer ==
    \A c \in Clients : result[c].ret \in Retcodes => result[c].intact

(***************************************************************************)
(* get_host has no time-out.  It waits in vain only if a datagram of its   *)
(* own call was lost, or its answer was taken for an old one because of    *)
(* its body: answers to interrupted calls and to other clients that come   *)
(* in between do no harm, and neither does the wrap of _seqid.             *)
(***************************************************************************)
CallsEnd == \A c \in Clients : []<>(api[c].at = "idle" \/ missed[c] # {})
=============================================================================
