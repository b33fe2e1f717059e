---------------------------- MODULE LoadBalance -----------------------------
(***************************************************************************)
(* One load_balance object of the agent (load_balance.cpp, host_info.cpp): *)
(* the hosts of one modid/cmdid, split into an idle and an overload list.  *)
(*                                                                         *)
(* The lists and _host_map hold POINTERS to host_info objects, and that is *)
(* how they are modelled: Addrs are the addresses the allocator hands out, *)
(* heap says what lives there.  new takes any free address, so a freed one *)
(* may be handed out again.  The first use of freed memory, or front() of  *)
(* an empty list, sets fault; what happens after it is undefined and is    *)
(* not modelled.                                                           *)
(*                                                                         *)
(* All operations run under the mutex of the owning route_lb.  update()    *)
(* is split into the iterations of its loops; the other operations wait    *)
(* for its end, as they do for the mutex.                                  *)
(***************************************************************************)
EXTENDS Integers, Sequences

CONSTANTS
    Keys,            \* ip/port keys of hosts, as the numbers they are
    Addrs,           \* addresses for host_info objects
    NULL,            \* the null pointer
    ProbeNum,        \* lb_config.probe_num
    InitSucc,        \* lb_config.init_succ_cnt
    InitErr,         \* lb_config.init_err_cnt
    ErrNum, ErrDen,  \* lb_config.err_rate: the float's value, as a fraction
    SuccNum, SuccDen,\* lb_config.succ_rate, likewise
    ContinErrLimit,  \* lb_config.contin_err_limit
    ContinSuccLimit, \* lb_config.contin_succ_limit
    CntMod,          \* 2^32 in the code: the counters are uint32_t
    AccessInit,      \* values the uninitialised _access_cnt may start with
    MaxReports       \* bound: reports counted per host between two resets

ASSUME KeysAreNumbers == Keys \subseteq Nat

ASSUME NullAssumption == NULL \notin Addrs

ASSUME ConfigAssumption ==
    /\ ProbeNum \in Nat
    /\ CntMod \in Nat \ {0}
    /\ InitSucc \in 0..(CntMod - 1) /\ InitErr \in 0..(CntMod - 1)
    /\ ErrNum \in Nat /\ ErrDen \in Nat \ {0}
    /\ SuccNum \in Nat /\ SuccDen \in Nat \ {0}
    /\ ContinErrLimit \in Nat \ {0}
    /\ ContinSuccLimit \in Nat \ {0}
    /\ AccessInit \subseteq Int
    /\ MaxReports \in Nat

NoKey == -1

Counter == 0..(CntMod - 1)

HostInfo == [key : Keys, vsucc : Counter, verr : Counter, rsucc : Counter,
             rerr : Counter, contin_succ : Counter, contin_err : Counter,
             overload : BOOLEAN]

(* What is at an address that holds no object. *)
Freed == [key |-> NoKey]

VARIABLES
    heap,          \* heap[p]: the host_info at address p, or Freed
    host_map,      \* _host_map: the address stored for a key, or NULL
    idle_list,     \* _idle_list
    overload_list, \* _overload_list
    access_cnt,    \* _access_cnt
    upd,           \* progress of update(): where, remote_hosts, keys to do
    fault,         \* "none", or the first undefined behaviour
    out,           \* what the last step sent: an answer, a report or nothing
    route,         \* history: the hosts of the last GetRouteResponse
    removed,       \* history: some host_info was deleted
    refused,       \* history: RET_OVERLOAD answers since the last host
    restarted      \* history: _access_cnt was set to 0 at least once

memory == <<heap, host_map, idle_list, overload_list>>
history == <<route, removed, refused, restarted>>
vars == <<memory, access_cnt, upd, fault, out, history>>

-----------------------------------------------------------------------------
(* host_info *)

IsLive(p) == p \in Addrs /\ heap[p] # Freed

Live == {p \in Addrs : heap[p] # Freed}

(* host_info::host_info *)
NewHost(k) ==
    [key |-> k, vsucc |-> InitSucc, verr |-> 0, rsucc |-> 0, rerr |-> 0,
     contin_succ |-> 0, contin_err |-> 0, overload |-> FALSE]

(* Mutant: the overload flag is not reset. *)
SetIdleKeepsFlag(h) ==
    [key |-> h.key, vsucc |-> InitSucc, verr |-> 0, rsucc |-> 0, rerr |-> 0,
     contin_succ |-> 0, contin_err |-> 0, overload |-> h.overload]

(* host_info::set_idle *)
SetIdle(h) ==
    [key |-> h.key, vsucc |-> InitSucc, verr |-> 0, rsucc |-> 0, rerr |-> 0,
     contin_succ |-> 0, contin_err |-> 0, overload |-> FALSE]

(* host_info::set_overload *)
SetOverload(h) ==
    [key |-> h.key, vsucc |-> 0, verr |-> InitErr, rsucc |-> 0, rerr |-> 0,
     contin_succ |-> 0, contin_err |-> 0, overload |-> TRUE]

(* ++ on a uint32_t *)
Inc(n) == (n + 1) % CntMod

-----------------------------------------------------------------------------
(* std::list *)

Elems(l) == {l[i] : i \in 1..Len(l)}

(* get_host_from_list: the front node goes to the back. *)
Rotate(l) == Append(Tail(l), Head(l))

(* Mutant: the last node takes the place of the one that is removed. *)
WithoutSwap(l, p) ==
    IF \E i \in 1..Len(l) : l[i] = p
      THEN [j \in 1..(Len(l) - 1) |-> IF l[j] = p THEN l[Len(l)] ELSE l[j]]
      ELSE l

(***************************************************************************)
(* list::remove drops every node that equals p.  An address is in a list   *)
(* at most once (NoDuplicates), so dropping one node is the same.          *)
(***************************************************************************)
Without(l, p) ==
    IF \E i \in 1..Len(l) : l[i] = p
      THEN LET i == CHOOSE i \in 1..Len(l) : l[i] = p
           IN  [j \in 1..(Len(l) - 1) |-> IF j < i THEN l[j] ELSE l[j + 1]]
      ELSE l

-----------------------------------------------------------------------------
Idle == [at |-> "idle", remote |-> {}, todo |-> {}]

Nothing == [msg |-> "none"]

(* A GetHostResponse. *)
Response(ret, k) == [msg |-> "GetHostResponse", ret |-> ret, key |-> k]

(***************************************************************************)
(* The constructor leaves _access_cnt uninitialised.                       *)
(***************************************************************************)
Init ==
    /\ heap = [p \in Addrs |-> Freed]
    /\ host_map = [k \in Keys |-> NULL]
    /\ idle_list = << >>
    /\ overload_list = << >>
    /\ access_cnt \in AccessInit
    /\ upd = Idle
    /\ fault = "none"
    /\ out = Nothing
    /\ route = {}
    /\ removed = FALSE
    /\ refused = 0
    /\ restarted = FALSE

Mapped == {k \in Keys : host_map[k] # NULL}

(* Mutant: a load_balance without hosts is not noticed. *)
EmptyNever == FALSE

(* load_balance::empty() *)
Empty == Mapped = {}

(* The mutex is free and nothing undefined has happened. *)
Ready == upd.at = "idle" /\ fault = "none"

-----------------------------------------------------------------------------
(* choice_one_host, called by route_lb::get_host when the map is not empty *)

Answer(p) == Response("RET_SUCC", heap[p].key)

(* Mutant: one refusal more than probe_num. *)
RefuseOverloadedLate ==
    /\ Ready /\ ~Empty
    /\ idle_list = << >>
    /\ access_cnt <= ProbeNum
    /\ access_cnt' = access_cnt + 1
    /\ out' = Response("RET_OVERLOAD", NoKey)
    /\ refused' = refused + 1
    /\ UNCHANGED <<memory, upd, fault, route, removed, restarted>>

(* No idle host, and not enough requests yet: refuse. *)
RefuseOverloaded ==
    /\ Ready /\ ~Empty
    /\ idle_list = << >>
    /\ access_cnt < ProbeNum
    /\ access_cnt' = access_cnt + 1
    /\ out' = Response("RET_OVERLOAD", NoKey)
    /\ refused' = refused + 1
    /\ UNCHANGED <<memory, upd, fault, route, removed, restarted>>

(* No idle host, enough requests: probe the front of the overload list. *)
ProbeOverloaded ==
    /\ Ready /\ ~Empty
    /\ idle_list = << >>
    /\ access_cnt >= ProbeNum
    /\ access_cnt' = 0
    /\ \/ /\ overload_list # << >>
          /\ restarted' = TRUE
          /\ out' = Answer(Head(overload_list))
          /\ overload_list' = Rotate(overload_list)
          /\ refused' = 0
          /\ UNCHANGED fault
       \/ /\ overload_list = << >>
          /\ fault' = "front of an empty list"
          /\ out' = Nothing
          /\ UNCHANGED <<overload_list, refused, restarted>>
    /\ UNCHANGED <<heap, host_map, idle_list, upd, route, removed>>

(* All hosts are idle: the front of the idle list. *)
ChooseIdle ==
    /\ Ready /\ ~Empty
    /\ idle_list # << >>
    /\ overload_list = << >>
    /\ out' = Answer(Head(idle_list))
    /\ idle_list' = Rotate(idle_list)
    /\ refused' = 0
    /\ UNCHANGED <<heap, host_map, overload_list, access_cnt, upd, fault>>
    /\ UNCHANGED <<route, removed, restarted>>

(***************************************************************************)
(* Some hosts are overloaded.  Whether the counter asks for a probe or     *)
(* not, get_host_from_list is called once more on the idle list, and its   *)
(* answer replaces the first one.                                          *)
(***************************************************************************)
ChooseMixedProbe ==
    /\ Ready /\ ~Empty
    /\ idle_list # << >> /\ overload_list # << >>
    /\ access_cnt >= ProbeNum
    /\ access_cnt' = 0
    /\ restarted' = TRUE
    /\ overload_list' = Rotate(overload_list)
    /\ out' = Answer(Head(idle_list))
    /\ idle_list' = Rotate(idle_list)
    /\ refused' = 0
    /\ UNCHANGED <<heap, host_map, upd, fault, route, removed>>

ChooseMixed ==
    /\ Ready /\ ~Empty
    /\ idle_list # << >> /\ overload_list # << >>
    /\ access_cnt < ProbeNum
    /\ access_cnt' = access_cnt + 1
    /\ LET once == Rotate(idle_list) IN
          /\ out' = Answer(Head(once))
          /\ idle_list' = Rotate(once)
    /\ refused' = 0
    /\ UNCHANGED <<heap, host_map, overload_list, upd, fault>>
    /\ UNCHANGED <<route, removed, restarted>>

ChoiceOneHost ==
    RefuseOverloaded \/ ProbeOverloaded \/ ChooseIdle \/ ChooseMixedProbe \/ ChooseMixed

-----------------------------------------------------------------------------
(* update: merge the hosts of a GetRouteResponse *)

(* A response with at least one host (the assert of update). *)
UpdateStart(hosts) ==
    /\ Ready
    /\ hosts # {}
    /\ upd' = [at |-> "insert", remote |-> hosts, todo |-> hosts \ Mapped]
    /\ route' = hosts
    /\ out' = Nothing
    /\ UNCHANGED <<memory, access_cnt, fault>>
    /\ UNCHANGED <<removed, refused, restarted>>

(* Mutant: the new host is listed, but not entered in the map. *)
UpdateInsertUnmapped(k, p) ==
    /\ upd.at = "insert" /\ fault = "none"
    /\ k \in upd.todo
    /\ p \in Addrs /\ ~IsLive(p)
    /\ heap' = [heap EXCEPT ![p] = NewHost(k)]
    /\ idle_list' = Append(idle_list, p)
    /\ upd' = [upd EXCEPT !.todo = @ \ {k}]
    /\ out' = Nothing
    /\ UNCHANGED <<host_map, overload_list, access_cnt, fault, history>>

(* A key that the map does not have: new host_info, at the end of idle. *)
UpdateInsert(k, p) ==
    /\ upd.at = "insert" /\ fault = "none"
    /\ k \in upd.todo
    /\ p \in Addrs /\ ~IsLive(p)
    /\ heap' = [heap EXCEPT ![p] = NewHost(k)]
    /\ host_map' = [host_map EXCEPT ![k] = p]
    /\ idle_list' = Append(idle_list, p)
    /\ upd' = [upd EXCEPT !.todo = @ \ {k}]
    /\ out' = Nothing
    /\ UNCHANGED <<overload_list, access_cnt, fault, history>>

(* Mutant: need_delete gets the keys that the response has, too. *)
UpdateCollectAll ==
    /\ upd.at = "insert" /\ fault = "none"
    /\ upd.todo = {}
    /\ upd' = [upd EXCEPT !.at = "delete", !.todo = Mapped]
    /\ out' = Nothing
    /\ UNCHANGED <<memory, access_cnt, fault, history>>

(* All inserted: collect need_delete, the keys the response lacks. *)
UpdateCollect ==
    /\ upd.at = "insert" /\ fault = "none"
    /\ upd.todo = {}
    /\ upd' = [upd EXCEPT !.at = "delete", !.todo = Mapped \ upd.remote]
    /\ out' = Nothing
    /\ UNCHANGED <<memory, access_cnt, fault, history>>

(***************************************************************************)
(* Delete the host_info of the smallest key in need_delete (a std::set).   *)
(* The entry of _host_map stays, with the pointer to the deleted object.   *)
(***************************************************************************)
UpdateDelete(k) ==
    /\ upd.at = "delete" /\ fault = "none"
    /\ k \in upd.todo /\ \A j \in upd.todo : k <= j
    /\ upd' = [upd EXCEPT !.todo = @ \ {k}]
    /\ LET p == host_map[k] IN
       \/ /\ IsLive(p)
          /\ heap[p].overload
          /\ overload_list' = Without(overload_list, p)
          /\ heap' = [heap EXCEPT ![p] = Freed]
          /\ removed' = TRUE
          /\ UNCHANGED <<idle_list, fault>>
       \/ /\ IsLive(p)
          /\ ~heap[p].overload
          /\ idle_list' = Without(idle_list, p)
          /\ heap' = [heap EXCEPT ![p] = Freed]
          /\ removed' = TRUE
          /\ UNCHANGED <<overload_list, fault>>
       \/ /\ ~IsLive(p)
          /\ fault' = "update uses a deleted host_info"
          /\ UNCHANGED <<heap, idle_list, overload_list, removed>>
    /\ out' = Nothing
    /\ UNCHANGED <<host_map, access_cnt, route, refused, restarted>>

UpdateEnd ==
    /\ upd.at = "delete" /\ fault = "none"
    /\ upd.todo = {}
    /\ upd' = Idle
    /\ out' = Nothing
    /\ UNCHANGED <<memory, access_cnt, fault, history>>

-----------------------------------------------------------------------------
(* report, followed by commit: route_lb::report_host *)

(* The counters after one more call with this outcome. *)
Count(h, ok) ==
    IF ok
      THEN [h EXCEPT !.vsucc = Inc(@), !.rsucc = Inc(@),
                     !.contin_succ = Inc(@), !.contin_err = 0]
      ELSE [h EXCEPT !.verr = Inc(@), !.rerr = Inc(@),
                     !.contin_err = Inc(@), !.contin_succ = 0]

(* vsucc + verr, in 32 bits *)
Total(h) == (h.vsucc + h.verr) % CntMod

(* Mutant: only failures in a row count. *)
OverloadsNoRate(h) == h.contin_err >= ContinErrLimit

(* An idle host that has just failed: over the error rate, or in a row. *)
Overloads(h) ==
    \/ h.verr * ErrDen > ErrNum * Total(h)
    \/ h.contin_err >= ContinErrLimit

(* An overloaded host that has just succeeded. *)
Recovers(h) ==
    \/ h.vsucc * SuccDen > SuccNum * Total(h)
    \/ h.contin_succ >= ContinSuccLimit

(* Mutant: the second loop runs over the first list again. *)
ResultsIdleTwice(hp, idle, over) ==
    LET result(p, flag) == [key |-> hp[p].key, succ |-> hp[p].rsucc,
                            err |-> hp[p].rerr, overload |-> flag]
    IN  [i \in 1..Len(idle) |-> result(idle[i], FALSE)] \o
        [i \in 1..Len(idle) |-> result(idle[i], TRUE)]

(* The results of a ReportStatusRequest: the idle hosts, then the others. *)
Results(hp, idle, over) ==
    LET result(p, flag) == [key |-> hp[p].key, succ |-> hp[p].rsucc,
                            err |-> hp[p].rerr, overload |-> flag]
    IN  [i \in 1..Len(idle) |-> result(idle[i], FALSE)] \o
        [i \in 1..Len(over) |-> result(over[i], TRUE)]

(* commit: nothing is sent when the map is empty. *)
Commit ==
    out' = IF Empty THEN Nothing
           ELSE [msg |-> "ReportStatusRequest",
                 results |-> Results(heap', idle_list', overload_list')]

(* The key is unknown: report changes nothing, commit sends all hosts. *)
ReportUnknown(k) ==
    /\ Ready
    /\ host_map[k] = NULL
    /\ UNCHANGED memory
    /\ Commit
    /\ UNCHANGED <<access_cnt, upd, fault, history>>

(* The map has the key, but the object it points to was deleted. *)
ReportDangling(k) ==
    /\ Ready
    /\ host_map[k] # NULL
    /\ ~IsLive(host_map[k])
    /\ fault' = "report uses a deleted host_info"
    /\ out' = Nothing
    /\ UNCHANGED <<memory, access_cnt, upd, history>>

(* Bound on the counters, so that TLC's state space is finite. *)
Countable(h) == h.rsucc + h.rerr < MaxReports

ReportCounted(k, ok) ==
    /\ Ready
    /\ IsLive(host_map[k]) /\ Countable(heap[host_map[k]])
    /\ LET p == host_map[k]
           h == Count(heap[p], ok)
       IN
       \/ /\ ~h.overload /\ ~ok /\ Overloads(h)
          /\ heap' = [heap EXCEPT ![p] = SetOverload(h)]
          /\ idle_list' = Without(idle_list, p)
          /\ overload_list' = Append(overload_list, p)
       \/ /\ h.overload /\ ok /\ Recovers(h)
          /\ heap' = [heap EXCEPT ![p] = SetIdle(h)]
          /\ overload_list' = Without(overload_list, p)
          /\ idle_list' = Append(idle_list, p)
       \/ /\ ~(~h.overload /\ ~ok /\ Overloads(h))
          /\ ~(h.overload /\ ok /\ Recovers(h))
          /\ heap' = [heap EXCEPT ![p] = h]
          /\ UNCHANGED <<idle_list, overload_list>>
    /\ UNCHANGED host_map
    /\ Commit
    /\ UNCHANGED <<access_cnt, upd, fault, history>>

ReportHost ==
    \E k \in Keys :
        \/ ReportUnknown(k)
        \/ ReportDangling(k)
        \/ \E ok \in BOOLEAN : ReportCounted(k, ok)

-----------------------------------------------------------------------------
Update ==
    \/ \E hosts \in SUBSET Keys : UpdateStart(hosts)
    \/ \E k \in Keys, p \in Addrs : UpdateInsert(k, p)
    \/ UpdateCollect
    \/ \E k \in Keys : UpdateDelete(k)
    \/ UpdateEnd

Next == ChoiceOneHost \/ Update \/ ReportHost

Spec == Init /\ [][Next]_vars
-----------------------------------------------------------------------------
(* Properties. *)

(* Every pointer, counter and list of load_balance keeps its type. *)
TypeOK ==
    /\ heap \in [Addrs -> HostInfo \cup {Freed}]
    /\ host_map \in [Keys -> Addrs \cup {NULL}]
    /\ idle_list \in Seq(Addrs)
    /\ overload_list \in Seq(Addrs)
    /\ access_cnt \in Int
    /\ upd \in [at : {"idle", "insert", "delete"}, remote : SUBSET Keys, todo : SUBSET Keys]
    /\ fault \in {"none", "front of an empty list",
                  "update uses a deleted host_info", "report uses a deleted host_info"}
    /\ out.msg \in {"none", "GetHostResponse", "ReportStatusRequest"}
    /\ route \in SUBSET Keys
    /\ removed \in BOOLEAN
    /\ refused \in Nat
    /\ restarted \in BOOLEAN

NoDuplicates(l) == \A i, j \in 1..Len(l) : l[i] = l[j] => i = j

(* A list holds exactly the objects whose overload flag is this one. *)
ListHolds(l, flag) == Elems(l) = {p \in Live : heap[p].overload = flag}

(***************************************************************************)
(* The two lists partition the host_info objects that exist: each object   *)
(* that was created and not deleted is in exactly one list, once, in the   *)
(* one its overload flag names, and no list holds a deleted object.  So    *)
(* choice_one_host and commit never follow a dangling pointer, whatever    *)
(* update leaves behind in _host_map.                                      *)
(***************************************************************************)
ListsPartition ==
    /\ NoDuplicates(idle_list) /\ ListHolds(idle_list, FALSE)
    /\ NoDuplicates(overload_list) /\ ListHolds(overload_list, TRUE)

(* The map finds every object that exists under the object's own key. *)
LiveAreMapped == \A p \in Live : host_map[heap[p].key] = p

(***************************************************************************)
(* As long as update never had to delete a host, nothing undefined         *)
(* happens: every use of freed memory, and every front() of an empty list, *)
(* comes after a removal that left a pointer behind in _host_map.          *)
(***************************************************************************)
SafeUntilRemoval == fault # "none" => removed

(* Until then every entry of the map points to the object of its key. *)
MapExactUntilRemoval ==
    ~removed => \A k \in Keys : host_map[k] # NULL =>
                    IsLive(host_map[k]) /\ heap[host_map[k]].key = k

(* The keys update still has to do belong to the loop it is in. *)
UpdateSound ==
    /\ upd.at = "insert" => \A k \in upd.todo : host_map[k] = NULL
    /\ upd.at = "delete" => \A k \in upd.todo : host_map[k] # NULL

(* The inductive invariant behind ListsPartition and SafeUntilRemoval. *)
IInv ==
    /\ TypeOK /\ ListsPartition /\ LiveAreMapped
    /\ MapExactUntilRemoval /\ UpdateSound /\ SafeUntilRemoval

(***************************************************************************)
(* A host that is idle is not above the error rate, and one that is        *)
(* overloaded is not above the success rate: the checks that report makes  *)
(* only on one outcome are enough for every outcome ("when an idle node's  *)
(* failure rate is above this value, it becomes overload").                *)
(***************************************************************************)
RatesRespected ==
    \A p \in Live :
        LET h == heap[p] IN
        IF h.overload THEN h.vsucc * SuccDen <= SuccNum * (h.vsucc + h.verr)
                      ELSE h.verr * ErrDen <= ErrNum * (h.vsucc + h.verr)

(***************************************************************************)
(* Once _access_cnt has been set, callers of a load_balance whose hosts    *)
(* are all overloaded are refused at most probe_num times in a row before  *)
(* one of them gets a host to try, also when _access_cnt was driven up     *)
(* while some hosts were still idle.                                       *)
(***************************************************************************)
ProbeBound == restarted => refused <= ProbeNum

(***************************************************************************)
(* A report to the reporter lists every host that exists exactly once,     *)
(* marked overloaded or not as the host is at that moment.                 *)
(***************************************************************************)
ReportsAreComplete ==
    out.msg = "ReportStatusRequest" =>
        /\ \A i, j \in 1..Len(out.results) :
              out.results[i].key = out.results[j].key => i = j
        /\ \A p \in Live : \E i \in 1..Len(out.results) :
              /\ out.results[i].key = heap[p].key
              /\ out.results[i].overload = heap[p].overload

Before(l, p, q) == \E i, j \in 1..Len(l) : i < j /\ l[i] = p /\ l[j] = q

(* The step deletes the object at p, but means the host of another key. *)
Mistaken(p) == \E k \in upd.todo \ upd'.todo : host_map[k] = p /\ heap[p].key # k

(***************************************************************************)
(* A host that is in the route before and after an update stays: no step   *)
(* of update deletes it or touches its statistics, its list or its place   *)
(* among the hosts that stay.  The one exception is a host that was given  *)
(* the address of a deleted one, whose key still has that address in       *)
(* _host_map: it is deleted in the place of the other ("delete the hosts   *)
(* that are not in the response").                                         *)
(***************************************************************************)
UpdateKeepsSurvivors ==
    [][upd.at # "idle" =>
        \A p, q \in Live :
            (heap[p].key \in upd.remote /\ heap[q].key \in upd.remote)
              => \/ Mistaken(p) \/ Mistaken(q)
                 \/ /\ heap'[p] = heap[p]
                    /\ Before(idle_list, p, q) <=> Before(idle_list', p, q)
                    /\ Before(overload_list, p, q) <=> Before(overload_list', p, q)]_vars

(***************************************************************************)
(* "A new host is added to the idle list": between updates, every host of  *)
(* the route is in one of the lists, and can be chosen.                    *)
(***************************************************************************)
RouteIsListed ==
    Ready => \A k \in route : \E p \in Live : heap[p].key = k

(***************************************************************************)
(* "When the failures in a row of an idle node EXCEED this value, it       *)
(* becomes overload", and likewise for the successes of an overloaded one: *)
(* a host whose rate does not move it stays until its run is longer than   *)
(* the limit.                                                              *)
(***************************************************************************)
MovesOnlyIfExceeded ==
    [][\A p \in Live : LET h == heap[p] IN
        /\ ~h.overload /\ heap'[p] # Freed /\ heap'[p].overload
             => \/ (h.verr + 1) * ErrDen > ErrNum * (h.vsucc + h.verr + 1)
                \/ h.contin_err + 1 > ContinErrLimit
        /\ h.overload /\ heap'[p] # Freed /\ ~heap'[p].overload
             => \/ (h.vsucc + 1) * SuccDen > SuccNum * (h.vsucc + h.verr + 1)
                \/ h.contin_succ + 1 > ContinSuccLimit]_vars
=============================================================================
