----------------------------- MODULE DnsService -----------------------------
(***************************************************************************)
(* The DNS service (lars_dns): the route map that a backend thread keeps   *)
(* in step with the database (dns_route.cpp), the subscriptions and the    *)
(* publish list (subscribe.cpp), and the worker threads that answer route  *)
(* requests and push changes (dns_service.cpp).                            *)
(*                                                                         *)
(* What a route consists of does not matter here: the hosts of a modid/    *)
(* cmdid are abstracted to the number of the change that produced them, so *)
(* a client holds the current route exactly when it holds the current      *)
(* number.  A step is what a thread does between two accesses to state it  *)
(* shares with another thread, or one SQL statement.                       *)
(*                                                                         *)
(* Allow names the disturbances an instance admits:                        *)
(*   "statements"   the three SQL statements of a route change (test.sql)  *)
(*                  are separate, not one transaction                      *)
(*   "db error"     a query of the backend thread fails                    *)
(*   "overlap"      the backend thread starts its next round, after        *)
(*                  sleep(1), before the workers have run the push task    *)
(*   "boot"         routes change before the backend thread's first step   *)
(*   "second"       a route changes in the same second as the one before   *)
(*   "full"         the output buffer of a connection takes no message: a  *)
(*                  handler ignores that send_message failed               *)
(***************************************************************************)
EXTENDS Integers

CONSTANTS
    Mods,         \* modid/cmdid keys
    Fds,          \* descriptors of client connections; reused after a close
    N,            \* threads in the pool
    Allow,        \* see above
    MaxChanges,   \* bound: route changes made by the operator
    MaxConns,     \* bound: connections accepted in all
    MaxRequests   \* bound: route requests received in all

ASSUME DnsConstants ==
    /\ N \in Nat \ {0}
    /\ Allow \subseteq {"statements", "db error", "overlap", "boot", "second", "full"}
    /\ MaxChanges \in Nat /\ MaxConns \in Nat /\ MaxRequests \in Nat

Workers == 0..(N - 1)

NoRoute == -1

VARIABLES
    RouteData,    \* table: the number of the last change of each mod
    RouteVersion, \* table: the version, a time stamp
    RouteChange,  \* table: rows of a mod and a version
    op,           \* the operator's script: next statement, mod, version
    changes,      \* how many changes the operator has started
    data,         \* what _data_pointer points to
    temp,         \* what _temp_pointer points to
    version,      \* _version
    bpc,          \* where the backend thread is in check_route_changes
    change_list,  \* the mods load_changes returned
    notified,     \* how many workers send_task has given the task to
    sub_list,     \* mod -> descriptors subscribed to it
    pub_list,     \* descriptor -> changed mods not yet pushed to it
    tasks,        \* tasks[w]: push_change_task entries waiting for w
    wpc,          \* what worker w is doing
    need_pub,     \* need_pub[w]: the copy made by make_publish_map
    owner,        \* owner[fd]: the worker of an open connection, or N
    mods,         \* mods[fd]: client_sub_mod_list, the connection's param
    known,        \* known[fd][m]: what was last sent to the client for m
    left,         \* history: left[fd], what an earlier connection left in pub_list
    accepted,     \* connections accepted so far
    requests,     \* requests received so far
    lost          \* history: mods of which a change was lost by a disturbance

dbVars == <<RouteData, RouteVersion, RouteChange>>
opVars == <<op, changes>>
backVars == <<data, temp, version, bpc, change_list, notified>>
connVars == <<owner, mods, known, left, accepted, requests>>
workVars == <<wpc, need_pub>>
vars == <<dbVars, opVars, backVars, sub_list, pub_list, tasks, workVars,
          connVars, lost>>

OpIdle == [at |-> "idle", mod |-> NoRoute, ver |-> 0]

WIdle == [at |-> "idle", fd |-> NoRoute, mod |-> NoRoute]

(* Route::Route: both maps exist, build_maps has read RouteData. *)
Init ==
    /\ RouteData = [m \in Mods |-> 0]
    /\ RouteVersion = 0
    /\ RouteChange = {}
    /\ op = OpIdle
    /\ changes = 0
    /\ data = RouteData
    /\ temp = [m \in Mods |-> NoRoute]
    /\ version = 0
    /\ bpc = "boot"
    /\ change_list = {}
    /\ notified = 0
    /\ sub_list = [m \in Mods |-> {}]
    /\ pub_list = [fd \in Fds |-> {}]
    /\ tasks = [w \in Workers |-> 0]
    /\ wpc = [w \in Workers |-> WIdle]
    /\ need_pub = [w \in Workers |-> [fd \in Fds |-> {}]]
    /\ owner = [fd \in Fds |-> N]
    /\ mods = [fd \in Fds |-> {}]
    /\ known = [fd \in Fds |-> [m \in Mods |-> NoRoute]]
    /\ left = [fd \in Fds |-> {}]
    /\ accepted = 0
    /\ requests = 0
    /\ lost = {}

-----------------------------------------------------------------------------
(* The operator changes the route of a mod. *)

MayChange ==
    /\ op.at = "idle"
    /\ changes < MaxChanges
    /\ bpc = "boot" => "boot" \in Allow
    /\ changes' = changes + 1

(* UNIX_TIMESTAMP, in whole seconds: a new one, or that of the last change. *)
Stamps ==
    {changes + 1} \cup (IF "second" \in Allow /\ RouteVersion > 0 THEN {RouteVersion} ELSE {})

(* A change of m is in the database for a round that has not begun. *)
Later(m) ==
    \/ op.at # "idle" /\ op.mod = m /\ op.ver > version
    \/ \E r \in RouteChange : r.mod = m /\ r.ver > version

(* A change of m with stamp ver comes too late for the round that took it. *)
TooLate(m, ver) == IF ver <= version /\ bpc # "load" THEN {m} ELSE {}

(* INSERT INTO RouteData *)
ChangeData(m) ==
    /\ "statements" \in Allow
    /\ MayChange
    /\ RouteData' = [RouteData EXCEPT ![m] = changes + 1]
    /\ \E ver \in Stamps :
          /\ op' = [at |-> "version", mod |-> m, ver |-> ver]
          /\ lost' = lost \cup TooLate(m, ver)
    /\ UNCHANGED <<RouteVersion, RouteChange, backVars, sub_list, pub_list>>
    /\ UNCHANGED <<tasks, workVars, connVars>>

(* UPDATE RouteVersion *)
ChangeVersion ==
    /\ op.at = "version"
    /\ RouteVersion' = op.ver
    /\ op' = [op EXCEPT !.at = "change"]
    /\ UNCHANGED <<RouteData, RouteChange, changes, backVars, sub_list>>
    /\ UNCHANGED <<pub_list, tasks, workVars, connVars, lost>>

(* INSERT INTO RouteChange *)
ChangeRecord ==
    /\ op.at = "change"
    /\ RouteChange' = RouteChange \cup {[mod |-> op.mod, ver |-> op.ver]}
    /\ op' = OpIdle
    /\ UNCHANGED <<RouteData, RouteVersion, changes, backVars, sub_list>>
    /\ UNCHANGED <<pub_list, tasks, workVars, connVars, lost>>

(* The three statements in one transaction. *)
ChangeTransaction(m) ==
    /\ MayChange
    /\ RouteData' = [RouteData EXCEPT ![m] = changes + 1]
    /\ \E ver \in Stamps :
          /\ RouteVersion' = ver
          /\ RouteChange' = RouteChange \cup {[mod |-> m, ver |-> ver]}
          /\ lost' = lost \cup TooLate(m, ver)
    /\ UNCHANGED <<op, backVars, sub_list, pub_list, tasks, workVars, connVars>>

Operator ==
    \/ \E m \in Mods : ChangeData(m) \/ ChangeTransaction(m)
    \/ ChangeVersion
    \/ ChangeRecord

-----------------------------------------------------------------------------
(* The backend thread: check_route_changes *)

BackendKeeps ==
    /\ UNCHANGED <<RouteData, RouteVersion, opVars, sub_list, workVars, connVars>>

(* A query may fail. *)
DbFails == "db error" \in Allow

(* remove_changes(true), before the loop *)
RemoveAllChanges ==
    /\ bpc = "boot"
    /\ bpc' = "sleep"
    /\ \/ RouteChange' = {}
       \/ DbFails /\ UNCHANGED RouteChange
    /\ lost' = lost \cup {r.mod : r \in RouteChange \ RouteChange'}
    /\ BackendKeeps
    /\ UNCHANGED <<data, temp, version, change_list, notified, pub_list, tasks>>

(* Has every worker run the push task of the last round? *)
PushesDone ==
    \A w \in Workers : tasks[w] = 0 /\ wpc[w].at \notin {"push", "erase"}

(* sleep(1) is over: load_version finds a new version, and takes it ... *)
LoadVersionNew ==
    /\ bpc = "sleep"
    /\ "overlap" \in Allow \/ PushesDone
    /\ RouteVersion # version
    /\ version' = RouteVersion
    /\ bpc' = "load"
    /\ BackendKeeps
    /\ UNCHANGED <<RouteChange, data, temp, change_list, notified, pub_list, tasks, lost>>

(* ... or the old one (or no answer), and ten seconds have passed. *)
LoadVersionOld ==
    /\ bpc = "sleep"
    /\ RouteVersion = version \/ DbFails
    /\ bpc' = "reload"
    /\ BackendKeeps
    /\ UNCHANGED <<RouteChange, data, temp, version, change_list, notified>>
    /\ UNCHANGED <<pub_list, tasks, lost>>

(* Mutant: the caller does not look at load_route_data's return value. *)
LoadRouteDataUnchecked ==
    /\ bpc \in {"load", "reload"}
    /\ \/ temp' = RouteData
       \/ DbFails /\ temp' = [m \in Mods |-> NoRoute]
    /\ bpc' = IF bpc = "load" THEN "swap" ELSE "reswap"
    /\ BackendKeeps
    /\ UNCHANGED <<RouteChange, data, version, change_list, notified>>
    /\ UNCHANGED <<pub_list, tasks, lost>>

(* load_route_data clears temp, then fills it by one SELECT. *)
LoadRouteData ==
    /\ bpc \in {"load", "reload"}
    /\ \/ /\ temp' = RouteData
          /\ bpc' = IF bpc = "load" THEN "swap" ELSE "reswap"
          /\ UNCHANGED lost
       \/ /\ DbFails
          /\ temp' = [m \in Mods |-> NoRoute]
          /\ bpc' = IF bpc = "load" THEN "changes" ELSE "sleep"
          /\ lost' = lost \cup {m \in Mods : data[m] # RouteData[m] /\ ~Later(m)}
    /\ BackendKeeps
    /\ UNCHANGED <<RouteChange, data, version, change_list, notified>>
    /\ UNCHANGED <<pub_list, tasks>>

(* Mutant: only copies of the pointers are swapped. *)
SwapForgets ==
    /\ bpc \in {"swap", "reswap"}
    /\ bpc' = IF bpc = "swap" THEN "changes" ELSE "sleep"
    /\ BackendKeeps
    /\ UNCHANGED <<RouteChange, data, temp, version, change_list, notified>>
    /\ UNCHANGED <<pub_list, tasks, lost>>

(* Route::swap, under the write lock *)
Swap ==
    /\ bpc \in {"swap", "reswap"}
    /\ data' = temp
    /\ temp' = data
    /\ bpc' = IF bpc = "swap" THEN "changes" ELSE "sleep"
    /\ BackendKeeps
    /\ UNCHANGED <<RouteChange, version, change_list, notified, pub_list, tasks, lost>>

(* Mutant: the rows of the version itself are left out. *)
OldChangesStrict == {r \in RouteChange : r.ver < version}

(* The rows of RouteChange up to the version that was loaded. *)
OldChanges == {r \in RouteChange : r.ver <= version}

(* Mods whose row comes after load_changes, although its version is known. *)
LateMods == IF op.at # "idle" /\ op.ver <= version THEN {op.mod} ELSE {}

LoadChanges ==
    /\ bpc = "changes"
    /\ \/ change_list' = {r.mod : r \in OldChanges}
       \/ DbFails /\ change_list' = {}
    /\ lost' = lost \cup LateMods \cup ({r.mod : r \in OldChanges} \ change_list')
    /\ bpc' = "publish"
    /\ BackendKeeps
    /\ UNCHANGED <<RouteChange, data, temp, version, notified, pub_list, tasks>>

(* Mutant: everybody who subscribed to anything gets every change. *)
PublishToAll ==
    /\ bpc = "publish"
    /\ pub_list' = [fd \in Fds |->
           IF \E m \in Mods : fd \in sub_list[m] THEN pub_list[fd] \cup change_list ELSE pub_list[fd]]
    /\ notified' = 0
    /\ bpc' = "notify"
    /\ BackendKeeps
    /\ UNCHANGED <<RouteChange, data, temp, version, change_list, tasks, lost>>

(* SubscribeList::publish, under both mutexes *)
Publish ==
    /\ bpc = "publish"
    /\ pub_list' = [fd \in Fds |->
           pub_list[fd] \cup {m \in change_list : fd \in sub_list[m]}]
    /\ notified' = 0
    /\ bpc' = "notify"
    /\ BackendKeeps
    /\ UNCHANGED <<RouteChange, data, temp, version, change_list, tasks, lost>>

(* publish calls send_task: each worker gets a push_change_task. *)
Notify ==
    /\ bpc = "notify"
    /\ tasks' = [tasks EXCEPT ![notified] = @ + 1]
    /\ notified' = notified + 1
    /\ bpc' = IF notified + 1 < N THEN "notify" ELSE "remove"
    /\ BackendKeeps
    /\ UNCHANGED <<RouteChange, data, temp, version, change_list, pub_list, lost>>

(* remove_changes(false) *)
RemoveOldChanges ==
    /\ bpc = "remove"
    /\ \/ RouteChange' = RouteChange \ OldChanges
       \/ DbFails /\ UNCHANGED RouteChange
    /\ change_list' = {}
    /\ notified' = 0
    /\ bpc' = "sleep"
    /\ BackendKeeps
    /\ UNCHANGED <<data, temp, version, pub_list, tasks, lost>>

Backend ==
    \/ RemoveAllChanges \/ LoadVersionNew \/ LoadVersionOld \/ LoadRouteData
    \/ Swap \/ LoadChanges \/ Publish \/ Notify \/ RemoveOldChanges

-----------------------------------------------------------------------------
(* The workers. *)

WorkerKeeps == UNCHANGED <<dbVars, opVars, backVars, lost>>

Open(w) == {fd \in Fds : owner[fd] = w}

(* A connection reaches worker w: create_subscribe, add_io_event. *)
Accept(w, fd) ==
    /\ wpc[w] = WIdle
    /\ owner[fd] = N
    /\ accepted < MaxConns
    /\ accepted' = accepted + 1
    /\ owner' = [owner EXCEPT ![fd] = w]
    /\ mods' = [mods EXCEPT ![fd] = {}]
    /\ known' = [known EXCEPT ![fd] = [m \in Mods |-> NoRoute]]
    /\ left' = [left EXCEPT ![fd] = pub_list[fd]]
    /\ WorkerKeeps
    /\ UNCHANGED <<sub_list, pub_list, tasks, workVars, requests>>

(* get_request: subscribe first (once per connection) ... *)
Request(w, fd, m) ==
    /\ wpc[w] = WIdle
    /\ owner[fd] = w
    /\ requests < MaxRequests
    /\ requests' = requests + 1
    /\ mods' = [mods EXCEPT ![fd] = @ \cup {m}]
    /\ sub_list' = [sub_list EXCEPT ![m] = @ \cup {fd}]
    /\ wpc' = [wpc EXCEPT ![w] = [at |-> "reply", fd |-> fd, mod |-> m]]
    /\ WorkerKeeps
    /\ UNCHANGED <<pub_list, tasks, need_pub, owner, known, left, accepted>>

(* send_message: the route of m as it is now goes to fd, or nothing goes. *)
Send(fd, m) ==
    \/ /\ known' = [known EXCEPT ![fd][m] = data[m]]
       /\ UNCHANGED lost
    \/ /\ "full" \in Allow
       /\ lost' = lost \cup {m}
       /\ UNCHANGED known

(* ... then get_hosts under the read lock, and send_message. *)
Reply(w) ==
    /\ wpc[w].at = "reply"
    /\ Send(wpc[w].fd, wpc[w].mod)
    /\ wpc' = [wpc EXCEPT ![w] = WIdle]
    /\ UNCHANGED <<dbVars, opVars, backVars, sub_list, pub_list, tasks>>
    /\ UNCHANGED <<need_pub, owner, mods, left, accepted, requests>>

(* clean_conn calls clear_subscribe: unSubscribe, one mod at a time. *)
CloseStart(w, fd) ==
    /\ wpc[w] = WIdle
    /\ owner[fd] = w
    /\ wpc' = [wpc EXCEPT ![w] = [at |-> "close", fd |-> fd, mod |-> NoRoute]]
    /\ WorkerKeeps
    /\ UNCHANGED <<sub_list, pub_list, tasks, need_pub, connVars>>

(* Mutant: the descriptor stays in the subscription list. *)
UnSubscribeForgets(w, m) ==
    /\ wpc[w].at = "close"
    /\ m \in mods[wpc[w].fd]
    /\ mods' = [mods EXCEPT ![wpc[w].fd] = @ \ {m}]
    /\ WorkerKeeps
    /\ UNCHANGED <<sub_list, pub_list, tasks, workVars, owner, known>>
    /\ UNCHANGED <<left, accepted, requests>>

UnSubscribe(w, m) ==
    /\ wpc[w].at = "close"
    /\ m \in mods[wpc[w].fd]
    /\ mods' = [mods EXCEPT ![wpc[w].fd] = @ \ {m}]
    /\ sub_list' = [sub_list EXCEPT ![m] = @ \ {wpc[w].fd}]
    /\ WorkerKeeps
    /\ UNCHANGED <<pub_list, tasks, workVars, owner, known, left, accepted, requests>>

(* The descriptor is closed and may be handed out again. *)
CloseEnd(w) ==
    /\ wpc[w].at = "close"
    /\ mods[wpc[w].fd] = {}
    /\ owner' = [owner EXCEPT ![wpc[w].fd] = N]
    /\ known' = [known EXCEPT ![wpc[w].fd] = [m \in Mods |-> NoRoute]]
    /\ wpc' = [wpc EXCEPT ![w] = WIdle]
    /\ WorkerKeeps
    /\ UNCHANGED <<sub_list, pub_list, tasks, need_pub, mods, left, accepted, requests>>

(***************************************************************************)
(* push_change_task: copy what pub_list has for this loop's connections,   *)
(* under pub_mutex.                                                        *)
(***************************************************************************)
PushStart(w) ==
    /\ wpc[w] = WIdle
    /\ tasks[w] > 0
    /\ tasks' = [tasks EXCEPT ![w] = @ - 1]
    /\ need_pub' = [need_pub EXCEPT ![w] =
           [fd \in Fds |-> IF fd \in Open(w) THEN pub_list[fd] ELSE {}]]
    /\ wpc' = [wpc EXCEPT ![w] = [WIdle EXCEPT !.at = "push"]]
    /\ WorkerKeeps
    /\ UNCHANGED <<sub_list, pub_list, connVars>>

(* get_hosts for one mod of the copy, and send_message, unchecked. *)
PushSend(w, fd, m) ==
    /\ wpc[w].at = "push"
    /\ m \in need_pub[w][fd]
    /\ Send(fd, m)
    /\ need_pub' = [need_pub EXCEPT ![w][fd] = @ \ {m}]
    /\ left' = [left EXCEPT ![fd] = @ \ {m}]
    /\ wpc' = [wpc EXCEPT ![w] = [at |-> "erase", fd |-> fd, mod |-> m]]
    /\ UNCHANGED <<dbVars, opVars, backVars, sub_list, pub_list, tasks>>
    /\ UNCHANGED <<owner, mods, accepted, requests>>

(* Erase the descriptor's whole entry from pub_list, without a mutex. *)
PushErase(w) ==
    /\ wpc[w].at = "erase"
    /\ pub_list' = [pub_list EXCEPT ![wpc[w].fd] = {}]
    /\ lost' = lost \cup {m \in pub_list[wpc[w].fd] \ need_pub[w][wpc[w].fd] :
                              known[wpc[w].fd][m] # data[m] /\ ~Later(m)}
    /\ wpc' = [wpc EXCEPT ![w] = [WIdle EXCEPT !.at = "push"]]
    /\ UNCHANGED <<dbVars, opVars, backVars, sub_list, tasks, need_pub, connVars>>

PushEnd(w) ==
    /\ wpc[w].at = "push"
    /\ \A fd \in Fds : need_pub[w][fd] = {}
    /\ wpc' = [wpc EXCEPT ![w] = WIdle]
    /\ WorkerKeeps
    /\ UNCHANGED <<sub_list, pub_list, tasks, need_pub, connVars>>

(* What a worker does by itself once it has begun, or has a task. *)
WorkerRuns(w) ==
    \/ Reply(w)
    \/ \E m \in Mods : UnSubscribe(w, m)
    \/ CloseEnd(w)
    \/ PushStart(w)
    \/ \E fd \in Fds, m \in Mods : PushSend(w, fd, m)
    \/ PushErase(w)
    \/ PushEnd(w)

(* What a client makes a worker do. *)
ClientActs(w) ==
    \E fd \in Fds :
        \/ Accept(w, fd)
        \/ \E m \in Mods : Request(w, fd, m)
        \/ CloseStart(w, fd)

Next ==
    \/ Operator
    \/ Backend
    \/ \E w \in Workers : WorkerRuns(w) \/ ClientActs(w)

Spec == Init /\ [][Next]_vars

(***************************************************************************)
(* Fairness: the backend thread and the workers are scheduled, and the     *)
(* operator's script runs to its end.  Clients owe nothing, and nobody     *)
(* owes a further route change.                                            *)
(***************************************************************************)
FairSpec ==
    /\ Spec
    /\ WF_vars(Backend)
    /\ WF_vars(ChangeVersion \/ ChangeRecord)
    /\ \A w \in Workers : WF_vars(WorkerRuns(w))
-----------------------------------------------------------------------------
(* Properties. *)

(* Every table, map and list of the DNS service keeps its type. *)
TypeOK ==
    /\ RouteData \in [Mods -> Nat]
    /\ RouteVersion \in Nat
    /\ RouteChange \subseteq [mod : Mods, ver : Nat]
    /\ op \in [at : {"idle", "version", "change"}, mod : Mods \cup {NoRoute}, ver : Nat]
    /\ data \in [Mods -> Nat]
    /\ temp \in [Mods -> Nat \cup {NoRoute}]
    /\ version \in Nat
    /\ bpc \in {"boot", "sleep", "load", "reload", "swap", "reswap",
                "changes", "publish", "notify", "remove"}
    /\ change_list \subseteq Mods
    /\ notified \in Workers \cup {N}
    /\ sub_list \in [Mods -> SUBSET Fds]
    /\ pub_list \in [Fds -> SUBSET Mods]
    /\ tasks \in [Workers -> Nat]
    /\ wpc \in [Workers -> [at : {"idle", "reply", "close", "push", "erase"},
                            fd : Fds \cup {NoRoute}, mod : Mods \cup {NoRoute}]]
    /\ need_pub \in [Workers -> [Fds -> SUBSET Mods]]
    /\ owner \in [Fds -> 0..N]
    /\ mods \in [Fds -> SUBSET Mods]
    /\ known \in [Fds -> [Mods -> Nat \cup {NoRoute}]]
    /\ left \in [Fds -> SUBSET Mods]
    /\ lost \subseteq Mods

(* The connection of fd is open, and its worker is not answering it. *)
Settled(fd) == owner[fd] # N /\ wpc[owner[fd]].fd # fd

(* Every subscriber holds the route that is in the database. *)
AllFresh ==
    \A fd \in Fds : Settled(fd) =>
        \A m \in mods[fd] : known[fd][m] = RouteData[m]

(***************************************************************************)
(* Nothing is under way, no script, no round, no push, no new version, and *)
(* the service itself serves the routes of the database.                   *)
(***************************************************************************)
Quiet ==
    /\ op.at = "idle"
    /\ bpc = "sleep" /\ version = RouteVersion
    /\ data = RouteData
    /\ PushesDone

(***************************************************************************)
(* "If _data_pointer was updated, the clients that asked for its mods must *)
(* be told": once the service has come to rest, no subscriber is left with *)
(* an old route, wherever its request fell between load_route_data, swap,  *)
(* publish and the push task.                                              *)
(***************************************************************************)
Fresh == Quiet => AllFresh

(***************************************************************************)
(* The same under all disturbances: a subscriber that is left with an old  *)
(* route misses a change that was lost in one of six ways, and no other.   *)
(* The wipe at boot deleted its row; a query of its round failed; its row  *)
(* came after load_changes, but with a version that was already taken; it  *)
(* was made after that, in the same second; push_change_task erased it     *)
(* from pub_list without having sent it; or the output buffer was full and *)
(* the failure of send_message went unnoticed.                             *)
(***************************************************************************)
StaleOnlyIfLost ==
    Quiet => \A fd \in Fds : Settled(fd) =>
                 \A m \in mods[fd] \ lost : known[fd][m] = RouteData[m]

(***************************************************************************)
(* After the last change of a route every client that stays connected      *)
(* comes to hold the current routes of all its mods, for good.             *)
(***************************************************************************)
EventuallyFresh == <>[]AllFresh

(***************************************************************************)
(* On one connection the routes a client is sent never go back in time,    *)
(* although two maps take turns behind _data_pointer and both the request  *)
(* handler and the push task read it: no failed load is ever swapped in.   *)
(***************************************************************************)
NeverOlder ==
    [][\A fd \in Fds, m \in Mods :
         owner[fd] # N /\ owner'[fd] = owner[fd] => known'[fd][m] >= known[fd][m]]_vars

(***************************************************************************)
(* publish never picks a descriptor that is closed: the subscriptions of a *)
(* connection are gone before its descriptor can be handed out again.      *)
(***************************************************************************)
SubscribersAreOpen ==
    /\ TypeOK
    /\ \A m \in Mods : \A fd \in sub_list[m] : owner[fd] # N

(***************************************************************************)
(* "If a mod the client subscribed to has changed and it is still online,  *)
(* send to it": a change is pushed only to a client that asked for the mod *)
(* on that connection.  The one exception is a mod pub_list still held for *)
(* this very descriptor when the connection was accepted, because          *)
(* clear_subscribe leaves pub_list alone; such an entry is pushed once.    *)
(***************************************************************************)
PushedToSubscriber ==
    [][\A w \in Workers, fd \in Fds, m \in Mods :
         m \in need_pub[w][fd] \ need_pub'[w][fd] => m \in mods[fd] \cup left[fd]]_vars
=============================================================================
