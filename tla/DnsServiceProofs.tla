-------------------------- MODULE DnsServiceProofs --------------------------
(***************************************************************************)
(* Proofs about DnsService, for any number of workers, descriptors, mods   *)
(* and changes, and for every set of disturbances.                         *)
(*                                                                         *)
(* What a client is missing says nothing by itself of where it went: IInv  *)
(* follows a change on its way.  DataLags, TempLags and ClientLags say, of *)
(* every mod of which no change was lost, what is still to happen that     *)
(* will bring a change from the database to the map in use, to the other   *)
(* map, and to a subscriber.  Safe is what those three rest on: the stamps *)
(* are ordered, routes only get older on the way, the two copies of the    *)
(* subscriptions agree, and a worker works on its own connections.         *)
(* Undisturbed is what is added when Allow is empty, and Inherited tells   *)
(* what a connection asked for from what its descriptor came with.         *)
(***************************************************************************)
EXTENDS DnsService, TLAPS

(***************************************************************************)
(* Every variable has its type, those that only bounds count included, and *)
(* send_task has a worker left to give the task to.                        *)
(***************************************************************************)
Types ==
    /\ TypeOK
    /\ changes \in Nat /\ accepted \in Nat /\ requests \in Nat
    /\ bpc = "notify" => notified \in Workers

(***************************************************************************)
(* A worker works on a connection of its own, which nobody else closes, as *)
(* long as it answers, closes or pushes.                                   *)
(***************************************************************************)
WorksOnOwn(w) ==
    /\ wpc[w].at \in {"reply", "close", "erase"} =>
           wpc[w].fd \in Fds /\ owner[wpc[w].fd] = w
    /\ wpc[w].at = "reply" => wpc[w].mod \in Mods
    /\ \A fd \in Fds : need_pub[w][fd] # {} =>
           owner[fd] = w /\ wpc[w].at \in {"push", "erase"}

(* sub_list and the module lists of the connections say the same. *)
Mirrored(fd) ==
    /\ \A m \in Mods : fd \in sub_list[m] <=> m \in mods[fd]
    /\ owner[fd] = N => mods[fd] = {}

(* Stamps grow, and a row comes after the version it belongs to. *)
Versions ==
    /\ version <= RouteVersion /\ RouteVersion <= changes
    /\ \A r \in RouteChange : r.ver <= RouteVersion
    /\ op.at = "version" => RouteVersion <= op.ver /\ op.ver <= changes
    /\ op.at = "change" => op.ver = RouteVersion
    /\ op.at # "idle" => op.mod \in Mods

(* Routes grow older on their way from the database to a client. *)
Ages(m) ==
    /\ RouteData[m] <= changes
    /\ data[m] <= RouteData[m]
    /\ bpc \in {"swap", "reswap"} => data[m] <= temp[m] /\ temp[m] <= RouteData[m]
    /\ \A fd \in Fds : known[fd][m] <= data[m]

(* What every thread can rely on. *)
Safe ==
    /\ Types /\ Versions
    /\ \A w \in Workers : WorksOnOwn(w)
    /\ \A fd \in Fds : Mirrored(fd)
    /\ \A m \in Mods : Ages(m)

(* The worker of fd is closing it: its param may be gone already. *)
Closing(fd) == wpc[owner[fd]].at = "close" /\ wpc[owner[fd]].fd = fd

(* The worker of fd is closing it, or about to erase its entry. *)
Ending(fd) == wpc[owner[fd]].at \in {"close", "erase"} /\ wpc[owner[fd]].fd = fd

(* What is to be pushed was asked for, or was there when fd was accepted. *)
Inherited ==
    \A fd \in Fds :
        /\ owner[fd] # N /\ ~Ending(fd) => pub_list[fd] \subseteq mods[fd] \cup left[fd]
        /\ \A w \in Workers : need_pub[w][fd] \subseteq mods[fd] \cup left[fd]

(* A change of m is in the database for the round that is going on. *)
ThisRound(m) ==
    \/ op.at # "idle" /\ op.mod = m /\ op.ver <= version
    \/ \E r \in RouteChange : r.mod = m /\ r.ver <= version

(* Worker w has, or will get, a push task. *)
Tasked(w) == tasks[w] > 0 \/ (bpc = "notify" /\ notified <= w)

(* What is still to happen that will bring the route of m to fd. *)
Coming(fd, m) ==
    \/ Later(m)
    \/ bpc \in {"load", "swap", "changes"} /\ ThisRound(m)
    \/ bpc = "publish" /\ m \in change_list
    \/ m \in pub_list[fd] /\ Tasked(owner[fd])
    \/ m \in need_pub[owner[fd]][fd]
    \/ wpc[owner[fd]].at = "reply" /\ wpc[owner[fd]].fd = fd /\ wpc[owner[fd]].mod = m
    \/ Closing(fd)

(* The map in use lags behind the database only if a round will load it. *)
DataLags(m) ==
    data[m] # RouteData[m] =>
        Later(m) \/ (bpc \in {"load", "swap"} /\ ThisRound(m))

(* The same for the map that is about to be used. *)
TempLags(m) ==
    bpc \in {"swap", "reswap"} =>
        /\ temp[m] # RouteData[m] => Later(m)
        /\ temp[m] # data[m] => Later(m) \/ (bpc = "swap" /\ ThisRound(m))

(* A subscriber lags behind the map in use only if a push is coming. *)
ClientLags(m) ==
    \A fd \in Fds :
        owner[fd] # N /\ m \in mods[fd] /\ known[fd][m] # data[m] => Coming(fd, m)

(* Nothing is forgotten, except what was lost. *)
Lags == \A m \in Mods \ lost : DataLags(m) /\ TempLags(m) /\ ClientLags(m)

(***************************************************************************)
(* What worker w has taken out of its copy of pub_list was sent, and is    *)
(* still current: pub_list may forget it.                                  *)
(***************************************************************************)
Sent(w, fd, m) ==
    wpc[w].at \in {"push", "erase"} /\ owner[fd] = w
      /\ m \in pub_list[fd] \ need_pub[w][fd] /\ known[fd][m] # data[m] => Later(m)

(* If nothing disturbs: a round starts when the pushes of the last are done. *)
Undisturbed ==
    Allow = {} =>
        /\ lost = {} /\ op.at = "idle"
        /\ bpc = "boot" => RouteChange = {}
        /\ bpc \in {"load", "swap", "changes", "publish"} => PushesDone
        /\ \A w \in Workers, fd \in Fds, m \in Mods : Sent(w, fd, m)

(* The inductive invariant. *)
IInv == Safe /\ Inherited /\ Lags /\ Undisturbed

(* The workers are numbered from 0; N stands for no worker. *)
LEMMA WorkerNumbers ==
  /\ N \in Nat /\ N > 0 /\ 0 \in Workers /\ N \notin Workers
  /\ \A w \in Workers : w \in Nat /\ w < N /\ w \in 0..N
  /\ \A n \in Nat : n < N => n \in Workers
  /\ \A n \in 0..N : n = N \/ n \in Workers
  <1>1. N \in Nat \ {0}
    BY DnsConstants
  <1>2. QED
    BY <1>1 DEF Workers

(* A message that is sent brings the route in use; one that is not, loses it. *)
LEMMA SendEffect ==
  ASSUME Types, NEW fd \in Fds, NEW m \in Mods, Send(fd, m)
  PROVE  /\ known' \in [Fds -> [Mods -> Nat \cup {NoRoute}]]
         /\ lost \subseteq lost' /\ lost' \subseteq Mods
         /\ Allow = {} => lost' = lost
         /\ known'[fd][m] = data[m] \/ m \in lost'
         /\ \A f \in Fds, n \in Mods :
               known'[f][n] = known[f][n] \/ (f = fd /\ n = m /\ known'[f][n] = data[n])
  <1>1. CASE known' = [known EXCEPT ![fd][m] = data[m]] /\ lost' = lost
    <2>1. data[m] \in Nat /\ lost \subseteq Mods
          /\ known \in [Fds -> [Mods -> Nat \cup {NoRoute}]]
      BY DEF Types, TypeOK
    <2>2. QED
      BY <1>1, <2>1
  <1>2. CASE "full" \in Allow /\ lost' = lost \cup {m} /\ known' = known
    BY <1>2 DEF Types, TypeOK
  <1>3. QED
    BY <1>1, <1>2 DEF Send

(* No step of any thread gives a variable a value of another type. *)
LEMMA TypesStep ==
  ASSUME Safe, Next
  PROVE  Types'
  <1> USE DEF dbVars, opVars, backVars, connVars, workVars
  <1>0. /\ Types /\ Versions
        /\ \A w \in Workers : WorksOnOwn(w)
        /\ \A m \in Mods : Ages(m)
    BY DEF Safe
  <1>1. ASSUME NEW m \in Mods, ChangeData(m) PROVE Types'
    BY <1>0, <1>1 DEF Types, TypeOK, ChangeData, MayChange, Stamps, TooLate
  <1>2. ASSUME ChangeVersion PROVE Types'
    BY <1>0, <1>2 DEF Types, TypeOK, ChangeVersion
  <1>3. ASSUME ChangeRecord PROVE Types'
    <2>1. op.mod \in Mods /\ op.ver \in Nat
      BY <1>0, <1>3 DEF Types, TypeOK, Versions, ChangeRecord
    <2>2. RouteChange' \subseteq [mod : Mods, ver : Nat]
      BY <1>0, <1>3, <2>1 DEF Types, TypeOK, ChangeRecord
    <2>3. QED
      BY <1>0, <1>3, <2>2 DEF Types, TypeOK, ChangeRecord, OpIdle, NoRoute
  <1>4. ASSUME NEW m \in Mods, ChangeTransaction(m) PROVE Types'
    BY <1>0, <1>4 DEF Types, TypeOK, ChangeTransaction, MayChange, Stamps, TooLate
  <1>5. ASSUME RemoveAllChanges PROVE Types'
    BY <1>0, <1>5 DEF Types, TypeOK, RemoveAllChanges, BackendKeeps
  <1>6. ASSUME LoadVersionNew PROVE Types'
    BY <1>0, <1>6 DEF Types, TypeOK, LoadVersionNew, BackendKeeps
  <1>7. ASSUME LoadVersionOld PROVE Types'
    BY <1>0, <1>7 DEF Types, TypeOK, LoadVersionOld, BackendKeeps
  <1>8. ASSUME LoadRouteData PROVE Types'
    BY <1>0, <1>8 DEF Types, TypeOK, LoadRouteData, BackendKeeps
  <1>9. ASSUME Swap PROVE Types'
    <2>1. ASSUME NEW m \in Mods PROVE temp[m] \in Nat
      BY <1>0, <1>9, NoRoute \notin Nat DEF Types, TypeOK, Ages, Swap, NoRoute
    <2>2. data' \in [Mods -> Nat] /\ temp' \in [Mods -> Nat \cup {NoRoute}]
      BY <1>0, <1>9, <2>1 DEF Types, TypeOK, Swap
    <2>3. QED
      BY <1>0, <1>9, <2>2 DEF Types, TypeOK, Swap, BackendKeeps
  <1>10. ASSUME LoadChanges PROVE Types'
    <2>1. change_list' \subseteq Mods /\ lost' \subseteq Mods
      BY <1>0, <1>10 DEF Types, TypeOK, Versions, LoadChanges, LateMods, OldChanges
    <2>2. QED
      BY <1>0, <1>10, <2>1 DEF Types, TypeOK, LoadChanges, BackendKeeps
  <1>11. ASSUME Publish PROVE Types'
    BY <1>0, <1>11, WorkerNumbers DEF Types, TypeOK, Publish, BackendKeeps
  <1>12. ASSUME Notify PROVE Types'
    <2>1. /\ notified' \in Workers \cup {N}
          /\ bpc' = "notify" => notified' \in Workers
      <3>1. notified \in Workers /\ notified' = notified + 1
        BY <1>0, <1>12 DEF Types, Notify
      <3>2. notified \in Nat /\ (notified + 1 < N \/ notified + 1 = N)
        BY <3>1, WorkerNumbers
      <3>3. bpc' = "notify" => notified + 1 < N
        BY <1>12 DEF Notify
      <3>4. notified' < N => notified' \in Workers
        BY <3>1, <3>2, WorkerNumbers
      <3>5. QED
        BY <3>1, <3>2, <3>3, <3>4
    <2>2. tasks' \in [Workers -> Nat]
      BY <1>0, <1>12 DEF Types, TypeOK, Notify
    <2>3. QED
      BY <1>0, <1>12, <2>1, <2>2 DEF Types, TypeOK, Notify, BackendKeeps
  <1>13. ASSUME RemoveOldChanges PROVE Types'
    BY <1>0, <1>13, WorkerNumbers
    DEF Types, TypeOK, RemoveOldChanges, OldChanges, BackendKeeps
  <1>14. ASSUME NEW w \in Workers, NEW fd \in Fds, Accept(w, fd) PROVE Types'
    BY <1>0, <1>14, WorkerNumbers DEF Types, TypeOK, Accept, WIdle, WorkerKeeps
  <1>15. ASSUME NEW w \in Workers, NEW fd \in Fds, NEW m \in Mods,
                Request(w, fd, m)
         PROVE  Types'
    BY <1>0, <1>15 DEF Types, TypeOK, Request, WIdle, WorkerKeeps
  <1>16. ASSUME NEW w \in Workers, Reply(w) PROVE Types'
    <2>1. wpc[w].fd \in Fds /\ wpc[w].mod \in Mods /\ Send(wpc[w].fd, wpc[w].mod)
      BY <1>0, <1>16 DEF WorksOnOwn, Reply
    <2>2. known' \in [Fds -> [Mods -> Nat \cup {NoRoute}]] /\ lost' \subseteq Mods
      BY <1>0, <2>1, SendEffect
    <2>3. QED
      BY <1>0, <1>16, <2>2 DEF Types, TypeOK, Reply, WIdle
  <1>17. ASSUME NEW w \in Workers, NEW fd \in Fds, CloseStart(w, fd) PROVE Types'
    BY <1>0, <1>17 DEF Types, TypeOK, CloseStart, WIdle, WorkerKeeps
  <1>18. ASSUME NEW w \in Workers, NEW m \in Mods, UnSubscribe(w, m) PROVE Types'
    BY <1>0, <1>18 DEF Types, TypeOK, UnSubscribe, WorkerKeeps
  <1>19. ASSUME NEW w \in Workers, CloseEnd(w) PROVE Types'
    <2>1. wpc[w].fd \in Fds
      BY <1>0, <1>19 DEF WorksOnOwn, CloseEnd
    <2>2. owner' \in [Fds -> 0..N]
      BY <1>0, <1>19, <2>1, WorkerNumbers DEF Types, TypeOK, CloseEnd
    <2>3. known' \in [Fds -> [Mods -> Nat \cup {NoRoute}]]
      BY <1>0, <1>19, <2>1 DEF Types, TypeOK, CloseEnd
    <2>4. QED
      BY <1>0, <1>19, <2>2, <2>3 DEF Types, TypeOK, CloseEnd, WIdle, WorkerKeeps
  <1>20. ASSUME NEW w \in Workers, PushStart(w) PROVE Types'
    BY <1>0, <1>20 DEF Types, TypeOK, PushStart, WIdle, Open, WorkerKeeps
  <1>21. ASSUME NEW w \in Workers, NEW fd \in Fds, NEW m \in Mods,
                PushSend(w, fd, m)
         PROVE  Types'
    <2>1. known' \in [Fds -> [Mods -> Nat \cup {NoRoute}]] /\ lost' \subseteq Mods
      BY <1>0, <1>21, SendEffect DEF PushSend
    <2>2. wpc' \in [Workers -> [at : {"idle", "reply", "close", "push", "erase"},
                                fd : Fds \cup {NoRoute}, mod : Mods \cup {NoRoute}]]
      BY <1>0, <1>21 DEF Types, TypeOK, PushSend
    <2>3. need_pub' \in [Workers -> [Fds -> SUBSET Mods]] /\ left' \in [Fds -> SUBSET Mods]
      BY <1>0, <1>21 DEF Types, TypeOK, PushSend
    <2>4. QED
      BY <1>0, <1>21, <2>1, <2>2, <2>3 DEF Types, TypeOK, PushSend
  <1>22. ASSUME NEW w \in Workers, PushErase(w) PROVE Types'
    <2>1. wpc[w].fd \in Fds
      BY <1>0, <1>22 DEF WorksOnOwn, PushErase
    <2>2. lost' \subseteq Mods /\ pub_list' \in [Fds -> SUBSET Mods]
      BY <1>0, <1>22, <2>1 DEF Types, TypeOK, PushErase
    <2>3. QED
      BY <1>0, <1>22, <2>2 DEF Types, TypeOK, PushErase, WIdle
  <1>23. ASSUME NEW w \in Workers, PushEnd(w) PROVE Types'
    BY <1>0, <1>23 DEF Types, TypeOK, PushEnd, WIdle, WorkerKeeps
  <1>24. QED
    BY <1>1, <1>2, <1>3, <1>4, <1>5, <1>6, <1>7, <1>8, <1>9, <1>10, <1>11,
       <1>12, <1>13, <1>14, <1>15, <1>16, <1>17, <1>18, <1>19, <1>20, <1>21,
       <1>22, <1>23
    DEF Next, Operator, Backend, WorkerRuns, ClientActs

(* The stamps stay ordered, whichever statement of whichever change runs. *)
LEMMA VersionsStep ==
  ASSUME Safe, Next
  PROVE  Versions'
  <1> USE DEF dbVars, opVars, backVars, connVars, workVars
  <1>0. /\ Types /\ Versions
        /\ \A w \in Workers : WorksOnOwn(w)
        /\ \A fd \in Fds : Mirrored(fd)
        /\ \A m \in Mods : Ages(m)
    BY DEF Safe
  <1>1. ASSUME NEW m \in Mods, ChangeData(m) PROVE Versions'
    BY <1>0, <1>1 DEF Types, TypeOK, Versions, ChangeData, MayChange, Stamps, TooLate
  <1>2. ASSUME ChangeVersion PROVE Versions'
    BY <1>0, <1>2 DEF Types, TypeOK, Versions, ChangeVersion
  <1>3. ASSUME ChangeRecord PROVE Versions'
    BY <1>0, <1>3 DEF Types, TypeOK, Versions, ChangeRecord, OpIdle
  <1>4. ASSUME NEW m \in Mods, ChangeTransaction(m) PROVE Versions'
    BY <1>0, <1>4
    DEF Types, TypeOK, Versions, ChangeTransaction, MayChange, Stamps, TooLate
  <1>5. ASSUME RemoveAllChanges PROVE Versions'
    BY <1>0, <1>5 DEF Types, TypeOK, Versions, RemoveAllChanges, BackendKeeps
  <1>6. ASSUME LoadVersionNew PROVE Versions'
    BY <1>0, <1>6 DEF Types, TypeOK, Versions, LoadVersionNew, BackendKeeps
  <1>7. ASSUME LoadVersionOld PROVE Versions'
    BY <1>0, <1>7 DEF Types, TypeOK, Versions, LoadVersionOld, BackendKeeps
  <1>8. ASSUME LoadRouteData PROVE Versions'
    BY <1>0, <1>8 DEF Types, TypeOK, Versions, LoadRouteData, BackendKeeps
  <1>9. ASSUME Swap PROVE Versions'
    BY <1>0, <1>9 DEF Types, TypeOK, Versions, Swap, BackendKeeps
  <1>10. ASSUME LoadChanges PROVE Versions'
    BY <1>0, <1>10
    DEF Types, TypeOK, Versions, LoadChanges, LateMods, OldChanges, BackendKeeps
  <1>11. ASSUME Publish PROVE Versions'
    BY <1>0, <1>11 DEF Types, TypeOK, Versions, Publish, BackendKeeps
  <1>12. ASSUME Notify PROVE Versions'
    BY <1>0, <1>12 DEF Types, TypeOK, Versions, Notify, BackendKeeps
  <1>13. ASSUME RemoveOldChanges PROVE Versions'
    BY <1>0, <1>13
    DEF Types, TypeOK, Versions, RemoveOldChanges, OldChanges, BackendKeeps
  <1>14. ASSUME NEW w \in Workers, NEW fd \in Fds, Accept(w, fd) PROVE Versions'
    BY <1>0, <1>14 DEF Types, TypeOK, Versions, Accept, WIdle, WorkerKeeps
  <1>15. ASSUME NEW w \in Workers, NEW fd \in Fds, NEW m \in Mods,
                Request(w, fd, m)
         PROVE  Versions'
    BY <1>0, <1>15 DEF Types, TypeOK, Versions, Request, WIdle, WorkerKeeps
  <1>16. ASSUME NEW w \in Workers, Reply(w) PROVE Versions'
    BY <1>0, <1>16 DEF Types, TypeOK, Versions, Reply, WIdle, WorkerKeeps
  <1>17. ASSUME NEW w \in Workers, NEW fd \in Fds, CloseStart(w, fd) PROVE Versions'
    BY <1>0, <1>17 DEF Types, TypeOK, Versions, CloseStart, WIdle, WorkerKeeps
  <1>18. ASSUME NEW w \in Workers, NEW m \in Mods, UnSubscribe(w, m) PROVE Versions'
    BY <1>0, <1>18 DEF Types, TypeOK, Versions, UnSubscribe, WorkerKeeps
  <1>19. ASSUME NEW w \in Workers, CloseEnd(w) PROVE Versions'
    BY <1>0, <1>19 DEF Types, TypeOK, Versions, CloseEnd, WIdle, WorkerKeeps
  <1>20. ASSUME NEW w \in Workers, PushStart(w) PROVE Versions'
    BY <1>0, <1>20 DEF Types, TypeOK, Versions, PushStart, WIdle, Open, WorkerKeeps
  <1>21. ASSUME NEW w \in Workers, NEW fd \in Fds, NEW m \in Mods,
                PushSend(w, fd, m)
         PROVE  Versions'
    BY <1>0, <1>21 DEF Types, TypeOK, Versions, PushSend, WorkerKeeps
  <1>22. ASSUME NEW w \in Workers, PushErase(w) PROVE Versions'
    BY <1>0, <1>22 DEF Types, TypeOK, Versions, PushErase, WIdle
  <1>23. ASSUME NEW w \in Workers, PushEnd(w) PROVE Versions'
    BY <1>0, <1>23 DEF Types, TypeOK, Versions, PushEnd, WIdle, WorkerKeeps
  <1>24. QED
    BY <1>1, <1>2, <1>3, <1>4, <1>5, <1>6, <1>7, <1>8, <1>9, <1>10, <1>11,
       <1>12, <1>13, <1>14, <1>15, <1>16, <1>17, <1>18, <1>19, <1>20, <1>21,
       <1>22, <1>23
    DEF Next, Operator, Backend, WorkerRuns, ClientActs

(* No thread closes, or takes, a connection another worker is working on. *)
LEMMA WorksOnOwnStep ==
  ASSUME Safe, Next
  PROVE  \A u \in Workers : WorksOnOwn(u)'
  <1> USE DEF dbVars, opVars, backVars, connVars, workVars
  <1>0. /\ Types /\ Versions
        /\ \A w \in Workers : WorksOnOwn(w)
        /\ \A fd \in Fds : Mirrored(fd)
        /\ \A m \in Mods : Ages(m)
    BY DEF Safe
  <1>1. ASSUME NEW m \in Mods, ChangeData(m) PROVE \A u \in Workers : WorksOnOwn(u)'
    BY <1>0, <1>1 DEF Types, TypeOK, WorksOnOwn, ChangeData, MayChange, Stamps, TooLate
  <1>2. ASSUME ChangeVersion PROVE \A u \in Workers : WorksOnOwn(u)'
    BY <1>0, <1>2 DEF Types, TypeOK, WorksOnOwn, ChangeVersion
  <1>3. ASSUME ChangeRecord PROVE \A u \in Workers : WorksOnOwn(u)'
    BY <1>0, <1>3 DEF Types, TypeOK, WorksOnOwn, ChangeRecord, OpIdle
  <1>4. ASSUME NEW m \in Mods, ChangeTransaction(m)
        PROVE  \A u \in Workers : WorksOnOwn(u)'
    BY <1>0, <1>4
    DEF Types, TypeOK, WorksOnOwn, ChangeTransaction, MayChange, Stamps, TooLate
  <1>5. ASSUME RemoveAllChanges PROVE \A u \in Workers : WorksOnOwn(u)'
    BY <1>0, <1>5 DEF Types, TypeOK, WorksOnOwn, RemoveAllChanges, BackendKeeps
  <1>6. ASSUME LoadVersionNew PROVE \A u \in Workers : WorksOnOwn(u)'
    BY <1>0, <1>6 DEF Types, TypeOK, WorksOnOwn, LoadVersionNew, BackendKeeps
  <1>7. ASSUME LoadVersionOld PROVE \A u \in Workers : WorksOnOwn(u)'
    BY <1>0, <1>7 DEF Types, TypeOK, WorksOnOwn, LoadVersionOld, BackendKeeps
  <1>8. ASSUME LoadRouteData PROVE \A u \in Workers : WorksOnOwn(u)'
    BY <1>0, <1>8 DEF Types, TypeOK, WorksOnOwn, LoadRouteData, BackendKeeps
  <1>9. ASSUME Swap PROVE \A u \in Workers : WorksOnOwn(u)'
    BY <1>0, <1>9 DEF Types, TypeOK, WorksOnOwn, Swap, BackendKeeps
  <1>10. ASSUME LoadChanges PROVE \A u \in Workers : WorksOnOwn(u)'
    BY <1>0, <1>10
    DEF Types, TypeOK, WorksOnOwn, LoadChanges, LateMods, OldChanges,
        BackendKeeps
  <1>11. ASSUME Publish PROVE \A u \in Workers : WorksOnOwn(u)'
    BY <1>0, <1>11 DEF Types, TypeOK, WorksOnOwn, Publish, BackendKeeps
  <1>12. ASSUME Notify PROVE \A u \in Workers : WorksOnOwn(u)'
    BY <1>0, <1>12 DEF Types, TypeOK, WorksOnOwn, Notify, BackendKeeps
  <1>13. ASSUME RemoveOldChanges PROVE \A u \in Workers : WorksOnOwn(u)'
    BY <1>0, <1>13
    DEF Types, TypeOK, WorksOnOwn, RemoveOldChanges, OldChanges, BackendKeeps
  <1>14. ASSUME NEW w \in Workers, NEW fd \in Fds, Accept(w, fd)
         PROVE  \A u \in Workers : WorksOnOwn(u)'
    BY <1>0, <1>14, WorkerNumbers
    DEF Types, TypeOK, WorksOnOwn, Accept, WIdle, WorkerKeeps
  <1>15. ASSUME NEW w \in Workers, NEW fd \in Fds, NEW m \in Mods,
                Request(w, fd, m)
         PROVE  \A u \in Workers : WorksOnOwn(u)'
    BY <1>0, <1>15 DEF Types, TypeOK, WorksOnOwn, Request, WIdle, WorkerKeeps
  <1>16. ASSUME NEW w \in Workers, Reply(w) PROVE \A u \in Workers : WorksOnOwn(u)'
    BY <1>0, <1>16 DEF Types, TypeOK, WorksOnOwn, Reply, WIdle, WorkerKeeps
  <1>17. ASSUME NEW w \in Workers, NEW fd \in Fds, CloseStart(w, fd)
         PROVE  \A u \in Workers : WorksOnOwn(u)'
    BY <1>0, <1>17 DEF Types, TypeOK, WorksOnOwn, CloseStart, WIdle, WorkerKeeps
  <1>18. ASSUME NEW w \in Workers, NEW m \in Mods, UnSubscribe(w, m)
         PROVE  \A u \in Workers : WorksOnOwn(u)'
    BY <1>0, <1>18 DEF Types, TypeOK, WorksOnOwn, UnSubscribe, WorkerKeeps
  <1>19. ASSUME NEW w \in Workers, CloseEnd(w) PROVE \A u \in Workers : WorksOnOwn(u)'
    BY <1>0, <1>19 DEF Types, TypeOK, WorksOnOwn, CloseEnd, WIdle, WorkerKeeps
  <1>20. ASSUME NEW w \in Workers, PushStart(w) PROVE \A u \in Workers : WorksOnOwn(u)'
    BY <1>0, <1>20 DEF Types, TypeOK, WorksOnOwn, PushStart, WIdle, Open, WorkerKeeps
  <1>21. ASSUME NEW w \in Workers, NEW fd \in Fds, NEW m \in Mods,
                PushSend(w, fd, m)
         PROVE  \A u \in Workers : WorksOnOwn(u)'
    BY <1>0, <1>21 DEF Types, TypeOK, WorksOnOwn, PushSend, WorkerKeeps
  <1>22. ASSUME NEW w \in Workers, PushErase(w) PROVE \A u \in Workers : WorksOnOwn(u)'
    BY <1>0, <1>22 DEF Types, TypeOK, WorksOnOwn, PushErase, WIdle
  <1>23. ASSUME NEW w \in Workers, PushEnd(w) PROVE \A u \in Workers : WorksOnOwn(u)'
    BY <1>0, <1>23 DEF Types, TypeOK, WorksOnOwn, PushEnd, WIdle, WorkerKeeps
  <1>24. QED
    BY <1>1, <1>2, <1>3, <1>4, <1>5, <1>6, <1>7, <1>8, <1>9, <1>10, <1>11,
       <1>12, <1>13, <1>14, <1>15, <1>16, <1>17, <1>18, <1>19, <1>20, <1>21,
       <1>22, <1>23
    DEF Next, Operator, Backend, WorkerRuns, ClientActs

(***************************************************************************)
(* subscribe, unsubscribe and the close keep the two lists of              *)
(* subscriptions equal.                                                    *)
(***************************************************************************)
LEMMA MirroredStep ==
  ASSUME Safe, Next
  PROVE  \A f \in Fds : Mirrored(f)'
  <1> USE DEF dbVars, opVars, backVars, connVars, workVars
  <1>0. /\ Types /\ Versions
        /\ \A w \in Workers : WorksOnOwn(w)
        /\ \A fd \in Fds : Mirrored(fd)
        /\ \A m \in Mods : Ages(m)
    BY DEF Safe
  <1>1. ASSUME NEW m \in Mods, ChangeData(m) PROVE \A f \in Fds : Mirrored(f)'
    BY <1>0, <1>1
    DEF Types, TypeOK, Mirrored, WorksOnOwn, ChangeData, MayChange, Stamps,
        TooLate
  <1>2. ASSUME ChangeVersion PROVE \A f \in Fds : Mirrored(f)'
    BY <1>0, <1>2 DEF Types, TypeOK, Mirrored, WorksOnOwn, ChangeVersion
  <1>3. ASSUME ChangeRecord PROVE \A f \in Fds : Mirrored(f)'
    BY <1>0, <1>3 DEF Types, TypeOK, Mirrored, WorksOnOwn, ChangeRecord, OpIdle
  <1>4. ASSUME NEW m \in Mods, ChangeTransaction(m) PROVE \A f \in Fds : Mirrored(f)'
    BY <1>0, <1>4
    DEF Types, TypeOK, Mirrored, WorksOnOwn, ChangeTransaction, MayChange,
        Stamps, TooLate
  <1>5. ASSUME RemoveAllChanges PROVE \A f \in Fds : Mirrored(f)'
    BY <1>0, <1>5
    DEF Types, TypeOK, Mirrored, WorksOnOwn, RemoveAllChanges, BackendKeeps
  <1>6. ASSUME LoadVersionNew PROVE \A f \in Fds : Mirrored(f)'
    BY <1>0, <1>6 DEF Types, TypeOK, Mirrored, WorksOnOwn, LoadVersionNew, BackendKeeps
  <1>7. ASSUME LoadVersionOld PROVE \A f \in Fds : Mirrored(f)'
    BY <1>0, <1>7 DEF Types, TypeOK, Mirrored, WorksOnOwn, LoadVersionOld, BackendKeeps
  <1>8. ASSUME LoadRouteData PROVE \A f \in Fds : Mirrored(f)'
    BY <1>0, <1>8 DEF Types, TypeOK, Mirrored, WorksOnOwn, LoadRouteData, BackendKeeps
  <1>9. ASSUME Swap PROVE \A f \in Fds : Mirrored(f)'
    BY <1>0, <1>9 DEF Types, TypeOK, Mirrored, WorksOnOwn, Swap, BackendKeeps
  <1>10. ASSUME LoadChanges PROVE \A f \in Fds : Mirrored(f)'
    BY <1>0, <1>10
    DEF Types, TypeOK, Mirrored, WorksOnOwn, LoadChanges, LateMods, OldChanges,
        BackendKeeps
  <1>11. ASSUME Publish PROVE \A f \in Fds : Mirrored(f)'
    BY <1>0, <1>11 DEF Types, TypeOK, Mirrored, WorksOnOwn, Publish, BackendKeeps
  <1>12. ASSUME Notify PROVE \A f \in Fds : Mirrored(f)'
    BY <1>0, <1>12 DEF Types, TypeOK, Mirrored, WorksOnOwn, Notify, BackendKeeps
  <1>13. ASSUME RemoveOldChanges PROVE \A f \in Fds : Mirrored(f)'
    BY <1>0, <1>13
    DEF Types, TypeOK, Mirrored, WorksOnOwn, RemoveOldChanges, OldChanges,
        BackendKeeps
  <1>14. ASSUME NEW w \in Workers, NEW fd \in Fds, Accept(w, fd)
         PROVE  \A f \in Fds : Mirrored(f)'
    BY <1>0, <1>14 DEF Types, TypeOK, Mirrored, WorksOnOwn, Accept, WIdle, WorkerKeeps
  <1>15. ASSUME NEW w \in Workers, NEW fd \in Fds, NEW m \in Mods,
                Request(w, fd, m)
         PROVE  \A f \in Fds : Mirrored(f)'
    BY <1>0, <1>15, WorkerNumbers
    DEF Types, TypeOK, Mirrored, WorksOnOwn, Request, WIdle, WorkerKeeps
  <1>16. ASSUME NEW w \in Workers, Reply(w) PROVE \A f \in Fds : Mirrored(f)'
    BY <1>0, <1>16 DEF Types, TypeOK, Mirrored, WorksOnOwn, Reply, WIdle, WorkerKeeps
  <1>17. ASSUME NEW w \in Workers, NEW fd \in Fds, CloseStart(w, fd)
         PROVE  \A f \in Fds : Mirrored(f)'
    BY <1>0, <1>17
    DEF Types, TypeOK, Mirrored, WorksOnOwn, CloseStart, WIdle, WorkerKeeps
  <1>18. ASSUME NEW w \in Workers, NEW m \in Mods, UnSubscribe(w, m)
         PROVE  \A f \in Fds : Mirrored(f)'
    BY <1>0, <1>18 DEF Types, TypeOK, Mirrored, WorksOnOwn, UnSubscribe, WorkerKeeps
  <1>19. ASSUME NEW w \in Workers, CloseEnd(w) PROVE \A f \in Fds : Mirrored(f)'
    BY <1>0, <1>19 DEF Types, TypeOK, Mirrored, WorksOnOwn, CloseEnd, WIdle, WorkerKeeps
  <1>20. ASSUME NEW w \in Workers, PushStart(w) PROVE \A f \in Fds : Mirrored(f)'
    BY <1>0, <1>20
    DEF Types, TypeOK, Mirrored, WorksOnOwn, PushStart, WIdle, Open, WorkerKeeps
  <1>21. ASSUME NEW w \in Workers, NEW fd \in Fds, NEW m \in Mods,
                PushSend(w, fd, m)
         PROVE  \A f \in Fds : Mirrored(f)'
    BY <1>0, <1>21 DEF Types, TypeOK, Mirrored, WorksOnOwn, PushSend, WorkerKeeps
  <1>22. ASSUME NEW w \in Workers, PushErase(w) PROVE \A f \in Fds : Mirrored(f)'
    BY <1>0, <1>22 DEF Types, TypeOK, Mirrored, WorksOnOwn, PushErase, WIdle
  <1>23. ASSUME NEW w \in Workers, PushEnd(w) PROVE \A f \in Fds : Mirrored(f)'
    BY <1>0, <1>23 DEF Types, TypeOK, Mirrored, WorksOnOwn, PushEnd, WIdle, WorkerKeeps
  <1>24. QED
    BY <1>1, <1>2, <1>3, <1>4, <1>5, <1>6, <1>7, <1>8, <1>9, <1>10, <1>11,
       <1>12, <1>13, <1>14, <1>15, <1>16, <1>17, <1>18, <1>19, <1>20, <1>21,
       <1>22, <1>23
    DEF Next, Operator, Backend, WorkerRuns, ClientActs

(* A change gives a route a number that is larger than all before it. *)
LEMMA ChangeAges ==
  ASSUME Types, \A m \in Mods : Ages(m), NEW m \in Mods,
         RouteData' = [RouteData EXCEPT ![m] = changes + 1], changes' = changes + 1,
         data' = data, temp' = temp, bpc' = bpc, known' = known
  PROVE  \A n \in Mods : Ages(n)'
  <1> SUFFICES ASSUME NEW n \in Mods
               PROVE  Ages(n)'
    OBVIOUS
  <1>1. /\ RouteData[n] \in Nat /\ changes \in Nat /\ data[n] \in Nat
        /\ temp[n] \in Int
    BY DEF Types, TypeOK, NoRoute
  <1>2. RouteData[n] <= RouteData'[n] /\ RouteData'[n] <= changes' /\ RouteData'[n] \in Nat
    BY <1>1 DEF Types, TypeOK, Ages
  <1>3. data[n] <= RouteData[n]
    BY DEF Ages
  <1>4. bpc' \in {"swap", "reswap"} => temp'[n] <= RouteData'[n]
    <2>1. bpc \in {"swap", "reswap"} => temp[n] <= RouteData[n]
      BY DEF Ages
    <2>2. QED
      BY <1>1, <1>2, <2>1
  <1>5. data'[n] <= RouteData'[n]
    BY <1>1, <1>2, <1>3
  <1>6. QED
    BY <1>2, <1>4, <1>5 DEF Ages

(* What is sent is no newer than the map in use. *)
LEMMA SendAges ==
  ASSUME Types, \A n \in Mods : Ages(n), NEW fd \in Fds, NEW m \in Mods, Send(fd, m),
         UNCHANGED <<RouteData, changes, data, temp, bpc>>
  PROVE  \A n \in Mods : Ages(n)'
  <1>1. ASSUME NEW f \in Fds, NEW n \in Mods PROVE known'[f][n] <= data[n]
    <2>1. known[f][n] <= data[n] /\ data[n] \in Nat
      BY DEF Ages, Types, TypeOK
    <2>2. known'[f][n] = known[f][n] \/ known'[f][n] = data[n]
      BY SendEffect
    <2>3. QED
      BY <2>1, <2>2
  <1>2. QED
    BY <1>1 DEF Ages

(* No step moves a newer route behind an older one. *)
LEMMA AgesStep ==
  ASSUME Safe, Next
  PROVE  \A n \in Mods : Ages(n)'
  <1> USE DEF dbVars, opVars, backVars, connVars, workVars
  <1>0. /\ Types /\ Versions
        /\ \A w \in Workers : WorksOnOwn(w)
        /\ \A fd \in Fds : Mirrored(fd)
        /\ \A m \in Mods : Ages(m)
    BY DEF Safe
  <1>1. ASSUME NEW m \in Mods, ChangeData(m) PROVE \A n \in Mods : Ages(n)'
    BY <1>0, <1>1, ChangeAges DEF ChangeData, MayChange, backVars, connVars
  <1>2. ASSUME ChangeVersion PROVE \A n \in Mods : Ages(n)'
    BY <1>0, <1>2 DEF Types, TypeOK, Ages, NoRoute, ChangeVersion
  <1>3. ASSUME ChangeRecord PROVE \A n \in Mods : Ages(n)'
    BY <1>0, <1>3 DEF Types, TypeOK, Ages, NoRoute, ChangeRecord, OpIdle
  <1>4. ASSUME NEW m \in Mods, ChangeTransaction(m) PROVE \A n \in Mods : Ages(n)'
    BY <1>0, <1>4, ChangeAges DEF ChangeTransaction, MayChange, backVars, connVars
  <1>5. ASSUME RemoveAllChanges PROVE \A n \in Mods : Ages(n)'
    BY <1>0, <1>5 DEF Types, TypeOK, Ages, NoRoute, RemoveAllChanges, BackendKeeps
  <1>6. ASSUME LoadVersionNew PROVE \A n \in Mods : Ages(n)'
    BY <1>0, <1>6 DEF Types, TypeOK, Ages, NoRoute, LoadVersionNew, BackendKeeps
  <1>7. ASSUME LoadVersionOld PROVE \A n \in Mods : Ages(n)'
    BY <1>0, <1>7 DEF Types, TypeOK, Ages, NoRoute, LoadVersionOld, BackendKeeps
  <1>8. ASSUME LoadRouteData PROVE \A n \in Mods : Ages(n)'
    BY <1>0, <1>8 DEF Types, TypeOK, Ages, NoRoute, LoadRouteData, BackendKeeps
  <1>9. ASSUME Swap PROVE \A n \in Mods : Ages(n)'
    <2>1. ASSUME NEW n \in Mods PROVE Ages(n)'
      <3>1. /\ temp[n] \in Int /\ data[n] \in Int /\ RouteData[n] \in Int
            /\ \A fd \in Fds : known[fd][n] \in Int
        BY <1>0 DEF Types, TypeOK, NoRoute
      <3>2. /\ data[n] <= temp[n] /\ temp[n] <= RouteData[n]
            /\ RouteData[n] <= changes /\ \A fd \in Fds : known[fd][n] <= data[n]
        BY <1>0, <1>9 DEF Ages, Swap
      <3>3. \A fd \in Fds : known[fd][n] <= temp[n]
        BY <3>1, <3>2
      <3>4. data'[n] = temp[n] /\ bpc' \notin {"swap", "reswap"}
        BY <1>9 DEF Swap
      <3>5. QED
        BY <1>9, <3>2, <3>3, <3>4 DEF Ages, Swap, BackendKeeps, opVars, connVars
    <2>2. QED
      BY <2>1
  <1>10. ASSUME LoadChanges PROVE \A n \in Mods : Ages(n)'
    BY <1>0, <1>10
    DEF Types, TypeOK, Ages, NoRoute, LoadChanges, LateMods, OldChanges,
        BackendKeeps
  <1>11. ASSUME Publish PROVE \A n \in Mods : Ages(n)'
    BY <1>0, <1>11 DEF Types, TypeOK, Ages, NoRoute, Publish, BackendKeeps
  <1>12. ASSUME Notify PROVE \A n \in Mods : Ages(n)'
    BY <1>0, <1>12 DEF Types, TypeOK, Ages, NoRoute, Notify, BackendKeeps
  <1>13. ASSUME RemoveOldChanges PROVE \A n \in Mods : Ages(n)'
    BY <1>0, <1>13
    DEF Types, TypeOK, Ages, NoRoute, RemoveOldChanges, OldChanges, BackendKeeps
  <1>14. ASSUME NEW w \in Workers, NEW fd \in Fds, Accept(w, fd)
         PROVE  \A n \in Mods : Ages(n)'
    BY <1>0, <1>14 DEF Types, TypeOK, Ages, NoRoute, Accept, WIdle, WorkerKeeps
  <1>15. ASSUME NEW w \in Workers, NEW fd \in Fds, NEW m \in Mods,
                Request(w, fd, m)
         PROVE  \A n \in Mods : Ages(n)'
    BY <1>0, <1>15 DEF Types, TypeOK, Ages, NoRoute, Request, WIdle, WorkerKeeps
  <1>16. ASSUME NEW w \in Workers, Reply(w) PROVE \A n \in Mods : Ages(n)'
    <2>1. wpc[w].fd \in Fds /\ wpc[w].mod \in Mods /\ Send(wpc[w].fd, wpc[w].mod)
      BY <1>0, <1>16 DEF WorksOnOwn, Reply
    <2>2. UNCHANGED <<RouteData, changes, data, temp, bpc>>
      BY <1>16 DEF Reply
    <2>3. QED
      BY <1>0, <2>1, <2>2, SendAges
  <1>17. ASSUME NEW w \in Workers, NEW fd \in Fds, CloseStart(w, fd)
         PROVE  \A n \in Mods : Ages(n)'
    BY <1>0, <1>17 DEF Types, TypeOK, Ages, NoRoute, CloseStart, WIdle, WorkerKeeps
  <1>18. ASSUME NEW w \in Workers, NEW m \in Mods, UnSubscribe(w, m)
         PROVE  \A n \in Mods : Ages(n)'
    BY <1>0, <1>18 DEF Types, TypeOK, Ages, NoRoute, UnSubscribe, WorkerKeeps
  <1>19. ASSUME NEW w \in Workers, CloseEnd(w) PROVE \A n \in Mods : Ages(n)'
    BY <1>0, <1>19 DEF Types, TypeOK, Ages, NoRoute, CloseEnd, WIdle, WorkerKeeps
  <1>20. ASSUME NEW w \in Workers, PushStart(w) PROVE \A n \in Mods : Ages(n)'
    BY <1>0, <1>20 DEF Types, TypeOK, Ages, NoRoute, PushStart, WIdle, Open, WorkerKeeps
  <1>21. ASSUME NEW w \in Workers, NEW fd \in Fds, NEW m \in Mods,
                PushSend(w, fd, m)
         PROVE  \A n \in Mods : Ages(n)'
    <2>1. Send(fd, m) /\ UNCHANGED <<RouteData, changes, data, temp, bpc>>
      BY <1>21 DEF PushSend
    <2>2. QED
      BY <1>0, <2>1, SendAges
  <1>22. ASSUME NEW w \in Workers, PushErase(w) PROVE \A n \in Mods : Ages(n)'
    BY <1>0, <1>22 DEF Types, TypeOK, Ages, NoRoute, PushErase, WIdle
  <1>23. ASSUME NEW w \in Workers, PushEnd(w) PROVE \A n \in Mods : Ages(n)'
    BY <1>0, <1>23 DEF Types, TypeOK, Ages, NoRoute, PushEnd, WIdle, WorkerKeeps
  <1>24. QED
    BY <1>1, <1>2, <1>3, <1>4, <1>5, <1>6, <1>7, <1>8, <1>9, <1>10, <1>11,
       <1>12, <1>13, <1>14, <1>15, <1>16, <1>17, <1>18, <1>19, <1>20, <1>21,
       <1>22, <1>23
    DEF Next, Operator, Backend, WorkerRuns, ClientActs

(* The part of the invariant that does not depend on what was lost. *)
LEMMA SafeStep ==
  ASSUME Safe, Next
  PROVE  Safe'
  BY TypesStep, VersionsStep, WorksOnOwnStep, MirroredStep, AgesStep DEF Safe

(***************************************************************************)
(* No step gives a descriptor a mod that its connection did not ask for    *)
(* and that it did not come with.                                          *)
(***************************************************************************)
LEMMA InheritedStep ==
  ASSUME Safe, Inherited, Next
  PROVE  Inherited'
  <1> USE DEF dbVars, opVars, backVars, connVars, workVars
  <1>0. /\ Types /\ Versions
        /\ \A w \in Workers : WorksOnOwn(w)
        /\ \A fd \in Fds : Mirrored(fd)
        /\ Inherited
    BY DEF Safe
  <1>1. ASSUME NEW m \in Mods, ChangeData(m) PROVE Inherited'
    BY <1>0, <1>1
    DEF Types, TypeOK, Inherited, Ending, Mirrored, WorksOnOwn, ChangeData,
        MayChange, Stamps, TooLate
  <1>2. ASSUME ChangeVersion PROVE Inherited'
    BY <1>0, <1>2
    DEF Types, TypeOK, Inherited, Ending, Mirrored, WorksOnOwn, ChangeVersion
  <1>3. ASSUME ChangeRecord PROVE Inherited'
    BY <1>0, <1>3
    DEF Types, TypeOK, Inherited, Ending, Mirrored, WorksOnOwn, ChangeRecord,
        OpIdle
  <1>4. ASSUME NEW m \in Mods, ChangeTransaction(m) PROVE Inherited'
    BY <1>0, <1>4
    DEF Types, TypeOK, Inherited, Ending, Mirrored, WorksOnOwn,
        ChangeTransaction, MayChange, Stamps, TooLate
  <1>5. ASSUME RemoveAllChanges PROVE Inherited'
    BY <1>0, <1>5
    DEF Types, TypeOK, Inherited, Ending, Mirrored, WorksOnOwn,
        RemoveAllChanges, BackendKeeps
  <1>6. ASSUME LoadVersionNew PROVE Inherited'
    BY <1>0, <1>6
    DEF Types, TypeOK, Inherited, Ending, Mirrored, WorksOnOwn,
        LoadVersionNew, BackendKeeps
  <1>7. ASSUME LoadVersionOld PROVE Inherited'
    BY <1>0, <1>7
    DEF Types, TypeOK, Inherited, Ending, Mirrored, WorksOnOwn,
        LoadVersionOld, BackendKeeps
  <1>8. ASSUME LoadRouteData PROVE Inherited'
    BY <1>0, <1>8
    DEF Types, TypeOK, Inherited, Ending, Mirrored, WorksOnOwn,
        LoadRouteData, BackendKeeps
  <1>9. ASSUME Swap PROVE Inherited'
    BY <1>0, <1>9
    DEF Types, TypeOK, Inherited, Ending, Mirrored, WorksOnOwn, Swap,
        BackendKeeps
  <1>10. ASSUME LoadChanges PROVE Inherited'
    BY <1>0, <1>10
    DEF Types, TypeOK, Inherited, Ending, Mirrored, WorksOnOwn, LoadChanges,
        LateMods, OldChanges, BackendKeeps
  <1>11. ASSUME Publish PROVE Inherited'
    BY <1>0, <1>11
    DEF Types, TypeOK, Inherited, Ending, Mirrored, WorksOnOwn, Publish,
        BackendKeeps
  <1>12. ASSUME Notify PROVE Inherited'
    BY <1>0, <1>12
    DEF Types, TypeOK, Inherited, Ending, Mirrored, WorksOnOwn, Notify,
        BackendKeeps
  <1>13. ASSUME RemoveOldChanges PROVE Inherited'
    BY <1>0, <1>13
    DEF Types, TypeOK, Inherited, Ending, Mirrored, WorksOnOwn,
        RemoveOldChanges, OldChanges, BackendKeeps
  <1>14. ASSUME NEW w \in Workers, NEW fd \in Fds, Accept(w, fd) PROVE Inherited'
    <2>1. owner[fd] = N /\ UNCHANGED <<pub_list, need_pub, wpc>>
      BY <1>14 DEF Accept
    <2>2. \A f \in Fds : f # fd =>
             owner'[f] = owner[f] /\ mods'[f] = mods[f] /\ left'[f] = left[f]
      BY <1>0, <1>14 DEF Types, TypeOK, Accept
    <2>3. left'[fd] = pub_list[fd]
      BY <1>0, <1>14 DEF Types, TypeOK, Accept
    <2>4. \A u \in Workers : need_pub[u][fd] = {}
      BY <1>0, <2>1, WorkerNumbers DEF WorksOnOwn
    <2>5. \A f \in Fds : f # fd => (Ending(f)' <=> Ending(f))
      BY <2>1, <2>2 DEF Ending
    <2>6. QED
      BY <1>0, <2>1, <2>2, <2>3, <2>4, <2>5 DEF Inherited
  <1>15. ASSUME NEW w \in Workers, NEW fd \in Fds, NEW m \in Mods,
                Request(w, fd, m)
         PROVE  Inherited'
    BY <1>0, <1>15, WorkerNumbers
    DEF Types, TypeOK, Inherited, Ending, Mirrored, WorksOnOwn, Request,
        WIdle, WorkerKeeps
  <1>16. ASSUME NEW w \in Workers, Reply(w) PROVE Inherited'
    BY <1>0, <1>16, WorkerNumbers
    DEF Types, TypeOK, Inherited, Ending, Mirrored, WorksOnOwn, Reply, WIdle,
        WorkerKeeps
  <1>17. ASSUME NEW w \in Workers, NEW fd \in Fds, CloseStart(w, fd) PROVE Inherited'
    BY <1>0, <1>17, WorkerNumbers
    DEF Types, TypeOK, Inherited, Ending, Mirrored, WorksOnOwn, CloseStart,
        WIdle, WorkerKeeps
  <1>18. ASSUME NEW w \in Workers, NEW m \in Mods, UnSubscribe(w, m) PROVE Inherited'
    <2>1. wpc[w].fd \in Fds /\ owner[wpc[w].fd] = w /\ w # N
      BY <1>0, <1>18, WorkerNumbers DEF WorksOnOwn, UnSubscribe
    <2>2. /\ \A f \in Fds : mods'[f] = IF f = wpc[w].fd THEN mods[f] \ {m} ELSE mods[f]
          /\ Ending(wpc[w].fd)
      BY <1>0, <1>18, <2>1 DEF Types, TypeOK, UnSubscribe, Ending
    <2>3. \A u \in Workers : need_pub[u][wpc[w].fd] = {}
      BY <1>0, <1>18, <2>1 DEF WorksOnOwn, UnSubscribe
    <2>4. UNCHANGED <<left, owner, pub_list, need_pub, wpc>>
      BY <1>18 DEF UnSubscribe, workVars
    <2>5. \A f \in Fds : Ending(f)' <=> Ending(f)
      BY <2>4 DEF Ending
    <2>6. QED
      BY <1>0, <2>2, <2>3, <2>4, <2>5 DEF Inherited
  <1>19. ASSUME NEW w \in Workers, CloseEnd(w) PROVE Inherited'
    BY <1>0, <1>19, WorkerNumbers
    DEF Types, TypeOK, Inherited, Ending, Mirrored, WorksOnOwn, CloseEnd,
        WIdle, WorkerKeeps
  <1>20. ASSUME NEW w \in Workers, PushStart(w) PROVE Inherited'
    BY <1>0, <1>20, WorkerNumbers
    DEF Types, TypeOK, Inherited, Ending, Mirrored, WorksOnOwn, PushStart,
        WIdle, Open, WorkerKeeps
  <1>21. ASSUME NEW w \in Workers, NEW fd \in Fds, NEW m \in Mods,
                PushSend(w, fd, m)
         PROVE  Inherited'
    BY <1>0, <1>21, WorkerNumbers
    DEF Types, TypeOK, Inherited, Ending, Mirrored, WorksOnOwn, PushSend,
        WorkerKeeps
  <1>22. ASSUME NEW w \in Workers, PushErase(w) PROVE Inherited'
    BY <1>0, <1>22, WorkerNumbers
    DEF Types, TypeOK, Inherited, Ending, Mirrored, WorksOnOwn, PushErase,
        WIdle
  <1>23. ASSUME NEW w \in Workers, PushEnd(w) PROVE Inherited'
    BY <1>0, <1>23, WorkerNumbers
    DEF Types, TypeOK, Inherited, Ending, Mirrored, WorksOnOwn, PushEnd,
        WIdle, WorkerKeeps
  <1>24. QED
    BY <1>1, <1>2, <1>3, <1>4, <1>5, <1>6, <1>7, <1>8, <1>9, <1>10, <1>11,
       <1>12, <1>13, <1>14, <1>15, <1>16, <1>17, <1>18, <1>19, <1>20, <1>21,
       <1>22, <1>23
    DEF Next, Operator, Backend, WorkerRuns, ClientActs

(* The change that is being recorded stays where the next round looks. *)
LEMMA RecordKeeps ==
  ASSUME Types, Versions, ChangeRecord, NEW n \in Mods
  PROVE  (Later(n) => Later(n)') /\ (ThisRound(n) => ThisRound(n)')
  <1> DEFINE r == [mod |-> op.mod, ver |-> op.ver]
  <1>1. r.mod = op.mod /\ r.ver = op.ver /\ r \in RouteChange' /\ RouteChange \subseteq RouteChange'
    BY DEF ChangeRecord
  <1>2. version' = version
    BY DEF ChangeRecord, backVars
  <1> HIDE DEF r
  <1>3. QED
    BY <1>1, <1>2 DEF Later, ThisRound

(* A transaction leaves a row for a round, unless it comes too late. *)
LEMMA TransactionKeeps ==
  ASSUME Types, NEW m \in Mods, ChangeTransaction(m)
  PROVE  /\ \A n \in Mods : (Later(n) => Later(n)') /\ (ThisRound(n) => ThisRound(n)')
         /\ m \notin lost' => Later(m)' \/ (bpc = "load" /\ ThisRound(m)')
  <1>1. PICK ver \in Stamps :
           /\ RouteChange' = RouteChange \cup {[mod |-> m, ver |-> ver]}
           /\ lost' = lost \cup TooLate(m, ver)
    BY DEF ChangeTransaction
  <1> DEFINE r == [mod |-> m, ver |-> ver]
  <1>2. r.mod = m /\ r.ver = ver /\ r \in RouteChange' /\ RouteChange \subseteq RouteChange'
    BY <1>1
  <1>3. ver \in Nat /\ version \in Nat
    BY DEF Stamps, Types, TypeOK
  <1>4. version' = version /\ op' = op
    BY DEF ChangeTransaction, backVars
  <1> HIDE DEF r
  <1>5. \A n \in Mods : (Later(n) => Later(n)') /\ (ThisRound(n) => ThisRound(n)')
    BY <1>2, <1>4 DEF Later, ThisRound
  <1>6. CASE ver > version
    BY <1>2, <1>4, <1>5, <1>6 DEF Later
  <1>7. CASE ver <= version
    <2>1. bpc = "load" \/ m \in lost'
      BY <1>1, <1>7 DEF TooLate
    <2>2. ThisRound(m)'
      BY <1>2, <1>4, <1>7 DEF ThisRound
    <2>3. QED
      BY <1>5, <2>1, <2>2
  <1>8. QED
    BY <1>3, <1>6, <1>7

(***************************************************************************)
(* The map in use is behind the database only while a round will still     *)
(* load it.                                                                *)
(***************************************************************************)
LEMMA DataLagsStep ==
  ASSUME Safe, Lags, Next
  PROVE  \A n \in Mods \ lost' : DataLags(n)'
  <1> USE DEF dbVars, opVars, backVars, connVars, workVars
  <1>0. /\ Types /\ Versions
        /\ \A w \in Workers : WorksOnOwn(w)
        /\ \A fd \in Fds : Mirrored(fd)
        /\ \A n \in Mods \ lost : DataLags(n) /\ TempLags(n) /\ ClientLags(n)
    BY DEF Safe, Lags
  <1>1. ASSUME NEW m \in Mods, ChangeData(m) PROVE \A n \in Mods \ lost' : DataLags(n)'
    BY <1>0, <1>1
    DEF Types, TypeOK, Versions, DataLags, TempLags, Later, ThisRound,
        ChangeData, MayChange, Stamps, TooLate
  <1>2. ASSUME ChangeVersion PROVE \A n \in Mods \ lost' : DataLags(n)'
    BY <1>0, <1>2
    DEF Types, TypeOK, Versions, DataLags, TempLags, Later, ThisRound,
        ChangeVersion
  <1>3. ASSUME ChangeRecord PROVE \A n \in Mods \ lost' : DataLags(n)'
    BY <1>0, <1>3, RecordKeeps DEF DataLags, ChangeRecord, backVars
  <1>4. ASSUME NEW m \in Mods, ChangeTransaction(m)
        PROVE  \A n \in Mods \ lost' : DataLags(n)'
    <2>1. /\ \A n \in Mods : (Later(n) => Later(n)') /\ (ThisRound(n) => ThisRound(n)')
          /\ m \notin lost' => Later(m)' \/ (bpc = "load" /\ ThisRound(m)')
      BY <1>0, <1>4, TransactionKeeps
    <2>2. /\ \A n \in Mods : n # m => RouteData'[n] = RouteData[n]
          /\ lost \subseteq lost' /\ UNCHANGED <<data, temp, bpc>>
      BY <1>0, <1>4 DEF Types, TypeOK, ChangeTransaction, MayChange, backVars
    <2>3. QED
      BY <1>0, <2>1, <2>2 DEF DataLags
  <1>5. ASSUME RemoveAllChanges PROVE \A n \in Mods \ lost' : DataLags(n)'
    BY <1>0, <1>5
    DEF Types, TypeOK, Versions, DataLags, TempLags, Later, ThisRound,
        RemoveAllChanges, BackendKeeps
  <1>6. ASSUME LoadVersionNew PROVE \A n \in Mods \ lost' : DataLags(n)'
    BY <1>0, <1>6
    DEF Types, TypeOK, Versions, DataLags, TempLags, Later, ThisRound,
        LoadVersionNew, BackendKeeps
  <1>7. ASSUME LoadVersionOld PROVE \A n \in Mods \ lost' : DataLags(n)'
    BY <1>0, <1>7
    DEF Types, TypeOK, Versions, DataLags, TempLags, Later, ThisRound,
        LoadVersionOld, BackendKeeps
  <1>8. ASSUME LoadRouteData PROVE \A n \in Mods \ lost' : DataLags(n)'
    BY <1>0, <1>8
    DEF Types, TypeOK, Versions, DataLags, TempLags, Later, ThisRound,
        LoadRouteData, BackendKeeps
  <1>9. ASSUME Swap PROVE \A n \in Mods \ lost' : DataLags(n)'
    BY <1>0, <1>9
    DEF Types, TypeOK, Versions, DataLags, TempLags, Later, ThisRound, Swap,
        BackendKeeps
  <1>10. ASSUME LoadChanges PROVE \A n \in Mods \ lost' : DataLags(n)'
    BY <1>0, <1>10
    DEF Types, TypeOK, Versions, DataLags, TempLags, Later, ThisRound,
        LoadChanges, LateMods, OldChanges, BackendKeeps
  <1>11. ASSUME Publish PROVE \A n \in Mods \ lost' : DataLags(n)'
    BY <1>0, <1>11
    DEF Types, TypeOK, Versions, DataLags, TempLags, Later, ThisRound, Publish,
        BackendKeeps
  <1>12. ASSUME Notify PROVE \A n \in Mods \ lost' : DataLags(n)'
    BY <1>0, <1>12
    DEF Types, TypeOK, Versions, DataLags, TempLags, Later, ThisRound, Notify,
        BackendKeeps
  <1>13. ASSUME RemoveOldChanges PROVE \A n \in Mods \ lost' : DataLags(n)'
    BY <1>0, <1>13
    DEF Types, TypeOK, Versions, DataLags, TempLags, Later, ThisRound,
        RemoveOldChanges, OldChanges, BackendKeeps
  <1>14. ASSUME NEW w \in Workers, NEW fd \in Fds, Accept(w, fd)
         PROVE  \A n \in Mods \ lost' : DataLags(n)'
    BY <1>0, <1>14
    DEF Types, TypeOK, Versions, DataLags, TempLags, Later, ThisRound, Accept,
        WIdle, WorkerKeeps
  <1>15. ASSUME NEW w \in Workers, NEW fd \in Fds, NEW m \in Mods,
                Request(w, fd, m)
         PROVE  \A n \in Mods \ lost' : DataLags(n)'
    BY <1>0, <1>15
    DEF Types, TypeOK, Versions, DataLags, TempLags, Later, ThisRound, Request,
        WIdle, WorkerKeeps
  <1>16. ASSUME NEW w \in Workers, Reply(w) PROVE \A n \in Mods \ lost' : DataLags(n)'
    BY <1>0, <1>16
    DEF Send, Types, TypeOK, Versions, DataLags, TempLags, Later, ThisRound, Reply,
        WIdle, WorkerKeeps
  <1>17. ASSUME NEW w \in Workers, NEW fd \in Fds, CloseStart(w, fd)
         PROVE  \A n \in Mods \ lost' : DataLags(n)'
    BY <1>0, <1>17
    DEF Types, TypeOK, Versions, DataLags, TempLags, Later, ThisRound,
        CloseStart, WIdle, WorkerKeeps
  <1>18. ASSUME NEW w \in Workers, NEW m \in Mods, UnSubscribe(w, m)
         PROVE  \A n \in Mods \ lost' : DataLags(n)'
    BY <1>0, <1>18
    DEF Types, TypeOK, Versions, DataLags, TempLags, Later, ThisRound,
        UnSubscribe, WorkerKeeps
  <1>19. ASSUME NEW w \in Workers, CloseEnd(w)
         PROVE  \A n \in Mods \ lost' : DataLags(n)'
    BY <1>0, <1>19
    DEF Types, TypeOK, Versions, DataLags, TempLags, Later, ThisRound, CloseEnd,
        WIdle, WorkerKeeps
  <1>20. ASSUME NEW w \in Workers, PushStart(w)
         PROVE  \A n \in Mods \ lost' : DataLags(n)'
    BY <1>0, <1>20
    DEF Types, TypeOK, Versions, DataLags, TempLags, Later, ThisRound,
        PushStart, WIdle, Open, WorkerKeeps
  <1>21. ASSUME NEW w \in Workers, NEW fd \in Fds, NEW m \in Mods,
                PushSend(w, fd, m)
         PROVE  \A n \in Mods \ lost' : DataLags(n)'
    BY <1>0, <1>21
    DEF Send, Types, TypeOK, Versions, DataLags, TempLags, Later, ThisRound, PushSend,
        WorkerKeeps
  <1>22. ASSUME NEW w \in Workers, PushErase(w)
         PROVE  \A n \in Mods \ lost' : DataLags(n)'
    BY <1>0, <1>22
    DEF Types, TypeOK, Versions, DataLags, TempLags, Later, ThisRound,
        PushErase, WIdle
  <1>23. ASSUME NEW w \in Workers, PushEnd(w) PROVE \A n \in Mods \ lost' : DataLags(n)'
    BY <1>0, <1>23
    DEF Types, TypeOK, Versions, DataLags, TempLags, Later, ThisRound, PushEnd,
        WIdle, WorkerKeeps
  <1>24. QED
    BY <1>1, <1>2, <1>3, <1>4, <1>5, <1>6, <1>7, <1>8, <1>9, <1>10, <1>11,
       <1>12, <1>13, <1>14, <1>15, <1>16, <1>17, <1>18, <1>19, <1>20, <1>21,
       <1>22, <1>23
    DEF Next, Operator, Backend, WorkerRuns, ClientActs

(***************************************************************************)
(* The other map, once loaded, is behind only a change that a later round  *)
(* loads.                                                                  *)
(***************************************************************************)
LEMMA TempLagsStep ==
  ASSUME Safe, Lags, Next
  PROVE  \A n \in Mods \ lost' : TempLags(n)'
  <1> USE DEF dbVars, opVars, backVars, connVars, workVars
  <1>0. /\ Types /\ Versions
        /\ \A w \in Workers : WorksOnOwn(w)
        /\ \A fd \in Fds : Mirrored(fd)
        /\ \A n \in Mods \ lost : DataLags(n) /\ TempLags(n) /\ ClientLags(n)
    BY DEF Safe, Lags
  <1>1. ASSUME NEW m \in Mods, ChangeData(m) PROVE \A n \in Mods \ lost' : TempLags(n)'
    BY <1>0, <1>1
    DEF Types, TypeOK, Versions, DataLags, TempLags, Later, ThisRound,
        ChangeData, MayChange, Stamps, TooLate
  <1>2. ASSUME ChangeVersion PROVE \A n \in Mods \ lost' : TempLags(n)'
    BY <1>0, <1>2
    DEF Types, TypeOK, Versions, DataLags, TempLags, Later, ThisRound,
        ChangeVersion
  <1>3. ASSUME ChangeRecord PROVE \A n \in Mods \ lost' : TempLags(n)'
    BY <1>0, <1>3, RecordKeeps DEF TempLags, ChangeRecord, backVars
  <1>4. ASSUME NEW m \in Mods, ChangeTransaction(m)
        PROVE  \A n \in Mods \ lost' : TempLags(n)'
    <2>1. /\ \A n \in Mods : (Later(n) => Later(n)') /\ (ThisRound(n) => ThisRound(n)')
          /\ m \notin lost' => Later(m)' \/ (bpc = "load" /\ ThisRound(m)')
      BY <1>0, <1>4, TransactionKeeps
    <2>2. /\ \A n \in Mods : n # m => RouteData'[n] = RouteData[n]
          /\ lost \subseteq lost' /\ UNCHANGED <<data, temp, bpc>>
      BY <1>0, <1>4 DEF Types, TypeOK, ChangeTransaction, MayChange, backVars
    <2>3. QED
      BY <1>0, <2>1, <2>2 DEF TempLags
  <1>5. ASSUME RemoveAllChanges PROVE \A n \in Mods \ lost' : TempLags(n)'
    BY <1>0, <1>5
    DEF Types, TypeOK, Versions, DataLags, TempLags, Later, ThisRound,
        RemoveAllChanges, BackendKeeps
  <1>6. ASSUME LoadVersionNew PROVE \A n \in Mods \ lost' : TempLags(n)'
    BY <1>0, <1>6
    DEF Types, TypeOK, Versions, DataLags, TempLags, Later, ThisRound,
        LoadVersionNew, BackendKeeps
  <1>7. ASSUME LoadVersionOld PROVE \A n \in Mods \ lost' : TempLags(n)'
    BY <1>0, <1>7
    DEF Types, TypeOK, Versions, DataLags, TempLags, Later, ThisRound,
        LoadVersionOld, BackendKeeps
  <1>8. ASSUME LoadRouteData PROVE \A n \in Mods \ lost' : TempLags(n)'
    BY <1>0, <1>8
    DEF Types, TypeOK, Versions, DataLags, TempLags, Later, ThisRound,
        LoadRouteData, BackendKeeps
  <1>9. ASSUME Swap PROVE \A n \in Mods \ lost' : TempLags(n)'
    BY <1>0, <1>9
    DEF Types, TypeOK, Versions, DataLags, TempLags, Later, ThisRound, Swap,
        BackendKeeps
  <1>10. ASSUME LoadChanges PROVE \A n \in Mods \ lost' : TempLags(n)'
    BY <1>0, <1>10
    DEF Types, TypeOK, Versions, DataLags, TempLags, Later, ThisRound,
        LoadChanges, LateMods, OldChanges, BackendKeeps
  <1>11. ASSUME Publish PROVE \A n \in Mods \ lost' : TempLags(n)'
    BY <1>0, <1>11
    DEF Types, TypeOK, Versions, DataLags, TempLags, Later, ThisRound, Publish,
        BackendKeeps
  <1>12. ASSUME Notify PROVE \A n \in Mods \ lost' : TempLags(n)'
    BY <1>0, <1>12
    DEF Types, TypeOK, Versions, DataLags, TempLags, Later, ThisRound, Notify,
        BackendKeeps
  <1>13. ASSUME RemoveOldChanges PROVE \A n \in Mods \ lost' : TempLags(n)'
    BY <1>0, <1>13
    DEF Types, TypeOK, Versions, DataLags, TempLags, Later, ThisRound,
        RemoveOldChanges, OldChanges, BackendKeeps
  <1>14. ASSUME NEW w \in Workers, NEW fd \in Fds, Accept(w, fd)
         PROVE  \A n \in Mods \ lost' : TempLags(n)'
    BY <1>0, <1>14
    DEF Types, TypeOK, Versions, DataLags, TempLags, Later, ThisRound, Accept,
        WIdle, WorkerKeeps
  <1>15. ASSUME NEW w \in Workers, NEW fd \in Fds, NEW m \in Mods,
                Request(w, fd, m)
         PROVE  \A n \in Mods \ lost' : TempLags(n)'
    BY <1>0, <1>15
    DEF Types, TypeOK, Versions, DataLags, TempLags, Later, ThisRound, Request,
        WIdle, WorkerKeeps
  <1>16. ASSUME NEW w \in Workers, Reply(w) PROVE \A n \in Mods \ lost' : TempLags(n)'
    BY <1>0, <1>16
    DEF Send, Types, TypeOK, Versions, DataLags, TempLags, Later, ThisRound, Reply,
        WIdle, WorkerKeeps
  <1>17. ASSUME NEW w \in Workers, NEW fd \in Fds, CloseStart(w, fd)
         PROVE  \A n \in Mods \ lost' : TempLags(n)'
    BY <1>0, <1>17
    DEF Types, TypeOK, Versions, DataLags, TempLags, Later, ThisRound,
        CloseStart, WIdle, WorkerKeeps
  <1>18. ASSUME NEW w \in Workers, NEW m \in Mods, UnSubscribe(w, m)
         PROVE  \A n \in Mods \ lost' : TempLags(n)'
    BY <1>0, <1>18
    DEF Types, TypeOK, Versions, DataLags, TempLags, Later, ThisRound,
        UnSubscribe, WorkerKeeps
  <1>19. ASSUME NEW w \in Workers, CloseEnd(w)
         PROVE  \A n \in Mods \ lost' : TempLags(n)'
    BY <1>0, <1>19
    DEF Types, TypeOK, Versions, DataLags, TempLags, Later, ThisRound, CloseEnd,
        WIdle, WorkerKeeps
  <1>20. ASSUME NEW w \in Workers, PushStart(w)
         PROVE  \A n \in Mods \ lost' : TempLags(n)'
    BY <1>0, <1>20
    DEF Types, TypeOK, Versions, DataLags, TempLags, Later, ThisRound,
        PushStart, WIdle, Open, WorkerKeeps
  <1>21. ASSUME NEW w \in Workers, NEW fd \in Fds, NEW m \in Mods,
                PushSend(w, fd, m)
         PROVE  \A n \in Mods \ lost' : TempLags(n)'
    BY <1>0, <1>21
    DEF Send, Types, TypeOK, Versions, DataLags, TempLags, Later, ThisRound, PushSend,
        WorkerKeeps
  <1>22. ASSUME NEW w \in Workers, PushErase(w)
         PROVE  \A n \in Mods \ lost' : TempLags(n)'
    BY <1>0, <1>22
    DEF Types, TypeOK, Versions, DataLags, TempLags, Later, ThisRound,
        PushErase, WIdle
  <1>23. ASSUME NEW w \in Workers, PushEnd(w) PROVE \A n \in Mods \ lost' : TempLags(n)'
    BY <1>0, <1>23
    DEF Types, TypeOK, Versions, DataLags, TempLags, Later, ThisRound, PushEnd,
        WIdle, WorkerKeeps
  <1>24. QED
    BY <1>1, <1>2, <1>3, <1>4, <1>5, <1>6, <1>7, <1>8, <1>9, <1>10, <1>11,
       <1>12, <1>13, <1>14, <1>15, <1>16, <1>17, <1>18, <1>19, <1>20, <1>21,
       <1>22, <1>23
    DEF Next, Operator, Backend, WorkerRuns, ClientActs

(***************************************************************************)
(* A step that puts a subscriber behind the map, or ends what is coming    *)
(* to it, leaves something else that will bring it the route, unless it    *)
(* loses the change.                                                       *)
(***************************************************************************)
LEMMA ClientLagsStep ==
  ASSUME Safe, Lags, Next
  PROVE  \A n \in Mods \ lost' : ClientLags(n)'
  <1> USE DEF dbVars, opVars, backVars, connVars, workVars
  <1>0. /\ Types /\ Versions
        /\ \A w \in Workers : WorksOnOwn(w)
        /\ \A fd \in Fds : Mirrored(fd)
        /\ \A n \in Mods \ lost : DataLags(n) /\ TempLags(n) /\ ClientLags(n)
    BY DEF Safe, Lags
  <1>1. ASSUME NEW m \in Mods, ChangeData(m)
        PROVE  \A n \in Mods \ lost' : ClientLags(n)'
    BY <1>0, <1>1
    DEF Types, TypeOK, Versions, DataLags, TempLags, Later, ThisRound,
        WorksOnOwn, Mirrored, ClientLags, Coming, Tasked, Closing, ChangeData,
        MayChange, Stamps, TooLate
  <1>2. ASSUME ChangeVersion PROVE \A n \in Mods \ lost' : ClientLags(n)'
    BY <1>0, <1>2
    DEF Types, TypeOK, Versions, DataLags, TempLags, Later, ThisRound,
        WorksOnOwn, Mirrored, ClientLags, Coming, Tasked, Closing, ChangeVersion
  <1>3. ASSUME ChangeRecord PROVE \A n \in Mods \ lost' : ClientLags(n)'
    <2>1. UNCHANGED <<bpc, change_list, pub_list, tasks, notified, need_pub, wpc,
                      owner, mods, known, data, lost>>
      BY <1>3 DEF ChangeRecord, backVars, workVars, connVars
    <2>2. ASSUME NEW n \in Mods, NEW f \in Fds, Coming(f, n) PROVE Coming(f, n)'
      BY <1>0, <1>3, <2>1, <2>2, RecordKeeps DEF Coming, Tasked, Closing
    <2>3. QED
      BY <1>0, <2>1, <2>2 DEF ClientLags
  <1>4. ASSUME NEW m \in Mods, ChangeTransaction(m)
        PROVE  \A n \in Mods \ lost' : ClientLags(n)'
    BY <1>0, <1>4
    DEF Types, TypeOK, Versions, DataLags, TempLags, Later, ThisRound,
        WorksOnOwn, Mirrored, ClientLags, Coming, Tasked, Closing,
        ChangeTransaction, MayChange, Stamps, TooLate
  <1>5. ASSUME RemoveAllChanges PROVE \A n \in Mods \ lost' : ClientLags(n)'
    BY <1>0, <1>5
    DEF Types, TypeOK, Versions, DataLags, TempLags, Later, ThisRound,
        WorksOnOwn, Mirrored, ClientLags, Coming, Tasked, Closing,
        RemoveAllChanges, BackendKeeps
  <1>6. ASSUME LoadVersionNew PROVE \A n \in Mods \ lost' : ClientLags(n)'
    BY <1>0, <1>6
    DEF Types, TypeOK, Versions, DataLags, TempLags, Later, ThisRound,
        WorksOnOwn, Mirrored, ClientLags, Coming, Tasked, Closing,
        LoadVersionNew, BackendKeeps
  <1>7. ASSUME LoadVersionOld PROVE \A n \in Mods \ lost' : ClientLags(n)'
    BY <1>0, <1>7
    DEF Types, TypeOK, Versions, DataLags, TempLags, Later, ThisRound,
        WorksOnOwn, Mirrored, ClientLags, Coming, Tasked, Closing,
        LoadVersionOld, BackendKeeps
  <1>8. ASSUME LoadRouteData PROVE \A n \in Mods \ lost' : ClientLags(n)'
    BY <1>0, <1>8
    DEF Types, TypeOK, Versions, DataLags, TempLags, Later, ThisRound,
        WorksOnOwn, Mirrored, ClientLags, Coming, Tasked, Closing,
        LoadRouteData, BackendKeeps
  <1>9. ASSUME Swap PROVE \A n \in Mods \ lost' : ClientLags(n)'
    <2>1. /\ \A n \in Mods : (Later(n) <=> Later(n)') /\ (ThisRound(n) <=> ThisRound(n)')
          /\ UNCHANGED <<change_list, pub_list, tasks, notified, need_pub, wpc,
                         owner, mods, known, lost>>
      BY <1>9 DEF Later, ThisRound, Swap, BackendKeeps, opVars, workVars, connVars
    <2>2. ASSUME NEW n \in Mods, NEW f \in Fds, Coming(f, n) PROVE Coming(f, n)'
      BY <1>9, <2>1, <2>2 DEF Coming, Tasked, Closing, Swap
    <2>3. ASSUME NEW n \in Mods \ lost, temp[n] # data[n], NEW f \in Fds
          PROVE  Coming(f, n)'
      BY <1>0, <1>9, <2>1, <2>3 DEF TempLags, Coming, Swap
    <2>4. data' = temp
      BY <1>9 DEF Swap
    <2>5. QED
      BY <1>0, <2>1, <2>2, <2>3, <2>4 DEF ClientLags
  <1>10. ASSUME LoadChanges PROVE \A n \in Mods \ lost' : ClientLags(n)'
    <2>1. /\ \A n \in Mods : Later(n) <=> Later(n)'
          /\ UNCHANGED <<pub_list, tasks, need_pub, wpc, owner, mods, known, data>>
          /\ bpc = "changes" /\ bpc' = "publish" /\ lost \subseteq lost'
      BY <1>10 DEF Later, LoadChanges, BackendKeeps, opVars, workVars, connVars
    <2>2. ASSUME NEW n \in Mods \ lost', ThisRound(n) PROVE n \in change_list'
      BY <1>10, <2>2 DEF ThisRound, LoadChanges, LateMods, OldChanges
    <2>3. ASSUME NEW n \in Mods \ lost', NEW f \in Fds, Coming(f, n) PROVE Coming(f, n)'
      BY <1>10, <2>1, <2>2, <2>3 DEF Coming, Tasked, Closing
    <2>4. QED
      BY <1>0, <2>1, <2>3 DEF ClientLags
  <1>11. ASSUME Publish PROVE \A n \in Mods \ lost' : ClientLags(n)'
    BY <1>0, <1>11
    DEF Types, TypeOK, Versions, DataLags, TempLags, Later, ThisRound,
        WorksOnOwn, Mirrored, ClientLags, Coming, Tasked, Closing, Publish,
        BackendKeeps
  <1>12. ASSUME Notify PROVE \A n \in Mods \ lost' : ClientLags(n)'
    <2>1. /\ \A n \in Mods : Later(n) <=> Later(n)'
          /\ UNCHANGED <<pub_list, need_pub, wpc, owner, mods, known, data, lost>>
          /\ bpc = "notify" /\ bpc' \notin {"load", "swap", "changes", "publish"}
      BY <1>12 DEF Later, Notify, BackendKeeps, opVars, workVars, connVars
    <2>2. ASSUME NEW u \in Workers, Tasked(u) PROVE Tasked(u)'
      <3>1. notified \in Nat /\ notified \in Workers /\ u \in Nat /\ u < N /\ tasks[u] \in Nat /\ N \in Nat
        BY <1>0, <2>1, WorkerNumbers DEF Types, TypeOK
      <3>2. CASE u = notified
        BY <1>0, <1>12, <3>1, <3>2 DEF Tasked, Notify, Types, TypeOK
      <3>3. CASE u # notified
        <4>1. tasks'[u] = tasks[u]
          BY <1>0, <1>12, <3>1, <3>3 DEF Notify, Types, TypeOK
        <4>2. CASE tasks[u] > 0
          BY <4>1, <4>2 DEF Tasked
        <4>3. CASE notified <= u
          <5>1. notified + 1 <= u /\ notified + 1 < N
            BY <3>1, <3>3, <4>3
          <5>2. QED
            BY <1>12, <5>1 DEF Tasked, Notify
        <4>4. QED
          BY <2>2, <4>2, <4>3 DEF Tasked
      <3>4. QED
        BY <3>2, <3>3
    <2>3. ASSUME NEW f \in Fds, owner[f] # N PROVE owner[f] \in Workers
      BY <1>0, <2>3, WorkerNumbers DEF Types, TypeOK
    <2>4. ASSUME NEW n \in Mods, NEW f \in Fds, owner[f] # N, Coming(f, n)
          PROVE  Coming(f, n)'
      BY <2>1, <2>2, <2>3, <2>4 DEF Coming, Closing
    <2>5. QED
      BY <1>0, <2>1, <2>4 DEF ClientLags
  <1>13. ASSUME RemoveOldChanges PROVE \A n \in Mods \ lost' : ClientLags(n)'
    BY <1>0, <1>13
    DEF Types, TypeOK, Versions, DataLags, TempLags, Later, ThisRound,
        WorksOnOwn, Mirrored, ClientLags, Coming, Tasked, Closing,
        RemoveOldChanges, OldChanges, BackendKeeps
  <1>14. ASSUME NEW w \in Workers, NEW fd \in Fds, Accept(w, fd)
         PROVE  \A n \in Mods \ lost' : ClientLags(n)'
    BY <1>0, <1>14
    DEF Types, TypeOK, Versions, DataLags, TempLags, Later, ThisRound,
        WorksOnOwn, Mirrored, ClientLags, Coming, Tasked, Closing, Accept,
        WIdle, WorkerKeeps
  <1>15. ASSUME NEW w \in Workers, NEW fd \in Fds, NEW m \in Mods,
                Request(w, fd, m)
         PROVE  \A n \in Mods \ lost' : ClientLags(n)'
    <2>1. /\ \A n \in Mods : (Later(n) <=> Later(n)') /\ (ThisRound(n) <=> ThisRound(n)')
          /\ UNCHANGED <<bpc, change_list, pub_list, tasks, notified, need_pub,
                         owner, known, data, lost>>
      BY <1>15 DEF Later, ThisRound, Request, WorkerKeeps, dbVars, opVars, backVars
    <2>2. /\ wpc[w] = WIdle /\ owner[fd] = w
          /\ wpc' = [wpc EXCEPT ![w] = [at |-> "reply", fd |-> fd, mod |-> m]]
          /\ mods' = [mods EXCEPT ![fd] = @ \cup {m}]
      BY <1>15 DEF Request
    <2>3. ASSUME NEW n \in Mods, NEW f \in Fds, Coming(f, n) PROVE Coming(f, n)'
      <3>1. owner[f] = w => ~(wpc[owner[f]].at \in {"reply", "close"})
        BY <2>2 DEF WIdle
      <3>2. owner[f] # w => wpc'[owner[f]] = wpc[owner[f]]
        BY <1>0, <2>2 DEF Types, TypeOK
      <3>3. QED
        BY <2>1, <2>3, <3>1, <3>2 DEF Coming, Tasked, Closing
    <2>4. Coming(fd, m)'
      BY <1>0, <2>1, <2>2 DEF Coming, Types, TypeOK
    <2>5. ASSUME NEW n \in Mods, NEW f \in Fds, n \in mods'[f]
          PROVE  n \in mods[f] \/ (n = m /\ f = fd)
      BY <1>0, <2>2, <2>5 DEF Types, TypeOK
    <2>6. QED
      BY <1>0, <2>1, <2>3, <2>4, <2>5 DEF ClientLags
  <1>16. ASSUME NEW w \in Workers, Reply(w) PROVE \A n \in Mods \ lost' : ClientLags(n)'
    <2>1. /\ wpc[w].at = "reply" /\ wpc[w].fd \in Fds /\ wpc[w].mod \in Mods
          /\ owner[wpc[w].fd] = w /\ Send(wpc[w].fd, wpc[w].mod)
      BY <1>0, <1>16 DEF WorksOnOwn, Reply
    <2>2. /\ \A n \in Mods : (Later(n) <=> Later(n)') /\ (ThisRound(n) <=> ThisRound(n)')
          /\ UNCHANGED <<bpc, data, change_list, pub_list, tasks, notified, need_pub,
                         owner, mods>>
      BY <1>16 DEF Later, ThisRound, Reply
    <2>3. \A u \in Workers : wpc'[u] = IF u = w THEN WIdle ELSE wpc[u]
      BY <1>0, <1>16 DEF Types, TypeOK, Reply
    <2>4. SUFFICES ASSUME NEW n \in Mods \ lost', NEW f \in Fds, owner[f] # N,
                          n \in mods[f], known'[f][n] # data[n]
                   PROVE  Coming(f, n)'
      BY <2>2 DEF ClientLags
    <2>5. n \notin lost /\ known[f][n] # data[n] /\ ~(f = wpc[w].fd /\ n = wpc[w].mod)
      BY <1>0, <2>1, <2>4, SendEffect
    <2>6. Coming(f, n)
      BY <1>0, <2>4, <2>5 DEF ClientLags
    <2>7. owner[f] \in Workers
      BY <1>0, <2>4, WorkerNumbers DEF Types, TypeOK
    <2>8. QED
      BY <2>1, <2>2, <2>3, <2>5, <2>6, <2>7 DEF Coming, Tasked, Closing
  <1>17. ASSUME NEW w \in Workers, NEW fd \in Fds, CloseStart(w, fd)
         PROVE  \A n \in Mods \ lost' : ClientLags(n)'
    BY <1>0, <1>17
    DEF Types, TypeOK, Versions, DataLags, TempLags, Later, ThisRound,
        WorksOnOwn, Mirrored, ClientLags, Coming, Tasked, Closing, CloseStart,
        WIdle, WorkerKeeps
  <1>18. ASSUME NEW w \in Workers, NEW m \in Mods, UnSubscribe(w, m)
         PROVE  \A n \in Mods \ lost' : ClientLags(n)'
    BY <1>0, <1>18
    DEF Types, TypeOK, Versions, DataLags, TempLags, Later, ThisRound,
        WorksOnOwn, Mirrored, ClientLags, Coming, Tasked, Closing, UnSubscribe,
        WorkerKeeps
  <1>19. ASSUME NEW w \in Workers, CloseEnd(w)
         PROVE  \A n \in Mods \ lost' : ClientLags(n)'
    BY <1>0, <1>19
    DEF Types, TypeOK, Versions, DataLags, TempLags, Later, ThisRound,
        WorksOnOwn, Mirrored, ClientLags, Coming, Tasked, Closing, CloseEnd,
        WIdle, WorkerKeeps
  <1>20. ASSUME NEW w \in Workers, PushStart(w)
         PROVE  \A n \in Mods \ lost' : ClientLags(n)'
    BY <1>0, <1>20
    DEF Types, TypeOK, Versions, DataLags, TempLags, Later, ThisRound,
        WorksOnOwn, Mirrored, ClientLags, Coming, Tasked, Closing, PushStart,
        WIdle, Open, WorkerKeeps
  <1>21. ASSUME NEW w \in Workers, NEW fd \in Fds, NEW m \in Mods,
                PushSend(w, fd, m)
         PROVE  \A n \in Mods \ lost' : ClientLags(n)'
    BY <1>0, <1>21
    DEF Send, Types, TypeOK, Versions, DataLags, TempLags, Later, ThisRound,
        WorksOnOwn, Mirrored, ClientLags, Coming, Tasked, Closing, PushSend,
        WorkerKeeps
  <1>22. ASSUME NEW w \in Workers, PushErase(w)
         PROVE  \A n \in Mods \ lost' : ClientLags(n)'
    BY <1>0, <1>22
    DEF Types, TypeOK, Versions, DataLags, TempLags, Later, ThisRound,
        WorksOnOwn, Mirrored, ClientLags, Coming, Tasked, Closing, PushErase,
        WIdle
  <1>23. ASSUME NEW w \in Workers, PushEnd(w)
         PROVE  \A n \in Mods \ lost' : ClientLags(n)'
    BY <1>0, <1>23
    DEF Types, TypeOK, Versions, DataLags, TempLags, Later, ThisRound,
        WorksOnOwn, Mirrored, ClientLags, Coming, Tasked, Closing, PushEnd,
        WIdle, WorkerKeeps
  <1>24. QED
    BY <1>1, <1>2, <1>3, <1>4, <1>5, <1>6, <1>7, <1>8, <1>9, <1>10, <1>11,
       <1>12, <1>13, <1>14, <1>15, <1>16, <1>17, <1>18, <1>19, <1>20, <1>21,
       <1>22, <1>23
    DEF Next, Operator, Backend, WorkerRuns, ClientActs

(***************************************************************************)
(* Without disturbances no step loses a change, and a round begins only    *)
(* when the pushes of the one before are done.                             *)
(***************************************************************************)
LEMMA UndisturbedStep ==
  ASSUME Safe, Lags, Undisturbed, Allow = {}, Next
  PROVE  Undisturbed'
  <1> USE DEF dbVars, opVars, backVars, connVars, workVars
  <1>0. /\ Types /\ Versions
        /\ \A w \in Workers : WorksOnOwn(w)
        /\ \A fd \in Fds : Mirrored(fd)
        /\ Lags
        /\ Undisturbed
    BY DEF Safe
  <1>1. ASSUME NEW m \in Mods, ChangeData(m) PROVE Undisturbed'
    BY <1>0, <1>1
    DEF Types, TypeOK, Versions, WorksOnOwn, Undisturbed, Sent, PushesDone,
        Later, ChangeData, MayChange, Stamps, TooLate
  <1>2. ASSUME ChangeVersion PROVE Undisturbed'
    BY <1>0, <1>2
    DEF Types, TypeOK, Versions, WorksOnOwn, Undisturbed, Sent, PushesDone,
        Later, ChangeVersion
  <1>3. ASSUME ChangeRecord PROVE Undisturbed'
    BY <1>0, <1>3
    DEF Types, TypeOK, Versions, WorksOnOwn, Undisturbed, Sent, PushesDone,
        Later, ChangeRecord, OpIdle
  <1>4. ASSUME NEW m \in Mods, ChangeTransaction(m) PROVE Undisturbed'
    BY <1>0, <1>4
    DEF Types, TypeOK, Versions, WorksOnOwn, Undisturbed, Sent, PushesDone,
        Later, ChangeTransaction, MayChange, Stamps, TooLate
  <1>5. ASSUME RemoveAllChanges PROVE Undisturbed'
    BY <1>0, <1>5
    DEF Types, TypeOK, Versions, WorksOnOwn, Undisturbed, Sent, PushesDone,
        Later, RemoveAllChanges, BackendKeeps
  <1>6. ASSUME LoadVersionNew PROVE Undisturbed'
    BY <1>0, <1>6
    DEF Types, TypeOK, Versions, WorksOnOwn, Undisturbed, Sent, PushesDone,
        Later, LoadVersionNew, BackendKeeps
  <1>7. ASSUME LoadVersionOld PROVE Undisturbed'
    BY <1>0, <1>7
    DEF Types, TypeOK, Versions, WorksOnOwn, Undisturbed, Sent, PushesDone,
        Later, LoadVersionOld, BackendKeeps
  <1>8. ASSUME LoadRouteData PROVE Undisturbed'
    <2>1. UNCHANGED <<lost, op, RouteChange, version, tasks, wpc, owner, pub_list,
                      need_pub, known, data>>
      BY <1>8 DEF LoadRouteData, DbFails, BackendKeeps, opVars, workVars, connVars
    <2>2. bpc' \in {"swap", "reswap"} /\ (bpc' = "swap" => bpc = "load") /\ bpc \in {"load", "reload"}
      BY <1>8 DEF LoadRouteData, DbFails
    <2>3. QED
      BY <1>0, <2>1, <2>2 DEF Undisturbed, Sent, PushesDone, Later
  <1>9. ASSUME Swap PROVE Undisturbed'
    <2>1. UNCHANGED <<lost, op, RouteChange, version, tasks, wpc, owner, pub_list,
                      need_pub, known>>
      BY <1>9 DEF Swap, BackendKeeps, opVars, workVars, connVars
    <2>2. lost = {} /\ op.at = "idle"
      BY <1>0 DEF Undisturbed
    <2>3. CASE bpc = "swap"
      <3>1. PushesDone /\ PushesDone' /\ bpc' = "changes"
        BY <1>0, <1>9, <2>1, <2>3 DEF Undisturbed, PushesDone, Swap
      <3>2. QED
        BY <2>1, <2>2, <3>1 DEF Undisturbed, Sent, PushesDone
    <2>4. CASE bpc = "reswap"
      <3>1. ASSUME NEW m \in Mods, data'[m] # data[m] PROVE Later(m)'
        BY <1>0, <1>9, <2>1, <2>2, <2>4, <3>1 DEF Lags, TempLags, Later, Swap
      <3>2. \A m \in Mods : Later(m) => Later(m)'
        BY <2>1 DEF Later
      <3>3. \A u \in Workers, f \in Fds, m \in Mods : Sent(u, f, m)'
        BY <1>0, <2>1, <3>1, <3>2 DEF Undisturbed, Sent
      <3>4. bpc' = "sleep"
        BY <1>9, <2>4 DEF Swap
      <3>5. QED
        BY <2>1, <2>2, <3>3, <3>4 DEF Undisturbed
    <2>5. QED
      BY <1>9, <2>3, <2>4 DEF Swap
  <1>10. ASSUME LoadChanges PROVE Undisturbed'
    <2>1. UNCHANGED <<op, RouteChange, version, tasks, wpc, owner, pub_list,
                      need_pub, known, data>>
      BY <1>10 DEF LoadChanges, BackendKeeps, opVars, workVars, connVars
    <2>2. lost = {} /\ LateMods = {} /\ change_list' = {r.mod : r \in OldChanges}
      BY <1>0, <1>10 DEF Undisturbed, LateMods, LoadChanges, DbFails
    <2>3. lost' = {} /\ bpc' = "publish" /\ bpc = "changes"
      BY <1>10, <2>2 DEF LoadChanges
    <2>4. QED
      BY <1>0, <2>1, <2>3 DEF Undisturbed, Sent, PushesDone, Later
  <1>11. ASSUME Publish PROVE Undisturbed'
    BY <1>0, <1>11
    DEF Types, TypeOK, Versions, WorksOnOwn, Undisturbed, Sent, PushesDone,
        Later, Publish, BackendKeeps
  <1>12. ASSUME Notify PROVE Undisturbed'
    BY <1>0, <1>12
    DEF Types, TypeOK, Versions, WorksOnOwn, Undisturbed, Sent, PushesDone,
        Later, Notify, BackendKeeps
  <1>13. ASSUME RemoveOldChanges PROVE Undisturbed'
    BY <1>0, <1>13
    DEF Types, TypeOK, Versions, WorksOnOwn, Undisturbed, Sent, PushesDone,
        Later, RemoveOldChanges, OldChanges, BackendKeeps
  <1>14. ASSUME NEW w \in Workers, NEW fd \in Fds, Accept(w, fd) PROVE Undisturbed'
    BY <1>0, <1>14
    DEF Types, TypeOK, Versions, WorksOnOwn, Undisturbed, Sent, PushesDone,
        Later, Accept, WIdle, WorkerKeeps
  <1>15. ASSUME NEW w \in Workers, NEW fd \in Fds, NEW m \in Mods,
                Request(w, fd, m)
         PROVE  Undisturbed'
    BY <1>0, <1>15
    DEF Types, TypeOK, Versions, WorksOnOwn, Undisturbed, Sent, PushesDone,
        Later, Request, WIdle, WorkerKeeps
  <1>16. ASSUME NEW w \in Workers, Reply(w) PROVE Undisturbed'
    <2>1. wpc[w].fd \in Fds /\ wpc[w].mod \in Mods /\ Send(wpc[w].fd, wpc[w].mod)
      BY <1>0, <1>16 DEF WorksOnOwn, Reply
    <2>2. UNCHANGED <<lost, op, RouteChange, version, bpc, data, tasks, owner, pub_list,
                      need_pub>>
      BY <1>0, <1>16, <2>1, SendEffect DEF Reply
    <2>3. \A f \in Fds, m \in Mods : known'[f][m] # data[m] => known[f][m] # data[m]
      BY <1>0, <2>1, SendEffect
    <2>4. \A u \in Workers : wpc'[u].at \in {"push", "erase"} => wpc'[u] = wpc[u]
      BY <1>0, <1>16 DEF Types, TypeOK, Reply, WIdle
    <2>5. \A m \in Mods : Later(m) => Later(m)'
      BY <2>2 DEF Later
    <2>6. \A u \in Workers, f \in Fds, m \in Mods : Sent(u, f, m)'
      BY <1>0, <2>2, <2>3, <2>4, <2>5 DEF Undisturbed, Sent
    <2>7. PushesDone => PushesDone'
      BY <2>2, <2>4 DEF PushesDone
    <2>8. QED
      BY <1>0, <2>2, <2>6, <2>7 DEF Undisturbed
  <1>17. ASSUME NEW w \in Workers, NEW fd \in Fds, CloseStart(w, fd) PROVE Undisturbed'
    BY <1>0, <1>17
    DEF Types, TypeOK, Versions, WorksOnOwn, Undisturbed, Sent, PushesDone,
        Later, CloseStart, WIdle, WorkerKeeps
  <1>18. ASSUME NEW w \in Workers, NEW m \in Mods, UnSubscribe(w, m) PROVE Undisturbed'
    BY <1>0, <1>18
    DEF Types, TypeOK, Versions, WorksOnOwn, Undisturbed, Sent, PushesDone,
        Later, UnSubscribe, WorkerKeeps
  <1>19. ASSUME NEW w \in Workers, CloseEnd(w) PROVE Undisturbed'
    <2>1. UNCHANGED <<lost, op, RouteChange, version, tasks, pub_list, need_pub,
                      data, bpc>>
      BY <1>19 DEF CloseEnd, WorkerKeeps, dbVars, opVars, backVars
    <2>2. wpc[w].fd \in Fds /\ owner[wpc[w].fd] = w /\ w \in Workers
      BY <1>0, <1>19 DEF WorksOnOwn, CloseEnd
    <2>3. \A f \in Fds : owner'[f] \in Workers => owner'[f] = owner[f] /\ f # wpc[w].fd
      BY <1>0, <1>19, <2>2, WorkerNumbers DEF Types, TypeOK, CloseEnd
    <2>4. \A f \in Fds : f # wpc[w].fd => known'[f] = known[f]
      BY <1>0, <1>19 DEF Types, TypeOK, CloseEnd
    <2>5. \A u \in Workers : wpc'[u].at \in {"push", "erase"} => wpc'[u] = wpc[u]
      BY <1>0, <1>19 DEF Types, TypeOK, CloseEnd, WIdle
    <2>6. \A m \in Mods : Later(m) => Later(m)'
      BY <2>1 DEF Later
    <2>7. \A u \in Workers, f \in Fds, m \in Mods : Sent(u, f, m)'
      BY <1>0, <2>1, <2>3, <2>4, <2>5, <2>6 DEF Undisturbed, Sent
    <2>8. PushesDone => PushesDone'
      BY <2>1, <2>5 DEF PushesDone
    <2>9. QED
      BY <1>0, <2>1, <2>7, <2>8 DEF Undisturbed
  <1>20. ASSUME NEW w \in Workers, PushStart(w) PROVE Undisturbed'
    BY <1>0, <1>20
    DEF Types, TypeOK, Versions, WorksOnOwn, Undisturbed, Sent, PushesDone,
        Later, PushStart, WIdle, Open, WorkerKeeps
  <1>21. ASSUME NEW w \in Workers, NEW fd \in Fds, NEW m \in Mods,
                PushSend(w, fd, m)
         PROVE  Undisturbed'
    BY <1>0, <1>21
    DEF Send, Types, TypeOK, Versions, WorksOnOwn, Undisturbed, Sent, PushesDone,
        Later, PushSend, WorkerKeeps
  <1>22. ASSUME NEW w \in Workers, PushErase(w) PROVE Undisturbed'
    BY <1>0, <1>22
    DEF Types, TypeOK, Versions, WorksOnOwn, Undisturbed, Sent, PushesDone,
        Later, PushErase, WIdle
  <1>23. ASSUME NEW w \in Workers, PushEnd(w) PROVE Undisturbed'
    BY <1>0, <1>23
    DEF Types, TypeOK, Versions, WorksOnOwn, Undisturbed, Sent, PushesDone,
        Later, PushEnd, WIdle, WorkerKeeps
  <1>24. QED
    BY <1>1, <1>2, <1>3, <1>4, <1>5, <1>6, <1>7, <1>8, <1>9, <1>10, <1>11,
       <1>12, <1>13, <1>14, <1>15, <1>16, <1>17, <1>18, <1>19, <1>20, <1>21,
       <1>22, <1>23
    DEF Next, Operator, Backend, WorkerRuns, ClientActs

-----------------------------------------------------------------------------
(* A service that has just read its routes has nothing to catch up with. *)
LEMMA InitIInv == Init => IInv
  <1> SUFFICES ASSUME Init
               PROVE  IInv
    OBVIOUS
  <1>1. Types
    BY WorkerNumbers DEF Init, Types, TypeOK, OpIdle, WIdle, NoRoute
  <1>2. Versions
    BY DEF Init, Versions, OpIdle
  <1>3. \A w \in Workers : WorksOnOwn(w)
    BY DEF Init, WorksOnOwn, WIdle
  <1>4. \A fd \in Fds : Mirrored(fd)
    BY DEF Init, Mirrored
  <1>5. \A m \in Mods : Ages(m)
    <2>1. \A m \in Mods : RouteData[m] = 0 /\ data[m] = 0
      BY DEF Init
    <2>2. \A m \in Mods, fd \in Fds : known[fd][m] = -1
      BY DEF Init, NoRoute
    <2>3. changes = 0 /\ bpc = "boot"
      BY DEF Init
    <2>4. \A m \in Mods : \A fd \in Fds : known[fd][m] <= data[m]
      BY <2>1, <2>2, -1 <= 0
    <2>5. QED
      BY <2>1, <2>3, <2>4, 0 <= 0 DEF Ages
  <1>6. Inherited
    BY DEF Init, Inherited
  <1>7. Lags
    BY DEF Init, Lags, DataLags, TempLags, ClientLags
  <1>8. Undisturbed
    BY DEF Init, Undisturbed, OpIdle, Sent, WIdle
  <1>9. QED
    BY <1>1, <1>2, <1>3, <1>4, <1>5, <1>6, <1>7, <1>8 DEF IInv, Safe

(* No step of any thread breaks the invariant. *)
LEMMA StepIInv == IInv /\ [Next]_vars => IInv'
  <1> SUFFICES ASSUME IInv, [Next]_vars
               PROVE  IInv'
    OBVIOUS
  <1>1. CASE Next
    <2>1. Safe'
      BY <1>1, SafeStep DEF IInv
    <2>2. Inherited'
      BY <1>1, InheritedStep DEF IInv
    <2>3. Lags'
      BY <1>1, DataLagsStep, TempLagsStep, ClientLagsStep DEF IInv, Lags
    <2>4. Undisturbed'
      BY <1>1, UndisturbedStep DEF IInv, Undisturbed
    <2>5. QED
      BY <2>1, <2>2, <2>3, <2>4 DEF IInv
  <1>2. CASE UNCHANGED vars
    <2>1. UNCHANGED <<dbVars, opVars, backVars, sub_list, pub_list, tasks, workVars,
                      connVars, lost>>
      BY <1>2 DEF vars
    <2>2. Safe'
      BY <2>1 DEF IInv, Safe, Types, TypeOK, Versions, WorksOnOwn, Mirrored, Ages,
                  dbVars, opVars, backVars, workVars, connVars
    <2>3. Inherited'
      BY <2>1 DEF IInv, Inherited, Ending, backVars, workVars, connVars
    <2>4. Lags'
      BY <2>1 DEF IInv, Lags, DataLags, TempLags, ClientLags, Coming, Tasked, Closing,
                  Later, ThisRound, dbVars, opVars, backVars, workVars, connVars
    <2>5. Undisturbed'
      BY <2>1 DEF IInv, Undisturbed, Sent, PushesDone, Later,
                  dbVars, opVars, backVars, workVars, connVars
    <2>6. QED
      BY <2>2, <2>3, <2>4, <2>5 DEF IInv
  <1>3. QED
    BY <1>1, <1>2

(***************************************************************************)
(* IInv holds throughout, whatever disturbs the service.                   *)
(***************************************************************************)
THEOREM DnsInvariant == Spec => []IInv
  <1>1. QED
    BY InitIInv, StepIInv, PTL DEF Spec

(***************************************************************************)
(* The subscriptions of a connection are gone before its descriptor can be *)
(* handed out again, for any number of workers, connections and mods.      *)
(***************************************************************************)
THEOREM SubscribersOpen == Spec => []SubscribersAreOpen
  <1>1. IInv => SubscribersAreOpen
    BY DEF IInv, Safe, Types, Mirrored, SubscribersAreOpen, TypeOK
  <1>2. QED
    BY <1>1, DnsInvariant, PTL

(***************************************************************************)
(* Whatever goes wrong, a subscriber that is left with an old route misses *)
(* a change that was lost in one of the six ways of StaleOnlyIfLost.      *)
(***************************************************************************)
THEOREM OnlyLostChangesAreMissed == Spec => []StaleOnlyIfLost
  <1>1. IInv => StaleOnlyIfLost
    <2> SUFFICES ASSUME IInv, Quiet, NEW fd \in Fds, Settled(fd), NEW m \in mods[fd] \ lost,
                        known[fd][m] # RouteData[m]
                 PROVE  FALSE
      BY DEF StaleOnlyIfLost
    <2>1. m \in Mods \ lost /\ owner[fd] # N /\ owner[fd] \in Workers
      BY WorkerNumbers DEF IInv, Safe, Types, TypeOK, Settled
    <2>2. Coming(fd, m)
      BY <2>1 DEF IInv, Lags, ClientLags, Quiet
    <2>3. ~Later(m)
      <3>1. version = RouteVersion /\ op.at = "idle"
        BY DEF Quiet
      <3>2. \A r \in RouteChange : r.ver <= RouteVersion /\ r.ver \in Nat
        BY DEF IInv, Safe, Versions, Types, TypeOK
      <3>3. RouteVersion \in Nat
        BY DEF IInv, Safe, Types, TypeOK
      <3>4. QED
        BY <3>1, <3>2, <3>3 DEF Later
    <2>4. tasks[owner[fd]] = 0 /\ wpc[owner[fd]].at \notin {"push", "erase"} /\ bpc = "sleep"
      BY <2>1 DEF Quiet, PushesDone
    <2>5. need_pub[owner[fd]][fd] = {}
      BY <2>1, <2>4 DEF IInv, Safe, WorksOnOwn
    <2>6. wpc[owner[fd]].fd # fd
      BY DEF Settled
    <2>7. QED
      BY <2>2, <2>3, <2>4, <2>5, <2>6 DEF Coming, Tasked, Closing
  <1>2. QED
    BY <1>1, DnsInvariant, PTL

(***************************************************************************)
(* Without disturbances nothing is lost, and every subscriber of a service *)
(* at rest holds the routes of the database.                               *)
(***************************************************************************)
THEOREM FreshAtRest ==
  ASSUME Allow = {}
  PROVE  Spec => []Fresh
  <1>1. IInv /\ StaleOnlyIfLost => Fresh
    BY DEF IInv, Undisturbed, StaleOnlyIfLost, Fresh, AllFresh
  <1>2. QED
    BY <1>1, DnsInvariant, OnlyLostChangesAreMissed, PTL

(***************************************************************************)
(* On one connection the routes a client is sent never go back in time,    *)
(* although requests and pushes read whichever of the two maps is in use.  *)
(***************************************************************************)
THEOREM RoutesNeverGoBack == Spec => NeverOlder
  <1> DEFINE A == \A fd \in Fds, m \in Mods :
                     owner[fd] # N /\ owner'[fd] = owner[fd] => known'[fd][m] >= known[fd][m]
  <1>1. IInv /\ [Next]_vars => [A]_vars
    <2> SUFFICES ASSUME IInv, Next
                 PROVE  A
      OBVIOUS
    <2>1. Types /\ (\A w \in Workers : WorksOnOwn(w)) /\ (\A m \in Mods : Ages(m))
      BY DEF IInv, Safe
    <2>2. \A fd \in Fds, m \in Mods :
             data[m] \in Int /\ known[fd][m] \in Int /\ data[m] >= known[fd][m]
      <3>1. \A fd \in Fds, m \in Mods : data[m] \in Int /\ known[fd][m] \in Int
        <4>1. data \in [Mods -> Nat] /\ known \in [Fds -> [Mods -> Nat \cup {NoRoute}]]
          BY <2>1 DEF Types, TypeOK
        <4>2. Nat \subseteq Int /\ Nat \cup {NoRoute} \subseteq Int
          BY DEF NoRoute
        <4>3. QED
          BY <4>1, <4>2
      <3>2. \A fd \in Fds, m \in Mods : known[fd][m] <= data[m]
        BY <2>1 DEF Ages
      <3>3. QED
        BY <3>1, <3>2
    <2>3. ASSUME known' = known PROVE A
      BY <2>2, <2>3
    <2>4. ASSUME NEW w \in Workers, NEW f \in Fds, Accept(w, f) PROVE A
      BY <2>1, <2>2, <2>4, WorkerNumbers DEF Accept, Types, TypeOK
    <2>5. ASSUME NEW w \in Workers, Reply(w) PROVE A
      <3>1. wpc[w].fd \in Fds /\ wpc[w].mod \in Mods /\ Send(wpc[w].fd, wpc[w].mod)
        BY <2>1, <2>5 DEF Reply, WorksOnOwn
      <3>2. \A f \in Fds, n \in Mods : known'[f][n] = known[f][n] \/ known'[f][n] = data[n]
        BY <2>1, <3>1, SendEffect
      <3>3. QED
        BY <2>2, <3>2
    <2>6. ASSUME NEW w \in Workers, CloseEnd(w) PROVE A
      BY <2>1, <2>2, <2>6 DEF CloseEnd, WorksOnOwn, Types, TypeOK
    <2>7. ASSUME NEW w \in Workers, NEW f \in Fds, NEW n \in Mods,
                 PushSend(w, f, n)
          PROVE  A
      <3>1. \A g \in Fds, k \in Mods : known'[g][k] = known[g][k] \/ known'[g][k] = data[k]
        BY <2>1, <2>7, SendEffect DEF PushSend
      <3>2. QED
        BY <2>2, <3>1
    <2>8. CASE Operator \/ Backend
      <3>1. known' = known
        BY <2>8
        DEF Operator, ChangeData, ChangeVersion, ChangeRecord,
            ChangeTransaction,
              Backend, RemoveAllChanges, LoadVersionNew, LoadVersionOld, LoadRouteData, Swap,
              LoadChanges, Publish, Notify, RemoveOldChanges, BackendKeeps, connVars
      <3>2. QED
        BY <2>3, <3>1
    <2>9. ASSUME NEW w \in Workers,
                 \/ PushStart(w) \/ PushErase(w) \/ PushEnd(w)
                 \/ \E m \in Mods : UnSubscribe(w, m)
                 \/ \E fd \in Fds, m \in Mods : Request(w, fd, m)
                 \/ \E fd \in Fds : CloseStart(w, fd)
          PROVE A
      <3>1. known' = known
        BY <2>9
        DEF PushStart, PushErase, PushEnd, UnSubscribe, Request, CloseStart,
            connVars
      <3>2. QED
        BY <2>3, <3>1
    <2>10. QED
      BY <2>4, <2>5, <2>6, <2>7, <2>8, <2>9 DEF Next, WorkerRuns, ClientActs
  <1>2. QED
    BY <1>1, DnsInvariant, PTL DEF Spec, NeverOlder

(***************************************************************************)
(* A connection is pushed only the mods it asked for and, once each, those *)
(* pub_list held for its descriptor when it was accepted, for any number   *)
(* of descriptors, connections and reuses.                                 *)
(***************************************************************************)
THEOREM OnlySubscribersArePushed == Spec => PushedToSubscriber
  <1> DEFINE A == \A w \in Workers, fd \in Fds, m \in Mods :
                     m \in need_pub[w][fd] \ need_pub'[w][fd] => m \in mods[fd] \cup left[fd]
  <1>1. IInv /\ [Next]_vars => [A]_vars
    BY DEF IInv, Inherited
  <1>2. QED
    BY <1>1, DnsInvariant, PTL DEF Spec, PushedToSubscriber
=============================================================================
