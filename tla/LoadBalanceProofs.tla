------------------------- MODULE LoadBalanceProofs --------------------------
(***************************************************************************)
(* Proofs about LoadBalance, for any set of hosts, any addresses and every *)
(* configuration.  ListsPartition is not inductive alone: that a new host  *)
(* takes an address and a key no listed object has needs LiveAreMapped,    *)
(* and that nothing undefined happens before a removal needs to know what  *)
(* the map's entries point to (MapExactUntilRemoval) and which keys the    *)
(* loops of update still hold (UpdateSound).                               *)
(***************************************************************************)
EXTENDS LoadBalance, TLAPS

(* std::list *)

(* push_back of an address that is not in the list yet. *)
LEMMA AppendList ==
  ASSUME NEW l \in Seq(Addrs), NEW p \in Addrs, NoDuplicates(l), p \notin Elems(l)
  PROVE  /\ Append(l, p) \in Seq(Addrs)
         /\ NoDuplicates(Append(l, p))
         /\ Elems(Append(l, p)) = Elems(l) \cup {p}
  <1> DEFINE r == Append(l, p)
  <1>1. /\ r \in Seq(Addrs) /\ Len(l) \in Nat /\ Len(r) = Len(l) + 1
        /\ r[Len(l) + 1] = p
        /\ \A i \in 1..Len(l) : r[i] = l[i]
    OBVIOUS
  <1>2. \A i \in 1..Len(l) : l[i] # p
    BY DEF Elems
  <1> HIDE DEF r
  <1>3. NoDuplicates(r)
    BY <1>1, <1>2 DEF NoDuplicates
  <1>4. Elems(r) = Elems(l) \cup {p}
    <2>1. Elems(r) \subseteq Elems(l) \cup {p}
      BY <1>1 DEF Elems
    <2>2. Elems(l) \subseteq Elems(r)
      BY <1>1 DEF Elems
    <2>3. p \in Elems(r)
      BY <1>1 DEF Elems
    <2>4. QED
      BY <2>1, <2>2, <2>3
  <1>5. QED
    BY <1>1, <1>3, <1>4 DEF r

(* get_host_from_list only reorders a list. *)
LEMMA RotateList ==
  ASSUME NEW l \in Seq(Addrs), l # << >>, NoDuplicates(l)
  PROVE  /\ Rotate(l) \in Seq(Addrs) /\ Rotate(l) # << >>
         /\ NoDuplicates(Rotate(l))
         /\ Elems(Rotate(l)) = Elems(l)
  <1> DEFINE r == Rotate(l)
             n == Len(l)
  <1>1. /\ n \in Nat \ {0} /\ Head(l) \in Addrs /\ Head(l) = l[1]
        /\ Tail(l) \in Seq(Addrs) /\ Len(Tail(l)) = n - 1
        /\ \A i \in 1..(n - 1) : Tail(l)[i] = l[i + 1]
    OBVIOUS
  <1>2. /\ r \in Seq(Addrs) /\ Len(r) = n
        /\ r[n] = l[1]
        /\ \A i \in 1..(n - 1) : r[i] = l[i + 1]
    BY <1>1 DEF Rotate
  <1> HIDE DEF r
  <1>3. NoDuplicates(r)
    BY <1>1, <1>2 DEF NoDuplicates
  <1>4. Elems(r) \subseteq Elems(l)
    BY <1>1, <1>2 DEF Elems
  <1>5. ASSUME NEW i \in 1..n PROVE \E j \in 1..n : r[j] = l[i]
    <2>1. CASE i = 1
      BY <1>1, <1>2, <2>1
    <2>2. CASE i # 1
      <3>1. i - 1 \in 1..(n-1) /\ i - 1 \in 1..n
        BY <1>1, <2>2
      <3>2. r[i - 1] = l[i]
        BY <3>1, <1>2
      <3>3. QED
        BY <3>1, <3>2
    <2>3. QED
      BY <2>1, <2>2
  <1>6. Elems(l) \subseteq Elems(r)
    BY <1>5, <1>2 DEF Elems
  <1>7. r # << >>
    BY <1>1, <1>2
  <1>8. QED
    BY <1>2, <1>3, <1>4, <1>6, <1>7 DEF r

(* list::remove takes out the one address and nothing else. *)
LEMMA WithoutList ==
  ASSUME NEW l \in Seq(Addrs), NEW p \in Addrs, NoDuplicates(l)
  PROVE  /\ Without(l, p) \in Seq(Addrs)
         /\ NoDuplicates(Without(l, p))
         /\ Elems(Without(l, p)) = Elems(l) \ {p}
  <1>1. CASE ~\E i \in 1..Len(l) : l[i] = p
    <2>1. Without(l, p) = l
      BY <1>1 DEF Without
    <2>2. Elems(l) = Elems(l) \ {p}
      BY <1>1 DEF Elems
    <2>3. QED
      BY <2>1, <2>2
  <1>2. CASE \E i \in 1..Len(l) : l[i] = p
    <2> DEFINE n == Len(l)
               k == CHOOSE i \in 1..Len(l) : l[i] = p
               r == [j \in 1..(n - 1) |-> IF j < k THEN l[j] ELSE l[j + 1]]
    <2>1. k \in 1..n /\ l[k] = p /\ n \in Nat \ {0}
      BY <1>2
    <2>2. Without(l, p) = r
      BY <1>2 DEF Without
    <2> HIDE DEF k
    <2>3. r \in Seq(Addrs) /\ Len(r) = n - 1
      <3>1. \A j \in 1..(n-1) : (IF j < k THEN l[j] ELSE l[j+1]) \in Addrs
        BY <2>1
      <3>2. n - 1 \in Nat
        BY <2>1
      <3>3. r \in [1..(n-1) -> Addrs]
        BY <3>1
      <3>4. QED
        BY <3>2, <3>3
    <2>4. \A j \in 1..(n-1) : r[j] = IF j < k THEN l[j] ELSE l[j + 1]
      OBVIOUS
    <2> HIDE DEF r
    <2>5. NoDuplicates(r)
      BY <2>1, <2>3, <2>4 DEF NoDuplicates
    <2>6. \A j \in 1..n : l[j] = p <=> j = k
      BY <2>1 DEF NoDuplicates
    <2>7. \A j \in 1..(n-1) : r[j] \in Elems(l) \ {p}
      BY <2>1, <2>4, <2>6 DEF Elems
    <2>8. ASSUME NEW i \in 1..n, l[i] # p PROVE \E j \in 1..(n-1) : r[j] = l[i]
      <3>1. CASE i < k
         <4>1. i \in 1..(n-1)
           BY <3>1, <2>1
         <4>2. QED
           BY <4>1, <3>1, <2>4
      <3>2. CASE i > k
         <4>1. i - 1 \in 1..(n-1) /\ ~(i - 1 < k)
           BY <3>2, <2>1
         <4>2. r[i - 1] = l[i]
           BY <4>1, <2>4
         <4>3. QED
           BY <4>1, <4>2
      <3>3. i # k
        BY <2>6, <2>8
      <3>4. i < k \/ i > k
        BY <3>3, <2>1
      <3>5. QED
        BY <3>1, <3>2, <3>4
    <2>9. Elems(r) = Elems(l) \ {p}
      <3>1. Elems(r) = {r[j] : j \in 1..(n-1)}
        BY <2>3 DEF Elems
      <3>2. Elems(r) \subseteq Elems(l) \ {p}
        BY <2>7, <3>1
      <3>3. ASSUME NEW x \in Elems(l) \ {p} PROVE x \in Elems(r)
        <4>1. PICK i \in 1..n : x = l[i]
          BY <3>3 DEF Elems
        <4>2. PICK j \in 1..(n-1) : r[j] = l[i]
          BY <4>1, <3>3, <2>8
        <4>3. QED
          BY <3>1, <4>1, <4>2
      <3>4. QED
        BY <3>2, <3>3
    <2>10. QED
      BY <2>2, <2>3, <2>5, <2>9
  <1>3. QED
    BY <1>1, <1>2

-----------------------------------------------------------------------------
(* host_info *)

(* A host_info is told from freed memory by its key. *)
LEMMA LiveHost ==
  ASSUME NEW h \in HostInfo
  PROVE  h # Freed /\ h.key \in Keys /\ h.overload \in BOOLEAN
  <1>1. h.key \in Keys /\ h.overload \in BOOLEAN
    BY DEF HostInfo
  <1>2. h.key # NoKey
    BY <1>1, KeysAreNumbers DEF NoKey
  <1>3. Freed.key = NoKey
    BY DEF Freed
  <1>4. QED
    BY <1>1, <1>2, <1>3

(* The constructor makes an idle host_info of its key. *)
LEMMA NewHostIsHost ==
  ASSUME NEW k \in Keys
  PROVE  NewHost(k) \in HostInfo /\ NewHost(k).key = k /\ NewHost(k).overload = FALSE
  BY ConfigAssumption DEF NewHost, HostInfo, Counter

(* set_idle and set_overload keep the key and set the flag. *)
LEMMA SetIdleIsHost ==
  ASSUME NEW h \in HostInfo
  PROVE  /\ SetIdle(h) \in HostInfo /\ SetIdle(h).key = h.key /\ SetIdle(h).overload = FALSE
         /\ SetOverload(h) \in HostInfo /\ SetOverload(h).key = h.key
         /\ SetOverload(h).overload = TRUE
  BY ConfigAssumption DEF SetIdle, SetOverload, HostInfo, Counter

(* ++ on a uint32_t stays a uint32_t. *)
LEMMA IncCounter == ASSUME NEW n \in Counter PROVE Inc(n) \in Counter
  BY ConfigAssumption DEF Inc, Counter

(* Counting a report changes neither the key nor the list of a host. *)
LEMMA CountIsHost ==
  ASSUME NEW h \in HostInfo, NEW ok \in BOOLEAN
  PROVE  /\ Count(h, ok) \in HostInfo
         /\ Count(h, ok).key = h.key
         /\ Count(h, ok).overload = h.overload
  <1>0. 0 \in Counter
    BY ConfigAssumption DEF Counter
  <1>1. /\ Inc(h.vsucc) \in Counter /\ Inc(h.verr) \in Counter
        /\ Inc(h.rsucc) \in Counter /\ Inc(h.rerr) \in Counter
        /\ Inc(h.contin_succ) \in Counter /\ Inc(h.contin_err) \in Counter
    BY IncCounter DEF HostInfo
  <1>2. CASE ok
    BY <1>0, <1>1, <1>2 DEF Count, HostInfo
  <1>3. CASE ~ok
    BY <1>0, <1>1, <1>3 DEF Count, HostInfo
  <1>4. QED
    BY <1>2, <1>3

-----------------------------------------------------------------------------
(* load_balance *)

(* The invariant holds of a load_balance just constructed. *)
LEMMA InitIInv == Init => IInv
  <1> SUFFICES ASSUME Init PROVE IInv
    OBVIOUS
  <1>1. TypeOK
    <2>1. /\ heap \in [Addrs -> HostInfo \cup {Freed}]
          /\ host_map \in [Keys -> Addrs \cup {NULL}]
      BY DEF Init
    <2>2. upd \in [at : {"idle", "insert", "delete"}, remote : SUBSET Keys, todo : SUBSET Keys]
      BY DEF Init, Idle
    <2>3. idle_list \in Seq(Addrs) /\ overload_list \in Seq(Addrs)
      BY DEF Init
    <2>4. access_cnt \in Int /\ out.msg = "none"
      BY ConfigAssumption DEF Init, Nothing
    <2>5. QED
      BY <2>1, <2>2, <2>3, <2>4 DEF Init, TypeOK
  <1>2. Live = {}
    BY DEF Init, Live
  <1>3. Elems(<< >>) = {} /\ NoDuplicates(<< >>)
    BY DEF Elems, NoDuplicates
  <1>4. ListsPartition
    BY <1>2, <1>3 DEF Init, ListsPartition, ListHolds
  <1>5. QED
    BY <1>1, <1>2, <1>4
    DEF Init, IInv, LiveAreMapped, MapExactUntilRemoval, UpdateSound,
        SafeUntilRemoval, Idle

(* A step that only reorders the lists keeps the invariant, also when it   *)
(* ends in a fault that a removal has made possible.                       *)
LEMMA SameHosts ==
  ASSUME IInv, UNCHANGED <<heap, host_map, upd, route, removed>>,
         idle_list' \in Seq(Addrs), NoDuplicates(idle_list'), Elems(idle_list') = Elems(idle_list),
         overload_list' \in Seq(Addrs), NoDuplicates(overload_list'),
         Elems(overload_list') = Elems(overload_list),
         access_cnt' \in Int, refused' \in Nat, restarted' \in BOOLEAN,
         out'.msg \in {"none", "GetHostResponse", "ReportStatusRequest"},
         fault' \in {"none", "front of an empty list",
                  "update uses a deleted host_info", "report uses a deleted host_info"},
         fault' # "none" => removed
  PROVE  IInv'
  <1>1. TypeOK'
    BY DEF IInv, TypeOK
  <1>2. ListsPartition'
    BY DEF IInv, ListsPartition, ListHolds, Live
  <1>3. QED
    BY <1>1, <1>2
    DEF IInv, LiveAreMapped, Live, MapExactUntilRemoval, IsLive, UpdateSound,
        SafeUntilRemoval

(* While nothing was removed, a load_balance that is not empty() has a     *)
(* host in one of its lists.                                               *)
LEMMA MappedMeansListed ==
  ASSUME IInv, ~removed, ~Empty
  PROVE  idle_list # << >> \/ overload_list # << >>
  <1>1. PICK k \in Keys : host_map[k] # NULL
    BY DEF Empty, Mapped
  <1>2. IsLive(host_map[k])
    BY <1>1 DEF IInv, MapExactUntilRemoval
  <1>3. host_map[k] \in Live /\ heap[host_map[k]].overload \in BOOLEAN
    BY <1>2, LiveHost DEF IsLive, Live, IInv, TypeOK
  <1>4. host_map[k] \in Elems(idle_list) \/ host_map[k] \in Elems(overload_list)
    BY <1>3 DEF IInv, ListsPartition, ListHolds
  <1>5. Elems(<< >>) = {}
    BY DEF Elems
  <1>6. QED
    BY <1>4, <1>5

(* choice_one_host keeps the invariant in all its branches. *)
LEMMA ChoiceIInv ==
  ASSUME IInv, ChoiceOneHost
  PROVE  IInv'
  <1>1. /\ idle_list \in Seq(Addrs) /\ NoDuplicates(idle_list)
        /\ overload_list \in Seq(Addrs) /\ NoDuplicates(overload_list)
        /\ access_cnt \in Int /\ refused \in Nat /\ restarted \in BOOLEAN
    BY DEF IInv, TypeOK, ListsPartition
  <1>2. CASE RefuseOverloaded
    BY <1>1, <1>2, SameHosts DEF RefuseOverloaded, Ready, Response, memory
  <1>3. CASE ProbeOverloaded
    <2>1. /\ access_cnt' \in Int
          /\ UNCHANGED <<heap, host_map, idle_list, upd, route, removed>>
      <3>1. /\ access_cnt' = 0
            /\ UNCHANGED <<heap, host_map, idle_list, upd, route, removed>>
        BY <1>3, Zenon DEF ProbeOverloaded
      <3>2. QED
        BY <3>1
    <2>2. CASE overload_list # << >>
      <3>1. overload_list' = Rotate(overload_list) /\ out' = Answer(Head(overload_list))
        BY <1>3, <2>2 DEF ProbeOverloaded
      <3>2. refused' = 0 /\ fault' = fault /\ restarted' = TRUE /\ fault = "none"
        BY <1>3, <2>2, Zenon DEF ProbeOverloaded, Ready
      <3>3. refused' \in Nat /\ restarted' \in BOOLEAN /\ out'.msg = "GetHostResponse"
        BY <3>1, <3>2 DEF Answer, Response
      <3>4. QED
        BY <1>1, <2>1, <2>2, <3>1, <3>2, <3>3, RotateList, SameHosts
    <2>3. CASE overload_list = << >>
      <3>1. removed
        BY <1>3, <2>3, MappedMeansListed DEF ProbeOverloaded
      <3>2. /\ UNCHANGED <<overload_list, refused, restarted>>
            /\ out' = Nothing /\ fault' = "front of an empty list"
        BY <1>3, <2>3, Zenon DEF ProbeOverloaded
      <3>3. out'.msg = "none"
        BY <3>2 DEF Nothing
      <3>4. QED
        BY <1>1, <2>1, <3>1, <3>2, <3>3, SameHosts
    <2>4. QED
      BY <2>2, <2>3
  <1>4. CASE ChooseIdle
    BY <1>1, <1>4, RotateList, SameHosts DEF ChooseIdle, Ready, Answer, Response
  <1>5. CASE ChooseMixedProbe
    BY <1>1, <1>5, RotateList, SameHosts DEF ChooseMixedProbe, Ready, Answer, Response
  <1>6. CASE ChooseMixed
    <2> DEFINE once == Rotate(idle_list)
    <2>1. /\ once \in Seq(Addrs) /\ once # << >>
          /\ NoDuplicates(once) /\ Elems(once) = Elems(idle_list)
      BY <1>1, <1>6, RotateList DEF ChooseMixed
    <2>2. idle_list' = Rotate(once) /\ out'.msg = "GetHostResponse"
      BY <1>6 DEF ChooseMixed, Answer, Response
    <2>3. /\ Rotate(once) \in Seq(Addrs) /\ NoDuplicates(Rotate(once))
          /\ Elems(Rotate(once)) = Elems(once)
      BY <2>1, RotateList
    <2> HIDE DEF once
    <2>4. QED
      BY <1>1, <1>6, <2>1, <2>2, <2>3, SameHosts DEF ChooseMixed, Ready
  <1>7. QED
    BY <1>2, <1>3, <1>4, <1>5, <1>6 DEF ChoiceOneHost

(* A GetRouteResponse arrives. *)
LEMMA UpdateStartIInv ==
  ASSUME IInv, NEW hosts \in SUBSET Keys, UpdateStart(hosts)
  PROVE  IInv'
  <1>1. /\ UNCHANGED <<heap, host_map, idle_list, overload_list, access_cnt, fault,
                       removed, refused, restarted>>
        /\ upd' = [at |-> "insert", remote |-> hosts, todo |-> hosts \ Mapped]
        /\ route' = hosts /\ out' = Nothing
    BY Zenon DEF UpdateStart, memory
  <1>2. TypeOK'
    <2>1. upd' \in [at : {"idle", "insert", "delete"}, remote : SUBSET Keys, todo : SUBSET Keys]
      BY <1>1
    <2>2. QED
      BY <1>1, <2>1 DEF IInv, TypeOK, Nothing
  <1>3. UpdateSound'
    BY <1>1 DEF UpdateSound, Mapped
  <1>4. QED
    BY <1>1, <1>2, <1>3
    DEF IInv, ListsPartition, ListHolds, LiveAreMapped, Live, MapExactUntilRemoval,
        IsLive,
        SafeUntilRemoval

(* update: a new host is allocated, mapped and listed. *)
LEMMA UpdateInsertIInv ==
  ASSUME IInv, NEW k \in Keys, NEW p \in Addrs, UpdateInsert(k, p)
  PROVE  IInv'
  <1>1. /\ heap' = [heap EXCEPT ![p] = NewHost(k)]
        /\ host_map' = [host_map EXCEPT ![k] = p]
        /\ idle_list' = Append(idle_list, p)
        /\ upd' = [upd EXCEPT !.todo = @ \ {k}]
        /\ out' = Nothing
        /\ UNCHANGED <<overload_list, access_cnt, fault, route, removed, refused, restarted>>
    BY Zenon DEF UpdateInsert, history
  <1>2. /\ heap[p] = Freed /\ host_map[k] = NULL /\ upd.at = "insert"
        /\ k \in upd.todo /\ fault = "none"
    BY DEF UpdateInsert, IsLive, IInv, UpdateSound
  <1>3. /\ NewHost(k) \in HostInfo /\ NewHost(k) # Freed /\ NewHost(k).key = k
        /\ NewHost(k).overload = FALSE
    BY NewHostIsHost, LiveHost
  <1>4. p \notin Elems(idle_list) /\ p \notin Elems(overload_list)
    BY <1>2 DEF IInv, ListsPartition, ListHolds, Live
  <1>5. /\ idle_list' \in Seq(Addrs) /\ NoDuplicates(idle_list')
        /\ Elems(idle_list') = Elems(idle_list) \cup {p}
    BY <1>1, <1>4, AppendList DEF IInv, TypeOK, ListsPartition
  <1>6. /\ heap \in [Addrs -> HostInfo \cup {Freed}] /\ host_map \in [Keys -> Addrs \cup {NULL}]
        /\ upd \in [at : {"idle", "insert", "delete"}, remote : SUBSET Keys, todo : SUBSET Keys]
    BY DEF IInv, TypeOK
  <1>7. /\ heap'[p] = NewHost(k) /\ host_map'[k] = p
        /\ \A q \in Addrs : q # p => heap'[q] = heap[q]
        /\ \A j \in Keys : j # k => host_map'[j] = host_map[j]
    BY <1>1, <1>6
  <1>8. TypeOK'
    <2>1. /\ heap' \in [Addrs -> HostInfo \cup {Freed}]
          /\ host_map' \in [Keys -> Addrs \cup {NULL}]
      BY <1>1, <1>3, <1>6
    <2>2. upd' \in [at : {"idle", "insert", "delete"}, remote : SUBSET Keys, todo : SUBSET Keys]
      BY <1>1, <1>6
    <2>3. QED
      BY <1>1, <1>5, <2>1, <2>2 DEF IInv, TypeOK, Nothing
  <1>9. ListsPartition'
    <2>1. ListHolds(idle_list, FALSE)'
      BY <1>3, <1>5, <1>7 DEF IInv, ListsPartition, ListHolds, Live
    <2>2. ListHolds(overload_list, TRUE)'
      BY <1>1, <1>2, <1>3, <1>7 DEF IInv, ListsPartition, ListHolds, Live
    <2>3. QED
      BY <1>1, <1>5, <2>1, <2>2 DEF IInv, ListsPartition
  <1>10. LiveAreMapped'
    <2> SUFFICES ASSUME NEW q \in Addrs, heap'[q] # Freed PROVE host_map'[heap'[q].key] = q
      BY DEF LiveAreMapped, Live
    <2>1. CASE q = p
      BY <1>3, <1>7, <2>1
    <2>2. CASE q # p
      <3>1. heap'[q] = heap[q] /\ q \in Live
        BY <1>7, <2>2 DEF Live
      <3>2. host_map[heap[q].key] = q /\ heap[q].key \in Keys
        BY <3>1, <1>6, LiveHost DEF IInv, LiveAreMapped, Live
      <3>3. heap[q].key # k
        BY <3>2, <1>2, NullAssumption
      <3>4. QED
        BY <3>1, <3>2, <3>3, <1>7
    <2>3. QED
      BY <2>1, <2>2
  <1>11. MapExactUntilRemoval'
    <2> SUFFICES ASSUME ~removed, NEW j \in Keys, host_map'[j] # NULL
                 PROVE  /\ host_map'[j] \in Addrs
                        /\ heap'[host_map'[j]] # Freed
                        /\ heap'[host_map'[j]].key = j
      BY <1>1 DEF MapExactUntilRemoval, IsLive
    <2>1. CASE j = k
      BY <1>3, <1>7, <2>1
    <2>2. CASE j # k
      <3>1. /\ host_map'[j] = host_map[j]
            /\ IsLive(host_map[j])
            /\ heap[host_map[j]].key = j
        BY <1>7, <2>2 DEF IInv, MapExactUntilRemoval
      <3>2. host_map[j] \in Addrs /\ host_map[j] # p
        BY <3>1, <1>2 DEF IsLive
      <3>3. QED
        BY <3>1, <3>2, <1>7 DEF IsLive
    <2>3. QED
      BY <2>1, <2>2
  <1>12. UpdateSound'
    BY <1>1, <1>2, <1>6, <1>7 DEF IInv, UpdateSound
  <1>13. SafeUntilRemoval'
    BY <1>1, <1>2 DEF SafeUntilRemoval
  <1>14. QED
    BY <1>8, <1>9, <1>10, <1>11, <1>12, <1>13 DEF IInv

(* update: from the first loop to the second, and its end. *)
LEMMA UpdateBoundaryIInv ==
  ASSUME IInv, UpdateCollect \/ UpdateEnd
  PROVE  IInv'
  <1>1. /\ UNCHANGED <<heap, host_map, idle_list, overload_list, access_cnt, fault>>
        /\ UNCHANGED <<route, removed, refused, restarted>>
        /\ out' = Nothing
    BY Zenon DEF UpdateCollect, UpdateEnd, memory, history
  <1>2. /\ upd' \in [at : {"idle", "insert", "delete"}, remote : SUBSET Keys, todo : SUBSET Keys]
        /\ upd'.at # "insert"
        /\ upd'.at = "delete" => upd'.todo \subseteq Mapped
    <2>1. upd \in [at : {"idle", "insert", "delete"}, remote : SUBSET Keys, todo : SUBSET Keys]
      BY DEF IInv, TypeOK
    <2>2. CASE UpdateCollect
      <3>1. upd' = [upd EXCEPT !.at = "delete", !.todo = Mapped \ upd.remote]
        BY <2>2 DEF UpdateCollect
      <3>2. Mapped \subseteq Keys
        BY DEF Mapped
      <3>3. QED
        BY <2>1, <3>1, <3>2
    <2>3. CASE UpdateEnd
      BY <2>3 DEF UpdateEnd, Idle
    <2>4. QED
      BY <2>2, <2>3
  <1>3. TypeOK'
    BY <1>1, <1>2 DEF IInv, TypeOK, Nothing
  <1>4. UpdateSound'
    BY <1>1, <1>2 DEF UpdateSound, Mapped
  <1>5. QED
    BY <1>1, <1>3, <1>4
    DEF IInv, ListsPartition, ListHolds, LiveAreMapped, Live, MapExactUntilRemoval,
        IsLive,
        SafeUntilRemoval

(* update: a host_info is deleted, its entry in the map stays. *)
LEMMA UpdateDeleteIInv ==
  ASSUME IInv, NEW k \in Keys, UpdateDelete(k)
  PROVE  IInv'
  <1> DEFINE p == host_map[k]
  <1>1. /\ UNCHANGED <<host_map, access_cnt, route, refused, restarted>>
        /\ upd' = [upd EXCEPT !.todo = @ \ {k}]
        /\ out' = Nothing
    BY Zenon DEF UpdateDelete
  <1>2. upd.at = "delete" /\ k \in upd.todo /\ fault = "none" /\ p # NULL
    BY DEF UpdateDelete, IInv, UpdateSound
  <1>3. /\ heap \in [Addrs -> HostInfo \cup {Freed}] /\ host_map \in [Keys -> Addrs \cup {NULL}]
        /\ upd \in [at : {"idle", "insert", "delete"}, remote : SUBSET Keys, todo : SUBSET Keys]
        /\ idle_list \in Seq(Addrs) /\ NoDuplicates(idle_list)
        /\ overload_list \in Seq(Addrs) /\ NoDuplicates(overload_list)
    BY DEF IInv, TypeOK, ListsPartition
  <1>4. p \in Addrs
    BY <1>2, <1>3
  <1>5. upd' \in [at : {"idle", "insert", "delete"}, remote : SUBSET Keys, todo : SUBSET Keys]
    BY <1>1, <1>3
  <1>6. UpdateSound'
    BY <1>1, <1>2, <1>3 DEF IInv, UpdateSound
  <1>7. CASE ~IsLive(p)
    <2>1. /\ fault' = "update uses a deleted host_info"
          /\ UNCHANGED <<heap, idle_list, overload_list, removed>>
      BY <1>7, Zenon DEF UpdateDelete
    <2>2. removed
      BY <1>2, <1>7 DEF IInv, MapExactUntilRemoval
    <2>3. TypeOK'
      BY <1>1, <1>5, <2>1 DEF IInv, TypeOK, Nothing
    <2>4. QED
      BY <1>1, <1>6, <2>1, <2>2, <2>3
      DEF IInv, ListsPartition, ListHolds, LiveAreMapped, Live, MapExactUntilRemoval,
          IsLive, SafeUntilRemoval
  <1>8. CASE IsLive(p)
    <2>1. /\ heap' = [heap EXCEPT ![p] = Freed] /\ removed' = TRUE /\ fault' = fault
          /\ \/ /\ heap[p].overload
                /\ overload_list' = Without(overload_list, p) /\ idle_list' = idle_list
             \/ /\ ~heap[p].overload
                /\ idle_list' = Without(idle_list, p) /\ overload_list' = overload_list
      BY <1>8, Zenon DEF UpdateDelete
    <2>2. heap[p] \in HostInfo /\ heap[p].overload \in BOOLEAN
      BY <1>3, <1>4, <1>8, LiveHost DEF IsLive
    <2>3. heap'[p] = Freed /\ \A q \in Addrs : q # p => heap'[q] = heap[q]
      BY <1>3, <1>4, <2>1
    <2>4. /\ idle_list' \in Seq(Addrs) /\ NoDuplicates(idle_list')
          /\ Elems(idle_list') = Elems(idle_list) \ {p}
          /\ overload_list' \in Seq(Addrs) /\ NoDuplicates(overload_list')
          /\ Elems(overload_list') = Elems(overload_list) \ {p}
      <3>1. CASE heap[p].overload
        <4>1. p \notin Elems(idle_list)
          BY <3>1 DEF IInv, ListsPartition, ListHolds, Live
        <4>2. overload_list' = Without(overload_list, p) /\ idle_list' = idle_list
          BY <2>1, <3>1
        <4>3. QED
          BY <1>3, <1>4, <4>1, <4>2, WithoutList
      <3>2. CASE ~heap[p].overload
        <4>1. p \notin Elems(overload_list)
          BY <3>2 DEF IInv, ListsPartition, ListHolds, Live
        <4>2. idle_list' = Without(idle_list, p) /\ overload_list' = overload_list
          BY <2>1, <3>2
        <4>3. QED
          BY <1>3, <1>4, <4>1, <4>2, WithoutList
      <3>3. QED
        BY <3>1, <3>2
    <2>5. TypeOK'
      <3>1. heap' \in [Addrs -> HostInfo \cup {Freed}]
        BY <1>3, <2>1
      <3>2. QED
        BY <1>1, <1>5, <2>1, <2>4, <3>1 DEF IInv, TypeOK, Nothing
    <2>6. ListsPartition'
      BY <2>3, <2>4 DEF IInv, ListsPartition, ListHolds, Live
    <2>7. LiveAreMapped'
      BY <1>1, <2>3 DEF IInv, LiveAreMapped, Live
    <2>8. MapExactUntilRemoval' /\ SafeUntilRemoval'
      BY <1>2, <2>1 DEF MapExactUntilRemoval, SafeUntilRemoval
    <2>9. QED
      BY <1>6, <2>5, <2>6, <2>7, <2>8 DEF IInv
  <1>9. QED
    BY <1>7, <1>8

(* report of a host the map does not have, or whose object is gone. *)
LEMMA ReportUnknownIInv ==
  ASSUME IInv, NEW k \in Keys, ReportUnknown(k) \/ ReportDangling(k)
  PROVE  IInv'
  <1>1. UNCHANGED <<heap, host_map, idle_list, overload_list, access_cnt, upd, route,
                    removed, refused, restarted>>
    BY Zenon DEF ReportUnknown, ReportDangling, memory, history
  <1>2. out'.msg \in {"none", "ReportStatusRequest"}
    <2>1. CASE Commit
      BY <2>1 DEF Commit, Nothing
    <2>2. CASE out' = Nothing
      BY <2>2 DEF Nothing
    <2>3. QED
      BY <2>1, <2>2, Zenon DEF ReportUnknown, ReportDangling
  <1>3. CASE ReportUnknown(k)
    <2>1. fault' = fault
      BY <1>3 DEF ReportUnknown
    <2>2. QED
      BY <1>1, <1>2, <2>1
      DEF IInv, TypeOK, ListsPartition, ListHolds, LiveAreMapped, Live,
          MapExactUntilRemoval,
          IsLive, UpdateSound, SafeUntilRemoval
  <1>4. CASE ReportDangling(k)
    <2>1. /\ fault' = "report uses a deleted host_info"
          /\ host_map[k] # NULL
          /\ ~IsLive(host_map[k])
      BY <1>4 DEF ReportDangling
    <2>2. removed
      BY <2>1 DEF IInv, MapExactUntilRemoval
    <2>3. QED
      BY <1>1, <1>2, <2>1, <2>2
      DEF IInv, TypeOK, ListsPartition, ListHolds, LiveAreMapped, Live,
          MapExactUntilRemoval,
          IsLive, UpdateSound, SafeUntilRemoval
  <1>5. QED
    BY <1>3, <1>4

(* report of a host: count, perhaps change its list, commit. *)
LEMMA ReportCountedIInv ==
  ASSUME IInv, NEW k \in Keys, NEW ok \in BOOLEAN, ReportCounted(k, ok)
  PROVE  IInv'
  <1> DEFINE p == host_map[k]
             h == Count(heap[p], ok)
  <1>1. /\ UNCHANGED <<host_map, access_cnt, upd, fault, route, removed, refused, restarted>>
        /\ Commit /\ IsLive(p)
    BY Zenon DEF ReportCounted, history
  <1>2. out'.msg \in {"none", "ReportStatusRequest"}
    BY <1>1 DEF Commit, Nothing
  <1>3. /\ heap \in [Addrs -> HostInfo \cup {Freed}]
        /\ idle_list \in Seq(Addrs) /\ NoDuplicates(idle_list)
        /\ overload_list \in Seq(Addrs) /\ NoDuplicates(overload_list)
    BY DEF IInv, TypeOK, ListsPartition
  <1>4. p \in Addrs /\ heap[p] # Freed /\ heap[p] \in HostInfo
    BY <1>1, <1>3 DEF IsLive
  <1>5. /\ h \in HostInfo /\ h.key = heap[p].key
        /\ h.overload = heap[p].overload /\ h.overload \in BOOLEAN
    BY <1>4, CountIsHost, LiveHost
  <1>6. p \in Elems(idle_list) <=> ~h.overload
    BY <1>4, <1>5 DEF IInv, ListsPartition, ListHolds, Live
  <1>7. p \in Elems(overload_list) <=> h.overload
    BY <1>4, <1>5 DEF IInv, ListsPartition, ListHolds, Live
  <1>8. PICK g \in HostInfo :
          /\ heap' = [heap EXCEPT ![p] = g] /\ g.key = h.key
          /\ idle_list' \in Seq(Addrs) /\ NoDuplicates(idle_list')
          /\ overload_list' \in Seq(Addrs) /\ NoDuplicates(overload_list')
          /\ Elems(idle_list') = IF g.overload THEN Elems(idle_list) \ {p}
                                                ELSE Elems(idle_list) \cup {p}
          /\ Elems(overload_list') = IF g.overload THEN Elems(overload_list) \cup {p}
                                                    ELSE Elems(overload_list) \ {p}
    <2>1. CASE /\ ~h.overload
               /\ heap' = [heap EXCEPT ![p] = SetOverload(h)]
               /\ idle_list' = Without(idle_list, p)
               /\ overload_list' = Append(overload_list, p)
      <3>1. /\ SetOverload(h) \in HostInfo /\ SetOverload(h).key = h.key
            /\ SetOverload(h).overload = TRUE
        BY <1>5, SetIdleIsHost
      <3>2. /\ idle_list' \in Seq(Addrs) /\ NoDuplicates(idle_list')
            /\ Elems(idle_list') = Elems(idle_list) \ {p}
        BY <1>3, <1>4, <2>1, WithoutList
      <3>3. /\ overload_list' \in Seq(Addrs) /\ NoDuplicates(overload_list')
            /\ Elems(overload_list') = Elems(overload_list) \cup {p}
        BY <1>3, <1>4, <1>7, <2>1, AppendList
      <3>4. QED
        BY <2>1, <3>1, <3>2, <3>3
    <2>2. CASE /\ h.overload
               /\ heap' = [heap EXCEPT ![p] = SetIdle(h)]
               /\ overload_list' = Without(overload_list, p)
               /\ idle_list' = Append(idle_list, p)
      <3>1. /\ SetIdle(h) \in HostInfo
            /\ SetIdle(h).key = h.key
            /\ SetIdle(h).overload = FALSE
        BY <1>5, SetIdleIsHost
      <3>2. /\ overload_list' \in Seq(Addrs) /\ NoDuplicates(overload_list')
            /\ Elems(overload_list') = Elems(overload_list) \ {p}
        BY <1>3, <1>4, <2>2, WithoutList
      <3>3. /\ idle_list' \in Seq(Addrs) /\ NoDuplicates(idle_list')
            /\ Elems(idle_list') = Elems(idle_list) \cup {p}
        BY <1>3, <1>4, <1>6, <2>2, AppendList
      <3>4. QED
        BY <2>2, <3>1, <3>2, <3>3
    <2>3. CASE /\ heap' = [heap EXCEPT ![p] = h]
               /\ idle_list' = idle_list /\ overload_list' = overload_list
      <3>1. CASE h.overload
        <4>1. /\ Elems(idle_list) = Elems(idle_list) \ {p}
              /\ Elems(overload_list) = Elems(overload_list) \cup {p}
          BY <1>6, <1>7, <3>1
        <4>2. QED
          BY <1>3, <1>5, <2>3, <3>1, <4>1
      <3>2. CASE ~h.overload
        <4>1. /\ Elems(overload_list) = Elems(overload_list) \ {p}
              /\ Elems(idle_list) = Elems(idle_list) \cup {p}
          BY <1>6, <1>7, <3>2
        <4>2. QED
          BY <1>3, <1>5, <2>3, <3>2, <4>1
      <3>3. QED
        BY <3>1, <3>2
    <2>4. QED
      BY <2>1, <2>2, <2>3, Zenon DEF ReportCounted
  <1>9. /\ heap'[p] = g /\ g # Freed /\ g.overload \in BOOLEAN /\ g.key = heap[p].key
        /\ \A q \in Addrs : q # p => heap'[q] = heap[q]
    BY <1>3, <1>4, <1>5, <1>8, LiveHost
  <1>10. TypeOK'
    <2>1. heap' \in [Addrs -> HostInfo \cup {Freed}]
      BY <1>3, <1>8
    <2>2. QED
      BY <1>1, <1>2, <1>8, <2>1 DEF IInv, TypeOK
  <1>11. ListsPartition'
    <2>1. ListHolds(idle_list, FALSE)'
      BY <1>4, <1>8, <1>9 DEF IInv, ListsPartition, ListHolds, Live
    <2>2. ListHolds(overload_list, TRUE)'
      BY <1>4, <1>8, <1>9 DEF IInv, ListsPartition, ListHolds, Live
    <2>3. QED
      BY <1>8, <2>1, <2>2 DEF ListsPartition
  <1>12. LiveAreMapped'
    BY <1>1, <1>4, <1>9 DEF IInv, LiveAreMapped, Live
  <1>13. MapExactUntilRemoval'
    BY <1>1, <1>4, <1>9 DEF IInv, MapExactUntilRemoval, IsLive
  <1>14. UpdateSound' /\ SafeUntilRemoval'
    BY <1>1 DEF IInv, UpdateSound, SafeUntilRemoval
  <1>15. QED
    BY <1>10, <1>11, <1>12, <1>13, <1>14 DEF IInv

(***************************************************************************)
(* IInv is an invariant of load_balance: the types, the partition of the   *)
(* hosts into the two lists, how objects and map are related, and that     *)
(* nothing undefined happens before the first removal.                     *)
(***************************************************************************)
THEOREM ListsInvariant == Spec => []IInv
  <1>1. IInv /\ [Next]_vars => IInv'
    <2> SUFFICES ASSUME IInv, [Next]_vars PROVE IInv'
      OBVIOUS
    <2>1. CASE ChoiceOneHost
      BY <2>1, ChoiceIInv
    <2>2. CASE Update
      BY <2>2, UpdateStartIInv, UpdateInsertIInv, UpdateBoundaryIInv,
         UpdateDeleteIInv
      DEF Update
    <2>3. CASE ReportHost
      BY <2>3, ReportUnknownIInv, ReportCountedIInv DEF ReportHost
    <2>4. CASE UNCHANGED vars
      BY <2>4
      DEF IInv, TypeOK, ListsPartition, ListHolds, LiveAreMapped, Live,
          MapExactUntilRemoval,
          IsLive, UpdateSound, SafeUntilRemoval, vars, memory, history
    <2>5. QED
      BY <2>1, <2>2, <2>3, <2>4 DEF Next
  <1>2. QED
    BY InitIInv, <1>1, PTL DEF Spec

(***************************************************************************)
(* Each host_info that exists is in exactly one of the two lists, once,    *)
(* and no list holds a deleted one: choice_one_host and commit never       *)
(* follow a dangling pointer, for any number of hosts and any allocator.   *)
(***************************************************************************)
THEOREM ListsArePartition == Spec => []ListsPartition
  BY ListsInvariant, PTL DEF IInv

(***************************************************************************)
(* The pointers, counters and lists of load_balance keep their types; the  *)
(* counters stay in the range of uint32_t.                                 *)
(***************************************************************************)
THEOREM LoadBalanceTypeCorrect == Spec => []TypeOK
  BY ListsInvariant, PTL DEF IInv

(***************************************************************************)
(* Until update has deleted a host, report, update and choice_one_host     *)
(* touch no freed memory and take no front() of an empty list.             *)
(***************************************************************************)
THEOREM SafeBeforeRemoval == Spec => []SafeUntilRemoval
  BY ListsInvariant, PTL DEF IInv

(***************************************************************************)
(* Why refusals are bounded: since _access_cnt was last set to 0 it has    *)
(* grown with every refusal, and it never passes probe_num.                *)
(***************************************************************************)
ProbeInv ==
    /\ access_cnt \in Int /\ refused \in Nat
    /\ restarted => refused <= ProbeNum /\ access_cnt <= ProbeNum
    /\ restarted /\ fault = "none" => refused <= access_cnt

(***************************************************************************)
(* Once _access_cnt has been set, at most probe_num callers in a row are   *)
(* refused, for every probe_num and any mix of requests, updates and       *)
(* reports.                                                                *)
(***************************************************************************)
THEOREM RefusalsAreBounded == Spec => []ProbeBound
  <1>1. Init => ProbeInv
    BY ConfigAssumption DEF Init, ProbeInv
  <1>2. ProbeInv /\ [Next]_vars => ProbeInv'
    <2> SUFFICES ASSUME ProbeInv, [Next]_vars PROVE ProbeInv'
      OBVIOUS
    <2>1. CASE RefuseOverloaded
      <3>1. restarted' = restarted
        BY <2>1, Zenon DEF RefuseOverloaded
      <3>2. /\ access_cnt < ProbeNum /\ access_cnt' = access_cnt + 1
            /\ refused' = refused + 1 /\ fault = "none"
        BY <2>1 DEF RefuseOverloaded, Ready
      <3>3. QED
        BY <3>1, <3>2, ConfigAssumption DEF ProbeInv
    <2>2. CASE ProbeOverloaded
      <3>1. access_cnt' = 0
        BY <2>2 DEF ProbeOverloaded
      <3>2. CASE refused' = 0
        BY <3>1, <3>2, ConfigAssumption DEF ProbeInv
      <3>3. CASE refused' = refused /\ restarted' = restarted /\ fault' = "front of an empty list"
        <4>1. access_cnt' \in Int /\ access_cnt' <= ProbeNum
          BY <3>1, ConfigAssumption
        <4>2. refused' \in Nat /\ (restarted' => refused' <= ProbeNum)
          BY <3>3, Zenon DEF ProbeInv
        <4>3. fault' # "none"
          BY <3>3, Zenon
        <4>4. QED
          BY <4>1, <4>2, <4>3, Zenon DEF ProbeInv
      <3>4. QED
        BY <2>2, <3>2, <3>3, Zenon DEF ProbeOverloaded
    <2>3. CASE ChooseIdle
      <3>1. /\ access_cnt' = access_cnt /\ refused' = 0 /\ restarted' = restarted
            /\ fault = "none"
        BY <2>3, Zenon DEF ChooseIdle, Ready
      <3>2. QED
        BY <3>1, ConfigAssumption DEF ProbeInv
    <2>4. CASE ChooseMixedProbe
      <3>1. access_cnt' = 0 /\ refused' = 0
        BY <2>4, Zenon DEF ChooseMixedProbe
      <3>2. QED
        BY <3>1, ConfigAssumption DEF ProbeInv
    <2>5. CASE ChooseMixed
      <3>1. refused' = 0 /\ restarted' = restarted /\ fault = "none"
        BY <2>5, Zenon DEF ChooseMixed, Ready
      <3>2. access_cnt < ProbeNum /\ access_cnt' = access_cnt + 1
        BY <2>5 DEF ChooseMixed
      <3>3. QED
        BY <3>1, <3>2, ConfigAssumption DEF ProbeInv
    <2>6. CASE Update \/ ReportHost \/ UNCHANGED vars
      <3>1. /\ access_cnt' = access_cnt /\ refused' = refused /\ restarted' = restarted
            /\ fault = "none" \/ fault' = fault
        BY <2>6, Zenon
        DEF Update, UpdateStart, UpdateInsert, UpdateCollect, UpdateDelete, UpdateEnd,
            ReportHost, ReportUnknown, ReportDangling, ReportCounted, Ready, vars, history
      <3>2. QED
        BY <3>1 DEF ProbeInv
    <2>7. QED
      BY <2>1, <2>2, <2>3, <2>4, <2>5, <2>6 DEF Next, ChoiceOneHost
  <1>3. ProbeInv => ProbeBound
    BY ConfigAssumption DEF ProbeInv, ProbeBound
  <1>4. QED
    BY <1>1, <1>2, <1>3, PTL DEF Spec

-----------------------------------------------------------------------------
(* What a report says *)

(* A report in out is one of the lists as they are now: every later step replaces it. *)
OutIsCurrent ==
    out.msg = "ReportStatusRequest" => out.results = Results(heap, idle_list, overload_list)

(* A sequence given entry by entry, and two that are put together. *)
LEMMA ListedSeq ==
  ASSUME NEW S, NEW n \in Nat, NEW f \in [1..n -> S]
  PROVE  f \in Seq(S) /\ Len(f) = n
  OBVIOUS

LEMMA JoinedSeq ==
  ASSUME NEW S, NEW s \in Seq(S), NEW t \in Seq(S)
  PROVE  /\ Len(s \o t) = Len(s) + Len(t)
         /\ \A i \in 1..Len(s) : (s \o t)[i] = s[i]
         /\ \A i \in 1..Len(t) : (s \o t)[Len(s) + i] = t[i]
  OBVIOUS

(* What commit puts together, entry by entry. *)
LEMMA ResultsEntries ==
  ASSUME NEW hp, NEW p \in Seq(Addrs), NEW q \in Seq(Addrs)
  PROVE  /\ Len(Results(hp, p, q)) = Len(p) + Len(q)
         /\ \A i \in 1..Len(p) : /\ Results(hp, p, q)[i].key = hp[p[i]].key
                                 /\ Results(hp, p, q)[i].overload = FALSE
         /\ \A i \in 1..Len(q) : /\ Results(hp, p, q)[Len(p) + i].key = hp[q[i]].key
                                 /\ Results(hp, p, q)[Len(p) + i].overload = TRUE
  <1>0. PICK m \in Nat, n \in Nat : m = Len(p) /\ n = Len(q)
    OBVIOUS
  <1> DEFINE res(a, flag) == [key |-> hp[a].key, succ |-> hp[a].rsucc, err |-> hp[a].rerr,
                              overload |-> flag]
             s == [i \in 1..m |-> res(p[i], FALSE)]
             t == [i \in 1..n |-> res(q[i], TRUE)]
             S == {res(p[i], FALSE) : i \in 1..m} \cup {res(q[i], TRUE) : i \in 1..n}
  <1>1. Results(hp, p, q) = s \o t
    BY <1>0 DEF Results
  <1>2. s \in [1..m -> S] /\ t \in [1..n -> S]
    OBVIOUS
  <1>3. /\ \A i \in 1..m : s[i].key = hp[p[i]].key /\ s[i].overload = FALSE
        /\ \A i \in 1..n : t[i].key = hp[q[i]].key /\ t[i].overload = TRUE
    OBVIOUS
  <1>4. PICK u, v : u = s /\ v = t
    OBVIOUS
  <1>5. PICK U : U = S
    OBVIOUS
  <1> HIDE DEF s, t, S
  <1>6. u \in Seq(U) /\ Len(u) = m /\ v \in Seq(U) /\ Len(v) = n
    <2>1. u \in [1..m -> U] /\ v \in [1..n -> U]
      BY <1>2, <1>4, <1>5
    <2>2. QED
      BY <2>1, ListedSeq
  <1>7. /\ Len(u \o v) = m + n
        /\ \A i \in 1..m : (u \o v)[i] = u[i]
        /\ \A i \in 1..n : (u \o v)[m + i] = v[i]
    <2>1. PICK c \in Seq(U), d \in Seq(U) : c = u /\ d = v
      BY <1>6
    <2>2. /\ Len(c \o d) = Len(c) + Len(d)
          /\ \A i \in 1..Len(c) : (c \o d)[i] = c[i]
          /\ \A i \in 1..Len(d) : (c \o d)[Len(c) + i] = d[i]
      BY JoinedSeq
    <2>3. QED
      BY <1>6, <2>1, <2>2, Zenon
  <1>8. PICK rs : rs = u \o v
    OBVIOUS
  <1>9. \A i \in 1..m : rs[i].key = hp[p[i]].key /\ rs[i].overload = FALSE
    <2> SUFFICES ASSUME NEW i \in 1..m
                 PROVE  rs[i].key = hp[p[i]].key /\ rs[i].overload = FALSE
      OBVIOUS
    <2>1. rs[i] = s[i]
      BY <1>4, <1>7, <1>8
    <2>2. QED
      BY <1>3, <2>1
  <1>10. \A i \in 1..n : rs[m + i].key = hp[q[i]].key /\ rs[m + i].overload = TRUE
    <2> SUFFICES ASSUME NEW i \in 1..n
                 PROVE  rs[m + i].key = hp[q[i]].key /\ rs[m + i].overload = TRUE
      OBVIOUS
    <2>1. rs[m + i] = t[i]
      BY <1>4, <1>7, <1>8
    <2>2. QED
      BY <1>3, <2>1
  <1>11. Results(hp, p, q) = rs /\ Len(rs) = m + n
    BY <1>1, <1>4, <1>7, <1>8
  <1>12. QED
    BY <1>0, <1>9, <1>10, <1>11

(***************************************************************************)
(* Every report lists each host that exists exactly once, with the list    *)
(* that it is in, for any number of hosts and after any removals.          *)
(***************************************************************************)
THEOREM ReportsListEveryHost == Spec => []ReportsAreComplete
  <1>1. Init => OutIsCurrent
    BY DEF Init, OutIsCurrent, Nothing
  <1>2. OutIsCurrent /\ [Next]_vars => OutIsCurrent'
    <2> SUFFICES ASSUME OutIsCurrent, [Next]_vars PROVE OutIsCurrent'
      OBVIOUS
    <2>1. CASE Commit
      BY <2>1 DEF Commit, OutIsCurrent, Nothing
    <2>2. CASE out'.msg # "ReportStatusRequest"
      BY <2>2 DEF OutIsCurrent
    <2>3. CASE UNCHANGED vars
      BY <2>3 DEF OutIsCurrent, vars, memory
    <2>4. \A ret, k : Response(ret, k).msg # "ReportStatusRequest"
      BY DEF Response
    <2>5. Nothing.msg # "ReportStatusRequest"
      BY DEF Nothing
    <2>6. Next => Commit \/ out' = Nothing \/ \E ret, k : out' = Response(ret, k)
      BY Zenon
      DEF Next, ChoiceOneHost, RefuseOverloaded, ProbeOverloaded, ChooseIdle,
          ChooseMixedProbe,
          ChooseMixed, Answer, Update, UpdateStart, UpdateInsert, UpdateCollect, UpdateDelete,
          UpdateEnd, ReportHost, ReportUnknown, ReportDangling, ReportCounted
    <2>7. QED
      BY <2>1, <2>2, <2>3, <2>4, <2>5, <2>6
  <1>3. IInv /\ OutIsCurrent => ReportsAreComplete
    <2> SUFFICES ASSUME IInv, OutIsCurrent, out.msg = "ReportStatusRequest"
                 PROVE  /\ \A i, j \in 1..Len(out.results) :
                             out.results[i].key = out.results[j].key => i = j
                        /\ \A p \in Live : \E i \in 1..Len(out.results) :
                             /\ out.results[i].key = heap[p].key
                             /\ out.results[i].overload = heap[p].overload
      BY DEF ReportsAreComplete
    <2>1. PICK rs : rs = out.results
      OBVIOUS
    <2>2. PICK p \in Seq(Addrs), q \in Seq(Addrs) :
            /\ p = idle_list /\ q = overload_list /\ NoDuplicates(p) /\ NoDuplicates(q)
            /\ ListHolds(p, FALSE) /\ ListHolds(q, TRUE)
      BY DEF IInv, TypeOK, ListsPartition
    <2>3. PICK m \in Nat, n \in Nat : m = Len(p) /\ n = Len(q)
      OBVIOUS
    <2>4. /\ Len(rs) = m + n
          /\ \A i \in 1..m : rs[i].key = heap[p[i]].key /\ rs[i].overload = FALSE
          /\ \A i \in 1..n : rs[m + i].key = heap[q[i]].key /\ rs[m + i].overload = TRUE
      <3>1. rs = Results(heap, p, q)
        BY <2>1, <2>2 DEF OutIsCurrent
      <3>2. PICK hp : hp = heap
        OBVIOUS
      <3>3. /\ Len(Results(hp, p, q)) = m + n
            /\ \A i \in 1..m : /\ Results(hp, p, q)[i].key = hp[p[i]].key
                               /\ Results(hp, p, q)[i].overload = FALSE
            /\ \A i \in 1..n : /\ Results(hp, p, q)[m + i].key = hp[q[i]].key
                               /\ Results(hp, p, q)[m + i].overload = TRUE
        <4>1. /\ Len(Results(hp, p, q)) = Len(p) + Len(q)
              /\ \A i \in 1..Len(p) : /\ Results(hp, p, q)[i].key = hp[p[i]].key
                                      /\ Results(hp, p, q)[i].overload = FALSE
              /\ \A i \in 1..Len(q) : /\ Results(hp, p, q)[Len(p) + i].key = hp[q[i]].key
                                      /\ Results(hp, p, q)[Len(p) + i].overload = TRUE
          BY ResultsEntries
        <4>2. QED
          BY <2>3, <4>1, Zenon
      <3>4. QED
        BY <3>1, <3>2, <3>3
    <2>5. /\ \A i \in 1..m : p[i] \in Live /\ heap[p[i]].overload = FALSE
          /\ \A i \in 1..n : q[i] \in Live /\ heap[q[i]].overload = TRUE
      BY <2>2, <2>3 DEF ListHolds, Elems
    <2>6. \A x, y \in Live : heap[x].key = heap[y].key => x = y
      BY DEF IInv, LiveAreMapped
    <2>7. ASSUME NEW i \in 1..m, NEW j \in 1..m, rs[i].key = rs[j].key PROVE i = j
      <3>1. p[i] = p[j]
        BY <2>4, <2>5, <2>6, <2>7
      <3>2. QED
        BY <2>2, <2>3, <3>1 DEF NoDuplicates
    <2>8. ASSUME NEW i \in 1..n, NEW j \in 1..n, rs[m + i].key = rs[m + j].key
          PROVE  i = j
      <3>1. heap[q[i]].key = heap[q[j]].key
        BY <2>4, <2>8, Zenon
      <3>2. q[i] = q[j]
        BY <2>5, <2>6, <3>1
      <3>3. QED
        BY <2>2, <2>3, <3>2 DEF NoDuplicates
    <2>9. ASSUME NEW i \in 1..m, NEW j \in 1..n PROVE rs[i].key # rs[m + j].key
      <3>1. rs[i].key = heap[p[i]].key /\ rs[m + j].key = heap[q[j]].key
        BY <2>4, Zenon
      <3>2. p[i] # q[j]
        BY <2>5
      <3>3. QED
        BY <2>5, <2>6, <3>1, <3>2
    <2>10. ASSUME NEW i \in 1..Len(rs), NEW j \in 1..Len(rs), rs[i].key = rs[j].key
           PROVE  i = j
      <3>1. \A k \in 1..(m + n) : k \in 1..m \/ \E l \in 1..n : k = m + l
        <4>1. \A k \in 1..(m + n) : k \in 1..m \/ (k - m \in 1..n /\ k = m + (k - m))
          OBVIOUS
        <4>2. QED
          BY <4>1, Zenon
      <3>2. i \in 1..(m + n) /\ j \in 1..(m + n)
        BY <2>4
      <3>3. CASE i \in 1..m
        BY <2>7, <2>9, <2>10, <3>1, <3>2, <3>3, Zenon
      <3>4. CASE \E k \in 1..n : i = m + k
        BY <2>8, <2>9, <2>10, <3>1, <3>2, <3>4, Zenon
      <3>5. QED
        BY <3>1, <3>2, <3>3, <3>4
    <2>11. ASSUME NEW x \in Live
           PROVE  \E i \in 1..Len(rs) :
                    rs[i].key = heap[x].key /\ rs[i].overload = heap[x].overload
      <3>1. heap[x].overload \in BOOLEAN
        BY LiveHost DEF Live, IInv, TypeOK
      <3>2. CASE heap[x].overload = FALSE
        <4>1. PICK i \in 1..m : p[i] = x
          BY <2>2, <2>3, <3>2 DEF ListHolds, Elems
        <4>2. i \in 1..Len(rs)
          BY <2>4
        <4>3. QED
          BY <2>4, <3>2, <4>1, <4>2, Zenon
      <3>3. CASE heap[x].overload = TRUE
        <4>1. PICK i \in 1..n : q[i] = x
          BY <2>2, <2>3, <3>3 DEF ListHolds, Elems
        <4>2. m + i \in 1..Len(rs)
          BY <2>4
        <4>3. rs[m + i].key = heap[x].key /\ rs[m + i].overload = heap[x].overload
          BY <2>4, <3>3, <4>1, Zenon
        <4>4. QED
          BY <4>2, <4>3
      <3>4. QED
        BY <3>1, <3>2, <3>3
    <2>12. QED
      BY <2>1, <2>10, <2>11
  <1>4. QED
    BY <1>1, <1>2, <1>3, ListsInvariant, PTL DEF Spec

-----------------------------------------------------------------------------
(* What update leaves alone *)

(* push_back does not change the order of the others. *)
LEMMA BeforeAppended ==
  ASSUME NEW l \in Seq(Addrs), NEW x \in Addrs, NEW p, NEW q, q # x
  PROVE  Before(l, p, q) <=> Before(Append(l, x), p, q)
  <1> DEFINE r == Append(l, x)
  <1>1. /\ Len(l) \in Nat /\ Len(r) = Len(l) + 1 /\ r[Len(l) + 1] = x
        /\ \A i \in 1..Len(l) : r[i] = l[i]
    OBVIOUS
  <1> HIDE DEF r
  <1>2. Before(l, p, q) => Before(r, p, q)
    BY <1>1 DEF Before
  <1>3. ASSUME NEW i \in 1..Len(r), NEW j \in 1..Len(r), i < j, r[i] = p, r[j] = q
        PROVE  Before(l, p, q)
    <2>1. i \in 1..Len(l) /\ j \in 1..Len(l)
      BY <1>1, <1>3
    <2>2. QED
      BY <1>1, <1>3, <2>1 DEF Before
  <1>4. QED
    BY <1>2, <1>3 DEF Before, r

(* Neither does list::remove. *)
LEMMA BeforeRemoved ==
  ASSUME NEW l \in Seq(Addrs), NEW x \in Addrs, NEW p, NEW q, p # x, q # x
  PROVE  Before(l, p, q) <=> Before(Without(l, x), p, q)
  <1>1. CASE ~\E i \in 1..Len(l) : l[i] = x
    BY <1>1 DEF Without
  <1>2. CASE \E i \in 1..Len(l) : l[i] = x
    <2> DEFINE n == Len(l)
               k == CHOOSE i \in 1..Len(l) : l[i] = x
               r == [j \in 1..(n - 1) |-> IF j < k THEN l[j] ELSE l[j + 1]]
    <2>1. k \in 1..n /\ l[k] = x /\ n \in Nat \ {0}
      BY <1>2
    <2>2. Without(l, x) = r
      BY <1>2 DEF Without
    <2> HIDE DEF k
    <2>3. /\ Len(r) = n - 1
          /\ \A j \in 1..(n - 1) : r[j] = IF j < k THEN l[j] ELSE l[j + 1]
      <3>1. n - 1 \in Nat /\ DOMAIN r = 1..(n - 1)
        BY <2>1
      <3>2. \A j \in 1..(n - 1) : r[j] = IF j < k THEN l[j] ELSE l[j + 1]
        OBVIOUS
      <3> HIDE DEF r
      <3>3. r \in Seq(Addrs) /\ Len(r) = n - 1
        <4>1. \A j \in 1..(n - 1) : r[j] \in Addrs
          BY <2>1, <3>2
        <4>2. r \in [1..(n - 1) -> Addrs]
          <5>1. r = [j \in 1..(n - 1) |-> r[j]]
            BY DEF r
          <5>2. QED
            BY <4>1, <5>1
        <4>3. QED
          BY <3>1, <4>2
      <3>4. QED
        BY <3>2, <3>3
    <2> HIDE DEF r
    <2>4. ASSUME NEW i \in 1..n, NEW j \in 1..n, i < j, l[i] = p, l[j] = q
          PROVE  Before(r, p, q)
      <3>1. i # k /\ j # k
        BY <2>1, <2>4
      <3>2. PICK a \in 1..(n - 1) : r[a] = p /\ a = IF i < k THEN i ELSE i - 1
        <4>1. CASE i < k
          <5>1. i \in 1..(n - 1)
            BY <2>1, <4>1
          <5>2. QED
            BY <2>3, <2>4, <4>1, <5>1
        <4>2. CASE ~(i < k)
          <5>1. i - 1 \in 1..(n - 1) /\ ~(i - 1 < k) /\ (i - 1) + 1 = i
            BY <2>1, <3>1, <4>2
          <5>2. QED
            BY <2>3, <2>4, <4>2, <5>1
        <4>3. QED
          BY <4>1, <4>2
      <3>3. PICK b \in 1..(n - 1) : r[b] = q /\ b = IF j < k THEN j ELSE j - 1
        <4>1. CASE j < k
          <5>1. j \in 1..(n - 1)
            BY <2>1, <4>1
          <5>2. QED
            BY <2>3, <2>4, <4>1, <5>1
        <4>2. CASE ~(j < k)
          <5>1. j - 1 \in 1..(n - 1) /\ ~(j - 1 < k) /\ (j - 1) + 1 = j
            BY <2>1, <3>1, <4>2
          <5>2. QED
            BY <2>3, <2>4, <4>2, <5>1
        <4>3. QED
          BY <4>1, <4>2
      <3>4. a < b
        BY <2>1, <2>4, <3>1, <3>2, <3>3
      <3>5. QED
        BY <2>3, <3>2, <3>3, <3>4 DEF Before
    <2>5. ASSUME NEW i \in 1..(n - 1), NEW j \in 1..(n - 1), i < j, r[i] = p, r[j] = q
          PROVE  Before(l, p, q)
      <3>1. PICK a \in 1..n : l[a] = p /\ a = IF i < k THEN i ELSE i + 1
        BY <2>1, <2>3, <2>5
      <3>2. PICK b \in 1..n : l[b] = q /\ b = IF j < k THEN j ELSE j + 1
        BY <2>1, <2>3, <2>5
      <3>3. a < b
        BY <2>1, <2>5, <3>1, <3>2
      <3>4. QED
        BY <3>1, <3>2, <3>3 DEF Before
    <2>6. QED
      BY <2>2, <2>3, <2>4, <2>5 DEF Before
  <1>3. QED
    BY <1>1, <1>2

(* The keys in need_delete are those the response lacks. *)
NeedDelete == upd.at = "delete" => upd.todo \cap upd.remote = {}

LEMMA NeedDeleteHolds == Spec => []NeedDelete
  <1>1. Init => NeedDelete
    BY DEF Init, Idle, NeedDelete
  <1>2. IInv /\ NeedDelete /\ [Next]_vars => NeedDelete'
    <2> SUFFICES ASSUME IInv, NeedDelete, [Next]_vars PROVE NeedDelete'
      OBVIOUS
    <2>0. upd \in [at : {"idle", "insert", "delete"}, remote : SUBSET Keys, todo : SUBSET Keys]
      BY DEF IInv, TypeOK
    <2>1. CASE upd' = upd
      BY <2>1 DEF NeedDelete
    <2>2. ASSUME NEW hosts \in SUBSET Keys, UpdateStart(hosts) PROVE NeedDelete'
      BY <2>2 DEF UpdateStart, NeedDelete
    <2>3. ASSUME NEW k \in Keys, NEW p \in Addrs, UpdateInsert(k, p) PROVE NeedDelete'
      BY <2>0, <2>3 DEF UpdateInsert, NeedDelete
    <2>4. CASE UpdateCollect
      BY <2>0, <2>4 DEF UpdateCollect, NeedDelete
    <2>5. ASSUME NEW k \in Keys, UpdateDelete(k) PROVE NeedDelete'
      <3>1. upd' = [upd EXCEPT !.todo = @ \ {k}]
        BY <2>5 DEF UpdateDelete
      <3>2. QED
        BY <2>0, <3>1 DEF NeedDelete
    <2>6. CASE UpdateEnd
      BY <2>6 DEF UpdateEnd, Idle, NeedDelete
    <2>7. QED
      BY <2>1, <2>2, <2>3, <2>4, <2>5, <2>6, Zenon
      DEF Next, ChoiceOneHost, RefuseOverloaded, ProbeOverloaded, ChooseIdle,
          ChooseMixedProbe, ChooseMixed, Update, ReportHost, ReportUnknown,
          ReportDangling, ReportCounted, vars
  <1>3. QED
    BY <1>1, <1>2, ListsInvariant, PTL DEF Spec

(***************************************************************************)
(* No iteration of update() deletes a host that is in the route before and *)
(* after, or changes its statistics, its list or its place, whichever      *)
(* hosts come and go around it: the key of such a host is not in           *)
(* need_delete, so its object goes only if another key, which is there,    *)
(* has its address.                                                        *)
(***************************************************************************)
THEOREM SurvivorsAreKept == Spec => UpdateKeepsSurvivors
  <1> DEFINE A == upd.at # "idle" =>
                    \A p, q \in Live :
                      (heap[p].key \in upd.remote /\ heap[q].key \in upd.remote)
                        => \/ Mistaken(p) \/ Mistaken(q)
                           \/ /\ heap'[p] = heap[p]
                              /\ Before(idle_list, p, q) <=> Before(idle_list', p, q)
                              /\ Before(overload_list, p, q) <=> Before(overload_list', p, q)
  <1>1. ASSUME IInv, NeedDelete, [Next]_vars
        PROVE  A
    <2> SUFFICES ASSUME upd.at # "idle", NEW p \in Live, NEW q \in Live,
                        heap[p].key \in upd.remote, heap[q].key \in upd.remote,
                        ~Mistaken(p), ~Mistaken(q)
                 PROVE  /\ heap'[p] = heap[p]
                        /\ Before(idle_list, p, q) <=> Before(idle_list', p, q)
                        /\ Before(overload_list, p, q) <=> Before(overload_list', p, q)
      OBVIOUS
    <2>1. /\ heap \in [Addrs -> HostInfo \cup {Freed}]
          /\ idle_list \in Seq(Addrs) /\ overload_list \in Seq(Addrs)
          /\ p \in Addrs /\ q \in Addrs /\ heap[p] # Freed /\ heap[q] # Freed
      BY <1>1 DEF IInv, TypeOK, Live
    <2>2. CASE heap' = heap /\ idle_list' = idle_list /\ overload_list' = overload_list
      BY <2>2
    <2>3. CASE \E k \in Keys, x \in Addrs : UpdateInsert(k, x)
      <3>1. PICK k \in Keys, x \in Addrs : UpdateInsert(k, x)
        BY <2>3
      <3>2. /\ heap[x] = Freed /\ heap' = [heap EXCEPT ![x] = NewHost(k)]
            /\ idle_list' = Append(idle_list, x) /\ overload_list' = overload_list
        BY <3>1 DEF UpdateInsert, IsLive
      <3>3. p # x /\ q # x
        BY <2>1, <3>2
      <3>4. heap'[p] = heap[p]
        BY <2>1, <3>2, <3>3
      <3>5. Before(idle_list, p, q) <=> Before(Append(idle_list, x), p, q)
        BY <2>1, <3>3, BeforeAppended
      <3>6. QED
        BY <3>2, <3>4, <3>5
    <2>4. CASE \E k \in Keys : UpdateDelete(k)
      <3>1. PICK k \in Keys : UpdateDelete(k)
        BY <2>4
      <3>2. CASE heap' = heap /\ idle_list' = idle_list /\ overload_list' = overload_list
        BY <3>2
      <3>3. PICK x : x = host_map[k]
        OBVIOUS
      <3>4. CASE /\ IsLive(x) /\ heap' = [heap EXCEPT ![x] = Freed]
                 /\ idle_list' \in {idle_list, Without(idle_list, x)}
                 /\ overload_list' \in {overload_list, Without(overload_list, x)}
        <4>1. x \in Addrs
          BY <3>4 DEF IsLive
        <4>2. k \in upd.todo \ upd'.todo /\ k \notin upd.remote
          <5>1. /\ upd.at = "delete" /\ k \in upd.todo
                /\ upd' = [upd EXCEPT !.todo = @ \ {k}]
            BY <3>1 DEF UpdateDelete
          <5>2. upd \in [at : {"idle", "insert", "delete"}, remote : SUBSET Keys, todo : SUBSET Keys]
            BY <1>1 DEF IInv, TypeOK
          <5>3. QED
            BY <1>1, <5>1, <5>2 DEF NeedDelete
        <4>3. p # x /\ q # x
          BY <3>3, <4>2 DEF Mistaken
        <4>4. heap'[p] = heap[p]
          BY <2>1, <3>4, <4>3
        <4>5. /\ Before(idle_list, p, q) <=> Before(Without(idle_list, x), p, q)
              /\ Before(overload_list, p, q) <=> Before(Without(overload_list, x), p, q)
          BY <2>1, <4>1, <4>3, BeforeRemoved
        <4>6. QED
          BY <3>4, <4>4, <4>5
      <3>5. QED
        BY <3>1, <3>2, <3>3, <3>4 DEF UpdateDelete
    <2>5. QED
      BY <1>1, <2>2, <2>3, <2>4, Zenon
      DEF Next, ChoiceOneHost, RefuseOverloaded, ProbeOverloaded, ChooseIdle,
          ChooseMixedProbe,
          ChooseMixed, Update, UpdateStart, UpdateCollect, UpdateEnd, ReportHost, ReportUnknown,
          ReportDangling, ReportCounted, Ready, memory, vars
  <1>2. IInv /\ NeedDelete /\ [Next]_vars => [A]_vars
    BY <1>1
  <1>3. QED
    BY <1>2, ListsInvariant, NeedDeleteHolds, PTL DEF Spec, UpdateKeepsSurvivors

-----------------------------------------------------------------------------
(* The rates *)

(* The counters of h have not wrapped: they add up to what h started with    *)
(* and the calls since.                                                      *)
Unwrapped(h) ==
    /\ h.rsucc + h.rerr <= MaxReports
    /\ h.vsucc + h.verr <= (IF h.overload THEN InitErr ELSE InitSucc) + (h.rsucc + h.rerr)

(* h is not above the rate that would move it to the other list. *)
RateWithin(h) ==
    IF h.overload THEN h.vsucc * SuccDen <= SuccNum * (h.vsucc + h.verr)
                  ELSE h.verr * ErrDen <= ErrNum * (h.vsucc + h.verr)

(* A host that begins in a list has none of the calls that count against it. *)
LEMMA FreshRates ==
  ASSUME NEW h, NEW k
  PROVE  /\ Unwrapped(NewHost(k)) /\ RateWithin(NewHost(k))
         /\ Unwrapped(SetIdle(h)) /\ RateWithin(SetIdle(h))
         /\ Unwrapped(SetOverload(h)) /\ RateWithin(SetOverload(h))
  <1>1. /\ InitSucc \in Nat /\ InitErr \in Nat /\ MaxReports \in Nat
        /\ ErrNum \in Nat /\ ErrDen \in Nat /\ SuccNum \in Nat /\ SuccDen \in Nat
    BY ConfigAssumption
  <1>2. \A x, y \in Nat : x * y \in Nat /\ 0 * x = 0
    OBVIOUS
  <1>3. 0 * ErrDen <= ErrNum * (InitSucc + 0) /\ 0 * SuccDen <= SuccNum * (0 + InitErr)
    BY <1>1, <1>2
  <1>4. QED
    BY <1>1, <1>3 DEF Unwrapped, RateWithin, NewHost, SetIdle, SetOverload

(* One more call, while the counters are far from their end. *)
LEMMA CountRates ==
  ASSUME InitSucc + MaxReports < CntMod, InitErr + MaxReports < CntMod,
         NEW g \in HostInfo, NEW ok \in BOOLEAN, Unwrapped(g), RateWithin(g), Countable(g),
         ~(~g.overload /\ ~ok /\ Overloads(Count(g, ok))),
         ~(g.overload /\ ok /\ Recovers(Count(g, ok)))
  PROVE  Unwrapped(Count(g, ok)) /\ RateWithin(Count(g, ok))
  <1>1. /\ InitSucc \in Nat /\ InitErr \in Nat /\ MaxReports \in Nat /\ CntMod \in Nat \ {0}
        /\ ErrNum \in Nat /\ ErrDen \in Nat /\ SuccNum \in Nat /\ SuccDen \in Nat
    BY ConfigAssumption
  <1>2. /\ g.vsucc \in Nat /\ g.verr \in Nat /\ g.rsucc \in Nat /\ g.rerr \in Nat
        /\ g.overload \in BOOLEAN
    BY <1>1 DEF HostInfo, Counter
  <1>3. PICK s \in Nat, e \in Nat : s = g.vsucc /\ e = g.verr
    BY <1>2
  <1>4. PICK c \in Nat : c = g.rsucc + g.rerr /\ c < MaxReports
    BY <1>2 DEF Countable
  <1>5. PICK b \in Nat : /\ b = IF g.overload THEN InitErr ELSE InitSucc
                         /\ b + MaxReports < CntMod /\ s + e <= b + c
    BY <1>1, <1>3, <1>4 DEF Unwrapped
  <1>6. (s + e) + 1 < CntMod
    BY <1>1, <1>4, <1>5
  <1>7. \A n \in Nat : n + 1 < CntMod => Inc(n) = n + 1
    BY <1>1 DEF Inc
  <1>8. Inc(s) = s + 1 /\ Inc(e) = e + 1
    BY <1>1, <1>6, <1>7
  <1>9. Inc(g.rsucc) = g.rsucc + 1 /\ Inc(g.rerr) = g.rerr + 1
    BY <1>1, <1>2, <1>4, <1>5, <1>7
  <1>10. PICK h : h = Count(g, ok)
    OBVIOUS
  <1>11. CASE ok
    <2>1. /\ h.vsucc = s + 1 /\ h.verr = e /\ h.overload = g.overload
          /\ h.rsucc = g.rsucc + 1 /\ h.rerr = g.rerr
      BY <1>3, <1>8, <1>9, <1>10, <1>11 DEF Count, HostInfo
    <2>2. Unwrapped(h)
      BY <1>1, <1>2, <1>3, <1>4, <1>5, <2>1 DEF Unwrapped
    <2>3. CASE g.overload
      <3>1. ~(h.vsucc * SuccDen > SuccNum * Total(h))
        BY <1>10, <1>11, <2>3 DEF Recovers
      <3>2. Total(h) = (s + 1) + e
        BY <1>1, <1>6, <2>1 DEF Total
      <3>3. (s + 1) * SuccDen <= SuccNum * ((s + 1) + e)
        BY <1>1, <2>1, <3>1, <3>2
      <3>4. QED
        BY <1>10, <2>1, <2>2, <2>3, <3>3 DEF RateWithin
    <2>4. CASE ~g.overload
      <3>1. e * ErrDen <= ErrNum * (s + e)
        BY <1>3, <2>4 DEF RateWithin
      <3>2. ErrNum * ((s + 1) + e) = ErrNum * (s + e) + ErrNum
        BY <1>1
      <3>3. e * ErrDen \in Nat /\ ErrNum * (s + e) \in Nat
        BY <1>1
      <3>4. e * ErrDen <= ErrNum * ((s + 1) + e)
        BY <1>1, <3>1, <3>2, <3>3
      <3>5. QED
        BY <1>10, <2>1, <2>2, <2>4, <3>4 DEF RateWithin
    <2>5. QED
      BY <2>3, <2>4
  <1>12. CASE ~ok
    <2>1. /\ h.vsucc = s /\ h.verr = e + 1 /\ h.overload = g.overload
          /\ h.rsucc = g.rsucc /\ h.rerr = g.rerr + 1
      BY <1>3, <1>8, <1>9, <1>10, <1>12 DEF Count, HostInfo
    <2>2. Unwrapped(h)
      BY <1>1, <1>2, <1>3, <1>4, <1>5, <2>1 DEF Unwrapped
    <2>3. CASE ~g.overload
      <3>1. ~(h.verr * ErrDen > ErrNum * Total(h))
        BY <1>10, <1>12, <2>3 DEF Overloads
      <3>2. Total(h) = s + (e + 1)
        BY <1>1, <1>6, <2>1 DEF Total
      <3>3. (e + 1) * ErrDen <= ErrNum * (s + (e + 1))
        BY <1>1, <2>1, <3>1, <3>2
      <3>4. QED
        BY <1>10, <2>1, <2>2, <2>3, <3>3 DEF RateWithin
    <2>4. CASE g.overload
      <3>1. s * SuccDen <= SuccNum * (s + e)
        BY <1>3, <2>4 DEF RateWithin
      <3>2. SuccNum * (s + (e + 1)) = SuccNum * (s + e) + SuccNum
        BY <1>1
      <3>3. s * SuccDen \in Nat /\ SuccNum * (s + e) \in Nat
        BY <1>1
      <3>4. s * SuccDen <= SuccNum * (s + (e + 1))
        BY <1>1, <3>1, <3>2, <3>3
      <3>5. QED
        BY <1>10, <2>1, <2>2, <2>4, <3>4 DEF RateWithin
    <2>5. QED
      BY <2>3, <2>4
  <1>13. QED
    BY <1>11, <1>12

(* Every host is within its rate, and its counters have not wrapped. *)
RatesInv == \A p \in Live : Unwrapped(heap[p]) /\ RateWithin(heap[p])

(***************************************************************************)
(* As long as the counters of a host cannot wrap between two resets, an    *)
(* idle host is not above the error rate and an overloaded one not above   *)
(* the success rate, although report tests each rate only on one outcome:  *)
(* the other outcome cannot raise it.                                      *)
(***************************************************************************)
THEOREM RatesAreRespected ==
  ASSUME InitSucc + MaxReports < CntMod, InitErr + MaxReports < CntMod
  PROVE  Spec => []RatesRespected
  <1>1. Init => RatesInv
    BY DEF Init, RatesInv, Live
  <1>2. IInv /\ RatesInv /\ [Next]_vars => RatesInv'
    <2> SUFFICES ASSUME IInv, RatesInv, [Next]_vars PROVE RatesInv'
      OBVIOUS
    <2>0. heap \in [Addrs -> HostInfo \cup {Freed}]
      BY DEF IInv, TypeOK
    <2>1. CASE heap' = heap
      BY <2>1 DEF RatesInv, Live
    <2>2. ASSUME NEW k \in Keys, NEW p \in Addrs, UpdateInsert(k, p) PROVE RatesInv'
      <3>1. heap' = [heap EXCEPT ![p] = NewHost(k)]
        BY <2>2 DEF UpdateInsert
      <3>2. heap'[p] = NewHost(k) /\ \A q \in Addrs : q # p => heap'[q] = heap[q]
        BY <2>0, <3>1
      <3>3. QED
        BY <3>2, FreshRates, Zenon DEF RatesInv, Live
    <2>3. ASSUME NEW k \in Keys, UpdateDelete(k) PROVE RatesInv'
      <3>1. heap' = heap \/ heap' = [heap EXCEPT ![host_map[k]] = Freed]
        BY <2>3, Zenon DEF UpdateDelete
      <3>2. ASSUME NEW q \in Addrs, heap'[q] # Freed PROVE heap'[q] = heap[q]
        BY <2>0, <3>1, <3>2
      <3>3. QED
        BY <3>2 DEF RatesInv, Live
    <2>4. ASSUME NEW k \in Keys, NEW ok \in BOOLEAN, ReportCounted(k, ok)
          PROVE  RatesInv'
      <3> DEFINE p == host_map[k]
                 h == Count(heap[p], ok)
      <3>1. /\ p \in Addrs /\ heap[p] # Freed /\ heap[p] \in HostInfo /\ Countable(heap[p])
            /\ Unwrapped(heap[p]) /\ RateWithin(heap[p])
        BY <2>0, <2>4 DEF ReportCounted, IsLive, RatesInv, Live
      <3>2. h.overload = heap[p].overload
        BY <3>1, CountIsHost
      <3>3. PICK g : heap' = [heap EXCEPT ![p] = g] /\ Unwrapped(g) /\ RateWithin(g)
        <4>1. CASE heap' = [heap EXCEPT ![p] = SetOverload(h)]
          BY <4>1, FreshRates, Zenon
        <4>2. CASE heap' = [heap EXCEPT ![p] = SetIdle(h)]
          BY <4>2, FreshRates, Zenon
        <4>3. CASE /\ ~(~h.overload /\ ~ok /\ Overloads(h))
                   /\ ~(h.overload /\ ok /\ Recovers(h))
                   /\ heap' = [heap EXCEPT ![p] = h]
          <5>1. Unwrapped(h) /\ RateWithin(h)
            BY <3>1, <3>2, <4>3, CountRates, Zenon
          <5>2. QED
            BY <4>3, <5>1, Zenon
        <4>4. QED
          BY <2>4, <4>1, <4>2, <4>3, Zenon DEF ReportCounted
      <3>4. heap'[p] = g /\ \A q \in Addrs : q # p => heap'[q] = heap[q]
        BY <2>0, <3>1, <3>3
      <3>5. QED
        BY <3>3, <3>4, Zenon DEF RatesInv, Live
    <2>5. QED
      BY <2>1, <2>2, <2>3, <2>4, Zenon
      DEF Next, ChoiceOneHost, RefuseOverloaded, ProbeOverloaded, ChooseIdle,
          ChooseMixedProbe,
          ChooseMixed, Update, UpdateStart, UpdateCollect, UpdateEnd, ReportHost, ReportUnknown,
          ReportDangling, memory, vars
  <1>3. RatesInv => RatesRespected
    BY DEF RatesInv, RateWithin, RatesRespected
  <1>4. QED
    BY <1>1, <1>2, <1>3, ListsInvariant, PTL DEF Spec
=============================================================================
