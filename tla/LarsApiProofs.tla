--------------------------- MODULE LarsApiProofs ----------------------------
(***************************************************************************)
(* Proofs about LarsApi, for any number of clients and calls, any lost     *)
(* datagrams and any bodies.                                               *)
(*                                                                         *)
(* The answers in a socket are those of its own client (OwnAnswers): the   *)
(* server sets _cli_addr for every datagram before it answers it.  A       *)
(* request carries the number of its call modulo 2^32 (Numbered), and an   *)
(* intact answer the same number, so that one with the seq of the current  *)
(* call belongs to it, or is a whole round older (SameRemainder).          *)
(***************************************************************************)
EXTENDS LarsApi, SequenceTheorems, FiniteSetTheorems, TLAPS

(* A datagram to a server. *)
Datagram == [kind : {"get", "report"}, cli : Clients, mod : Mods, call : Nat,
             seq : 0 .. SeqMod - 1]

(* A datagram to a client, with the call that it answers. *)
Answer == [ok : BOOLEAN, seq : 0 .. SeqMod - 1, mod : Mods, ret : Retcodes,
           asker : Clients, call : Nat, intact : BOOLEAN]

(* Every variable, sequences included. *)
Types ==
    /\ calls \in [Clients -> Nat]
    /\ api \in [Clients -> [at : {"idle", "recv"}, mod : Mods \cup {0}]]
    /\ result \in [Clients -> [ret : Retcodes \cup {"none", "RET_SYSTEM_ERROR"},
                               asker : Clients \cup {"nobody"}, call : Nat,
                               intact : BOOLEAN]]
    /\ inq \in [Servers -> Seq(Datagram)]
    /\ cli \in [Servers -> Clients \cup {"nobody"}]
    /\ ans \in [Clients -> [Servers -> Seq(Answer)]]
    /\ counted \in [Servers -> Nat]
    /\ reports \in [Servers -> Nat]

(* A request carries the number of its call. *)
NumberedReq(q) ==
    q.kind = "get" => q.call \in 1..calls[q.cli] /\ q.seq = (q.call - 1) % SeqMod

Numbered == \A s \in Servers : \A i \in 1..Len(inq[s]) : NumberedReq(inq[s][i])

(* An answer to c answers one of its calls, and carries its number if intact. *)
OwnAnswer(c, d) ==
    /\ d.asker = c /\ d.call \in 1..calls[c]
    /\ d.intact => d.seq = (d.call - 1) % SeqMod

OwnAnswers ==
    \A c \in Clients, s \in Servers : \A i \in 1..Len(ans[c][s]) : OwnAnswer(c, ans[c][s][i])

(* The reports that wait in q. *)
Waiting(q) == {i \in 1..Len(q) : q[i].kind = "report"}

(* No report is counted twice. *)
Reported == \A s \in Servers : counted[s] + Cardinality(Waiting(inq[s])) <= reports[s]

IInv == Types /\ Numbered /\ OwnAnswers /\ Reported /\ OwnAnswerIfIntact

-----------------------------------------------------------------------------
(* Sequences, and remainders. *)

(* The entries of a queue, and after one is added. *)
LEMMA Entries ==
  ASSUME NEW S, NEW q \in Seq(S)
  PROVE  /\ Len(q) \in Nat /\ \A i \in 1..Len(q) : q[i] \in S
         /\ \A x \in S :
              /\ Append(q, x) \in Seq(S) /\ Len(Append(q, x)) = Len(q) + 1
              /\ Append(q, x)[Len(q) + 1] = x
              /\ \A i \in 1..Len(q) : Append(q, x)[i] = q[i]
  OBVIOUS

(* The first entry of a queue, and what remains without it. *)
LEMMA FirstTaken ==
  ASSUME NEW S, NEW q \in Seq(S), q # << >>
  PROVE  /\ Len(q) \in Nat /\ Len(q) >= 1 /\ Len(Tail(q)) = Len(q) - 1
         /\ Head(q) = q[1] /\ Head(q) \in S /\ Tail(q) \in Seq(S)
         /\ \A i \in 1..(Len(q) - 1) : Tail(q)[i] = q[i + 1]
  OBVIOUS

(* What waits in a queue is finitely much. *)
LEMMA WaitingFinite ==
  ASSUME NEW q \in Seq(Datagram)
  PROVE  IsFiniteSet(Waiting(q)) /\ Cardinality(Waiting(q)) \in Nat
  <1>1. IsFiniteSet(1..Len(q))
    BY FS_Interval
  <1>2. Waiting(q) \in SUBSET (1..Len(q))
    BY DEF Waiting
  <1>3. QED
    BY <1>1, <1>2, FS_Subset, FS_CardinalityType

(* A datagram at the end is counted if it is a report. *)
LEMMA WaitingAppend ==
  ASSUME NEW q \in Seq(Datagram), NEW x \in Datagram
  PROVE  Cardinality(Waiting(Append(q, x)))
           = Cardinality(Waiting(q)) + IF x.kind = "report" THEN 1 ELSE 0
  <1>1. /\ Len(q) \in Nat /\ Len(Append(q, x)) = Len(q) + 1
        /\ Append(q, x)[Len(q) + 1] = x
        /\ \A i \in 1..Len(q) : Append(q, x)[i] = q[i]
    BY Entries
  <1>2. Len(q) + 1 \notin Waiting(q)
    BY <1>1 DEF Waiting
  <1>3. CASE x.kind = "report"
    <2>1. Waiting(Append(q, x)) = Waiting(q) \cup {Len(q) + 1}
      BY <1>1, <1>3 DEF Waiting
    <2>2. QED
      BY <1>2, <1>3, <2>1, WaitingFinite, FS_AddElement
  <1>4. CASE x.kind # "report"
    <2>1. Waiting(Append(q, x)) = Waiting(q)
      BY <1>1, <1>4 DEF Waiting
    <2>2. QED
      BY <1>4, <2>1, WaitingFinite
  <1>5. QED
    BY <1>3, <1>4

(* A report that is taken waits no more. *)
LEMMA WaitingTail ==
  ASSUME NEW q \in Seq(Datagram), q # << >>
  PROVE  Cardinality(Waiting(Tail(q))) + (IF Head(q).kind = "report" THEN 1 ELSE 0)
           <= Cardinality(Waiting(q))
  <1>1. /\ Len(q) \in Nat /\ Len(q) >= 1 /\ Len(Tail(q)) = Len(q) - 1
        /\ Head(q) = q[1] /\ Tail(q) \in Seq(Datagram)
        /\ \A i \in 1..(Len(q) - 1) : Tail(q)[i] = q[i + 1]
    BY FirstTaken
  <1> DEFINE S == Waiting(q) \ {1}
             T == Waiting(Tail(q))
             f == [i \in T |-> i + 1]
  <1>2. IsFiniteSet(S)
    BY WaitingFinite, FS_RemoveElement
  <1>3. Cardinality(S) = IF 1 \in Waiting(q) THEN Cardinality(Waiting(q)) - 1
                                             ELSE Cardinality(Waiting(q))
    BY WaitingFinite, FS_RemoveElement
  <1>4. 1 \in Waiting(q) <=> Head(q).kind = "report"
    BY <1>1 DEF Waiting
  <1>5. f \in Injection(T, S)
    <2>1. \A i \in T : i + 1 \in S /\ i \in Nat
      BY <1>1 DEF Waiting
    <2>2. f \in [T -> S]
      BY <2>1
    <2>3. \A a, b \in T : f[a] = f[b] => a = b
      BY <2>1
    <2> HIDE DEF f, T, S
    <2>4. QED
      BY <2>2, <2>3 DEF Injection, IsInjective
  <1>6. Cardinality(T) <= Cardinality(S)
    <2> HIDE DEF f, T, S
    <2>1. QED
      BY <1>2, <1>5, FS_Injection
  <1>7. Cardinality(T) \in Nat /\ Cardinality(Waiting(q)) \in Nat
    BY <1>1, WaitingFinite
  <1> HIDE DEF S, T
  <1>8. Cardinality(T) + (IF Head(q).kind = "report" THEN 1 ELSE 0) <= Cardinality(Waiting(q))
    BY <1>3, <1>4, <1>6, <1>7
  <1>9. QED
    BY <1>8 DEF T

(* Numbers with the same remainder are equal or a round apart. *)
LEMMA SameRemainder ==
  ASSUME NEW M \in Nat \ {0}, NEW a \in Nat, NEW b \in Nat, a <= b, a % M = b % M
  PROVE  a = b \/ a <= b - M
  <1>1. /\ a = M * (a \div M) + (a % M) /\ b = M * (b \div M) + (b % M)
        /\ a \div M \in Int /\ b \div M \in Int
    OBVIOUS
  <1>2. PICK x \in Int, y \in Int : a = M * x + (a % M) /\ b = M * y + (a % M)
    BY <1>1
  <1>3. PICK k \in Int : k = y - x
    BY <1>2
  <1>4. M * k = M * y - M * x
    BY <1>3
  <1>5. k <= 0 => M * k <= 0
    OBVIOUS
  <1>6. k >= 1 => M * k >= M
    OBVIOUS
  <1>7. b - a = M * k
    <2>1. a % M \in Int /\ M * x \in Int /\ M * y \in Int
      OBVIOUS
    <2>2. QED
      BY <1>2, <1>4, <2>1
  <1>8. QED
    BY <1>5, <1>6, <1>7

-----------------------------------------------------------------------------
(* What the steps have in common. *)

(* A hash is the number of a server. *)
LEMMA IndexIsServer == \A m \in Mods \cup {0} : Index(m) \in Servers
  <1>1. \A m \in Nat : m % 3 \in 0..2
    OBVIOUS
  <1>2. QED
    BY <1>1, LarsApiConstants DEF Index, Servers

(* What is numbered stays so as calls are made. *)
LEMMA NumbersStay ==
  ASSUME Types, \A c \in Clients : calls'[c] \in Nat /\ calls[c] <= calls'[c]
  PROVE  /\ \A q \in Datagram : NumberedReq(q) => NumberedReq(q)'
         /\ \A c \in Clients, d \in Answer : OwnAnswer(c, d) => OwnAnswer(c, d)'
  <1>1. ASSUME NEW q \in Datagram, NumberedReq(q) PROVE NumberedReq(q)'
    <2>1. q.cli \in Clients
      BY DEF Datagram
    <2>2. calls[q.cli] \in Nat /\ calls'[q.cli] \in Nat /\ calls[q.cli] <= calls'[q.cli]
      BY <2>1 DEF Types
    <2>3. QED
      BY <1>1, <2>2 DEF NumberedReq
  <1>2. ASSUME NEW c \in Clients, NEW d \in Answer, OwnAnswer(c, d)
        PROVE  OwnAnswer(c, d)'
    <2>1. calls[c] \in Nat /\ calls'[c] \in Nat /\ calls[c] <= calls'[c]
      BY DEF Types
    <2>2. QED
      BY <1>2, <2>1 DEF OwnAnswer
  <1>3. QED
    BY <1>1, <1>2

(* Calls are made and the datagrams stay. *)
LEMMA SameDatagrams ==
  ASSUME Types, \A c \in Clients : calls'[c] \in Nat /\ calls[c] <= calls'[c]
  PROVE  /\ Numbered /\ inq' = inq => Numbered'
         /\ OwnAnswers /\ ans' = ans => OwnAnswers'
  <1>1. \A s \in Servers : \A i \in 1..Len(inq[s]) : inq[s][i] \in Datagram
    BY Entries DEF Types
  <1>2. \A c \in Clients, s \in Servers : \A i \in 1..Len(ans[c][s]) : ans[c][s][i] \in Answer
    BY Entries DEF Types
  <1>3. Numbered /\ inq' = inq => Numbered'
    BY <1>1, NumbersStay DEF Numbered
  <1>4. OwnAnswers /\ ans' = ans => OwnAnswers'
    BY <1>2, NumbersStay DEF OwnAnswers
  <1>5. QED
    BY <1>3, <1>4

(* A datagram is sent to server s. *)
LEMMA Sent ==
  ASSUME Types, Numbered, NEW s \in Servers, NEW x \in Datagram, NumberedReq(x)',
         \A c \in Clients : calls'[c] \in Nat /\ calls[c] <= calls'[c],
         inq' = [inq EXCEPT ![s] = Append(@, x)]
  PROVE  /\ inq' \in [Servers -> Seq(Datagram)] /\ Numbered'
         /\ Cardinality(Waiting(inq'[s]))
              = Cardinality(Waiting(inq[s])) + IF x.kind = "report" THEN 1 ELSE 0
         /\ \A t \in Servers : t # s => inq'[t] = inq[t]
  <1>1. inq[s] \in Seq(Datagram) /\ inq'[s] = Append(inq[s], x)
    BY DEF Types
  <1>2. \A t \in Servers : t # s => inq'[t] = inq[t]
    BY DEF Types
  <1>3. inq' \in [Servers -> Seq(Datagram)]
    BY DEF Types
  <1>4. Cardinality(Waiting(inq'[s]))
              = Cardinality(Waiting(inq[s])) + IF x.kind = "report" THEN 1 ELSE 0
    BY <1>1, WaitingAppend
  <1>5. Numbered'
    <2> SUFFICES ASSUME NEW t \in Servers, NEW i \in 1..Len(inq'[t])
                 PROVE  NumberedReq(inq[t][i])'
      BY DEF Numbered
    <2>1. CASE i \in 1..Len(inq[t]) /\ inq'[t][i] = inq[t][i]
      <3>1. inq[t][i] \in Datagram /\ NumberedReq(inq[t][i])
        BY <2>1, Entries DEF Types, Numbered
      <3>2. PICK q \in Datagram : q = inq[t][i]
        BY <3>1
      <3>3. NumberedReq(q)'
        BY <3>1, <3>2, NumbersStay
      <3>4. inq'[t][i] = q
        BY <2>1, <3>2
      <3>5. QED
        BY <3>3, <3>4 DEF NumberedReq
    <2>2. CASE inq'[t][i] = x
      BY <2>2 DEF NumberedReq
    <2>3. \/ i \in 1..Len(inq[t]) /\ inq'[t][i] = inq[t][i]
          \/ inq'[t][i] = x
      <3>1. CASE t = s
        <4>1. /\ Len(inq[s]) \in Nat /\ Len(inq'[s]) = Len(inq[s]) + 1
              /\ inq'[s][Len(inq[s]) + 1] = x
              /\ \A k \in 1..Len(inq[s]) : inq'[s][k] = inq[s][k]
          BY <1>1, Entries
        <4>2. QED
          BY <3>1, <4>1
      <3>2. CASE t # s
        BY <1>2, <3>2
      <3>3. QED
        BY <3>1, <3>2
    <2>4. QED
      BY <2>1, <2>2, <2>3
  <1>6. QED
    BY <1>2, <1>3, <1>4, <1>5

(* A server takes the first datagram. *)
LEMMA Received ==
  ASSUME Types, Numbered, NEW s \in Servers, inq[s] # << >>, calls' = calls,
         inq' = [inq EXCEPT ![s] = Tail(@)]
  PROVE  /\ inq' \in [Servers -> Seq(Datagram)] /\ Numbered'
         /\ Head(inq[s]) \in Datagram /\ NumberedReq(Head(inq[s]))
         /\ Cardinality(Waiting(inq'[s]))
              + (IF Head(inq[s]).kind = "report" THEN 1 ELSE 0) <= Cardinality(Waiting(inq[s]))
         /\ \A t \in Servers : t # s => inq'[t] = inq[t]
  <1>1. inq[s] \in Seq(Datagram) /\ inq'[s] = Tail(inq[s])
    BY DEF Types
  <1>2. \A t \in Servers : t # s => inq'[t] = inq[t]
    BY DEF Types
  <1>3. inq' \in [Servers -> Seq(Datagram)]
    BY <1>1, FirstTaken DEF Types
  <1>4. Cardinality(Waiting(inq'[s]))
          + (IF Head(inq[s]).kind = "report" THEN 1 ELSE 0) <= Cardinality(Waiting(inq[s]))
    BY <1>1, WaitingTail
  <1>5. /\ Len(inq[s]) \in Nat /\ Len(inq'[s]) = Len(inq[s]) - 1 /\ Len(inq[s]) >= 1
        /\ Head(inq[s]) = inq[s][1] /\ Head(inq[s]) \in Datagram
        /\ \A k \in 1..(Len(inq[s]) - 1) : inq'[s][k] = inq[s][k + 1]
    BY <1>1, FirstTaken
  <1>6. NumberedReq(Head(inq[s]))
    BY <1>5 DEF Numbered
  <1>7. Numbered'
    <2> SUFFICES ASSUME NEW t \in Servers, NEW i \in 1..Len(inq'[t])
                 PROVE  NumberedReq(inq[t][i])'
      BY DEF Numbered
    <2>1. \E j \in 1..Len(inq[t]) : inq'[t][i] = inq[t][j]
      <3>1. CASE t = s
        <4>1. i + 1 \in 1..Len(inq[t]) /\ inq'[t][i] = inq[t][i + 1]
          BY <1>5, <3>1
        <4>2. QED
          BY <4>1
      <3>2. CASE t # s
        BY <1>2, <3>2
      <3>3. QED
        BY <3>1, <3>2
    <2>2. QED
      BY <2>1 DEF Numbered, NumberedReq
  <1>8. QED
    BY <1>2, <1>3, <1>4, <1>5, <1>6, <1>7

(* An answer arrives at client c. *)
LEMMA Answered ==
  ASSUME Types, OwnAnswers, NEW c \in Clients, NEW s \in Servers, NEW x \in Answer,
         OwnAnswer(c, x), calls' = calls,
         ans' = [ans EXCEPT ![c][s] = Append(@, x)]
  PROVE  ans' \in [Clients -> [Servers -> Seq(Answer)]] /\ OwnAnswers'
  <1>1. ans[c][s] \in Seq(Answer) /\ ans'[c][s] = Append(ans[c][s], x)
    BY DEF Types
  <1>2. \A b \in Clients, t \in Servers : b # c \/ t # s => ans'[b][t] = ans[b][t]
    BY DEF Types
  <1>3. ans' \in [Clients -> [Servers -> Seq(Answer)]]
    <2>1. Append(ans[c][s], x) \in Seq(Answer)
      BY <1>1, Entries
    <2>2. QED
      BY <2>1 DEF Types
  <1>4. OwnAnswers'
    <2> SUFFICES ASSUME NEW b \in Clients, NEW t \in Servers, NEW i \in 1..Len(ans'[b][t])
                 PROVE  OwnAnswer(b, ans[b][t][i])'
      BY DEF OwnAnswers
    <2>1. \/ i \in 1..Len(ans[b][t]) /\ ans'[b][t][i] = ans[b][t][i]
          \/ b = c /\ ans'[b][t][i] = x
      <3>1. CASE b = c /\ t = s
        <4>1. /\ Len(ans[c][s]) \in Nat /\ Len(ans'[c][s]) = Len(ans[c][s]) + 1
              /\ ans'[c][s][Len(ans[c][s]) + 1] = x
              /\ \A k \in 1..Len(ans[c][s]) : ans'[c][s][k] = ans[c][s][k]
          BY <1>1, Entries
        <4>2. QED
          BY <3>1, <4>1
      <3>2. CASE ~(b = c /\ t = s)
        BY <1>2, <3>2
      <3>3. QED
        BY <3>1, <3>2
    <2>2. PICK d : d = ans'[b][t][i]
      OBVIOUS
    <2>3. OwnAnswer(b, d)
      BY <2>1, <2>2 DEF OwnAnswers
    <2>4. QED
      BY <2>2, <2>3 DEF OwnAnswer
  <1>5. QED
    BY <1>3, <1>4

(* A client takes the first datagram of a socket. *)
LEMMA Taken ==
  ASSUME Types, OwnAnswers, NEW c \in Clients, NEW s \in Servers, ans[c][s] # << >>,
         calls' = calls, ans' = [ans EXCEPT ![c][s] = Tail(@)]
  PROVE  /\ ans' \in [Clients -> [Servers -> Seq(Answer)]] /\ OwnAnswers'
         /\ Head(ans[c][s]) \in Answer /\ OwnAnswer(c, Head(ans[c][s]))
  <1>1. ans[c][s] \in Seq(Answer) /\ ans'[c][s] = Tail(ans[c][s])
    BY DEF Types
  <1>2. \A b \in Clients, t \in Servers : b # c \/ t # s => ans'[b][t] = ans[b][t]
    BY DEF Types
  <1>3. ans' \in [Clients -> [Servers -> Seq(Answer)]]
    <2>1. Tail(ans[c][s]) \in Seq(Answer)
      BY <1>1, FirstTaken
    <2>2. QED
      BY <2>1 DEF Types
  <1>4. /\ Len(ans[c][s]) \in Nat /\ Len(ans'[c][s]) = Len(ans[c][s]) - 1
        /\ Len(ans[c][s]) >= 1
        /\ Head(ans[c][s]) = ans[c][s][1] /\ Head(ans[c][s]) \in Answer
        /\ \A k \in 1..(Len(ans[c][s]) - 1) : ans'[c][s][k] = ans[c][s][k + 1]
    BY <1>1, FirstTaken
  <1>5. OwnAnswer(c, Head(ans[c][s]))
    BY <1>4 DEF OwnAnswers
  <1>6. OwnAnswers'
    <2> SUFFICES ASSUME NEW b \in Clients, NEW t \in Servers, NEW i \in 1..Len(ans'[b][t])
                 PROVE  OwnAnswer(b, ans[b][t][i])'
      BY DEF OwnAnswers
    <2>1. \E j \in 1..Len(ans[b][t]) : ans'[b][t][i] = ans[b][t][j]
      <3>1. CASE b = c /\ t = s
        <4>1. i + 1 \in 1..Len(ans[b][t]) /\ ans'[b][t][i] = ans[b][t][i + 1]
          BY <1>4, <3>1
        <4>2. QED
          BY <4>1
      <3>2. CASE ~(b = c /\ t = s)
        BY <1>2, <3>2
      <3>3. QED
        BY <3>1, <3>2
    <2>2. PICK d : d = ans'[b][t][i]
      OBVIOUS
    <2>3. OwnAnswer(b, d)
      BY <2>1, <2>2 DEF OwnAnswers
    <2>4. QED
      BY <2>2, <2>3 DEF OwnAnswer
  <1>7. QED
    BY <1>3, <1>4, <1>5, <1>6

-----------------------------------------------------------------------------
(* Every step preserves the invariant. *)

(* Nothing is called, sent or reported at the start. *)
LEMMA InitIInv == Init => IInv
  <1> SUFFICES ASSUME Init PROVE IInv
    OBVIOUS
  <1>1. Types
    <2>1. << >> \in Seq(Datagram) /\ << >> \in Seq(Answer)
      OBVIOUS
    <2>2. inq \in [Servers -> Seq(Datagram)]
      BY <2>1 DEF Init
    <2>3. ans \in [Clients -> [Servers -> Seq(Answer)]]
      BY <2>1 DEF Init
    <2>4. result \in [Clients -> [ret : Retcodes \cup {"none", "RET_SYSTEM_ERROR"},
                                  asker : Clients \cup {"nobody"}, call : Nat,
                                  intact : BOOLEAN]]
      BY DEF Init, Nothing
    <2>5. api \in [Clients -> [at : {"idle", "recv"}, mod : Mods \cup {0}]]
      BY DEF Init
    <2>6. QED
      BY <2>2, <2>3, <2>4, <2>5 DEF Init, Types
  <1>2. Numbered /\ OwnAnswers
    BY DEF Init, Numbered, OwnAnswers
  <1>3. Reported
    <2>1. Waiting(<< >>) = {}
      BY DEF Waiting
    <2>2. Cardinality(Waiting(<< >>)) = 0
      BY <2>1, FS_EmptySet
    <2>3. QED
      BY <2>2 DEF Init, Reported
  <1>4. OwnAnswerIfIntact
    BY DEF Init, Nothing, OwnAnswerIfIntact
  <1>5. QED
    BY <1>1, <1>2, <1>3, <1>4 DEF IInv

(* A request gets the number of a new call. *)
LEMMA GetHostSendIInv ==
  ASSUME IInv, NEW c \in Clients, NEW m \in Mods, GetHostSend(c, m)
  PROVE  IInv'
  <1>1. Types /\ Numbered /\ OwnAnswers /\ Reported /\ OwnAnswerIfIntact
    BY DEF IInv
  <1>2. PICK x : x = Request(c, m, calls[c] + 1)
    OBVIOUS
  <1>3. PICK s \in Servers : s = Index(m)
    BY IndexIsServer
  <1>4. /\ calls' = [calls EXCEPT ![c] = @ + 1]
        /\ api' = [api EXCEPT ![c] = [at |-> "recv", mod |-> m]]
        /\ result' = [result EXCEPT ![c] = Nothing]
        /\ inq' = [inq EXCEPT ![s] = Append(@, x)] \/ inq' = inq
        /\ UNCHANGED <<cli, ans, counted, reports>>
    BY <1>2, <1>3 DEF GetHostSend
  <1>5. calls' \in [Clients -> Nat] /\ calls'[c] = calls[c] + 1 /\ calls[c] \in Nat
    BY <1>1, <1>4 DEF Types
  <1>6. \A b \in Clients : calls'[b] \in Nat /\ calls[b] <= calls'[b]
    BY <1>1, <1>4 DEF Types
  <1>7. x \in Datagram /\ x.kind = "get" /\ NumberedReq(x)'
    <2>1. SeqMod \in Nat \ {0}
      BY LarsApiConstants
    <2>2. \A n \in Nat : n % SeqMod \in 0 .. SeqMod - 1
      BY <2>1
    <2>3. /\ x.kind = "get" /\ x.cli = c /\ x.call = calls[c] + 1
          /\ x.seq = (x.call - 1) % SeqMod
      BY <1>2 DEF Request
    <2>4. calls[c] + 1 \in Nat /\ (calls[c] + 1) - 1 = calls[c]
      BY <1>5
    <2>5. x.seq \in 0 .. SeqMod - 1
      BY <1>5, <2>2, <2>3, <2>4
    <2>6. x \in Datagram
      BY <1>2, <2>3, <2>4, <2>5 DEF Request, Datagram
    <2>7. x.call \in 1..calls'[x.cli]
      BY <1>5, <2>3
    <2>8. NumberedReq(x)'
      BY <2>3, <2>7 DEF NumberedReq
    <2>9. QED
      BY <2>3, <2>6, <2>8
  <1>8. inq' \in [Servers -> Seq(Datagram)] /\ Numbered' /\ Reported'
    <2>1. CASE inq' = inq
      BY <1>1, <1>4, <1>6, <2>1, SameDatagrams DEF Types, Reported
    <2>2. CASE inq' = [inq EXCEPT ![s] = Append(@, x)]
      <3>1. /\ inq' \in [Servers -> Seq(Datagram)] /\ Numbered'
            /\ Cardinality(Waiting(inq'[s]))
                 = Cardinality(Waiting(inq[s])) + IF x.kind = "report" THEN 1 ELSE 0
            /\ \A t \in Servers : t # s => inq'[t] = inq[t]
        BY <1>1, <1>6, <1>7, <2>2, Sent
      <3>2. Cardinality(Waiting(inq[s])) \in Nat
        BY <1>1, WaitingFinite DEF Types
      <3>3. Cardinality(Waiting(inq'[s])) = Cardinality(Waiting(inq[s]))
        BY <1>7, <3>1, <3>2
      <3>4. Reported'
        BY <1>1, <1>4, <3>1, <3>3 DEF Reported
      <3>5. QED
        BY <3>1, <3>4
    <2>3. QED
      BY <1>4, <2>1, <2>2
  <1>9. OwnAnswers'
    BY <1>1, <1>4, <1>6, SameDatagrams
  <1>10. Types'
    <2>1. api' \in [Clients -> [at : {"idle", "recv"}, mod : Mods \cup {0}]]
      BY <1>1, <1>4 DEF Types
    <2>2. result' \in [Clients -> [ret : Retcodes \cup {"none", "RET_SYSTEM_ERROR"},
                                   asker : Clients \cup {"nobody"}, call : Nat,
                                   intact : BOOLEAN]]
      BY <1>1, <1>4 DEF Types, Nothing
    <2>3. QED
      BY <1>1, <1>4, <1>5, <1>8, <2>1, <2>2 DEF Types
  <1>11. OwnAnswerIfIntact'
    <2>1. \A b \in Clients : b # c => result'[b] = result[b] /\ calls'[b] = calls[b]
      BY <1>1, <1>4 DEF Types
    <2>2. result'[c].intact = FALSE
      BY <1>1, <1>4 DEF Types, Nothing
    <2>3. QED
      BY <1>1, <2>1, <2>2 DEF OwnAnswerIfIntact
  <1>12. QED
    BY <1>8, <1>9, <1>10, <1>11 DEF IInv

(* A call that cannot be sent uses up its number. *)
LEMMA GetHostSendFailsIInv ==
  ASSUME IInv, NEW c \in Clients, NEW m \in Mods, GetHostSendFails(c, m)
  PROVE  IInv'
  <1>1. Types /\ Numbered /\ OwnAnswers /\ Reported /\ OwnAnswerIfIntact
    BY DEF IInv
  <1>2. /\ calls' = [calls EXCEPT ![c] = @ + 1]
        /\ result' = [result EXCEPT ![c] = Failure]
        /\ UNCHANGED <<api, inq, cli, ans, counted, reports>>
    BY DEF GetHostSendFails
  <1>3. calls' \in [Clients -> Nat]
    BY <1>1, <1>2 DEF Types
  <1>4. \A b \in Clients : calls'[b] \in Nat /\ calls[b] <= calls'[b]
    BY <1>1, <1>2 DEF Types
  <1>5. Numbered' /\ OwnAnswers'
    BY <1>1, <1>2, <1>4, SameDatagrams
  <1>6. Types'
    <2>1. result' \in [Clients -> [ret : Retcodes \cup {"none", "RET_SYSTEM_ERROR"},
                                   asker : Clients \cup {"nobody"}, call : Nat,
                                   intact : BOOLEAN]]
      BY <1>1, <1>2 DEF Types, Nothing, Failure
    <2>2. QED
      BY <1>1, <1>2, <1>3, <2>1 DEF Types
  <1>7. Reported'
    BY <1>1, <1>2 DEF Reported
  <1>8. OwnAnswerIfIntact'
    <2>1. \A b \in Clients : b # c => result'[b] = result[b] /\ calls'[b] = calls[b]
      BY <1>1, <1>2 DEF Types
    <2>2. result'[c].intact = FALSE
      BY <1>1, <1>2 DEF Types, Nothing, Failure
    <2>3. QED
      BY <1>1, <2>1, <2>2 DEF OwnAnswerIfIntact
  <1>9. QED
    BY <1>5, <1>6, <1>7, <1>8 DEF IInv

(* A report that is sent may be counted later. *)
LEMMA ReportSendIInv ==
  ASSUME IInv, NEW c \in Clients, NEW m \in Mods, ReportSend(c, m)
  PROVE  IInv'
  <1>1. Types /\ Numbered /\ OwnAnswers /\ Reported /\ OwnAnswerIfIntact
    BY DEF IInv
  <1>2. PICK x : x = [kind |-> "report", cli |-> c, mod |-> m, call |-> 0, seq |-> 0]
    OBVIOUS
  <1>3. PICK s \in Servers : s = Index(m)
    BY IndexIsServer
  <1>4. /\ reports' = [reports EXCEPT ![s] = @ + 1]
        /\ inq' = [inq EXCEPT ![s] = Append(@, x)] \/ inq' = inq
        /\ UNCHANGED <<calls, api, result, cli, ans, counted>>
    BY <1>2, <1>3 DEF ReportSend
  <1>5. x \in Datagram /\ x.kind = "report" /\ NumberedReq(x)'
    <2>1. 0 \in 0 .. SeqMod - 1
      BY LarsApiConstants
    <2>2. QED
      BY <1>2, <2>1 DEF Datagram, NumberedReq
  <1>6. \A b \in Clients : calls'[b] \in Nat /\ calls[b] <= calls'[b]
    BY <1>1, <1>4 DEF Types
  <1>7. /\ reports' \in [Servers -> Nat] /\ reports'[s] = reports[s] + 1
        /\ \A t \in Servers : t # s => reports'[t] = reports[t]
    BY <1>1, <1>4 DEF Types
  <1>8. inq' \in [Servers -> Seq(Datagram)] /\ Numbered' /\ Reported'
    <2>1. /\ \A t \in Servers : Cardinality(Waiting(inq[t])) \in Nat
          /\ \A t \in Servers : counted[t] \in Nat /\ reports[t] \in Nat
      BY <1>1, WaitingFinite DEF Types
    <2>2. CASE inq' = inq
      <3>1. inq' \in [Servers -> Seq(Datagram)] /\ Numbered'
        BY <1>1, <1>6, <2>2, SameDatagrams DEF Types
      <3>2. Reported'
        BY <1>1, <1>4, <1>7, <2>1, <2>2 DEF Reported
      <3>3. QED
        BY <3>1, <3>2
    <2>3. CASE inq' = [inq EXCEPT ![s] = Append(@, x)]
      <3>1. /\ inq' \in [Servers -> Seq(Datagram)] /\ Numbered'
            /\ Cardinality(Waiting(inq'[s]))
                 = Cardinality(Waiting(inq[s])) + IF x.kind = "report" THEN 1 ELSE 0
            /\ \A t \in Servers : t # s => inq'[t] = inq[t]
        BY <1>1, <1>5, <1>6, <2>3, Sent
      <3>2. Reported'
        BY <1>1, <1>4, <1>5, <1>7, <2>1, <3>1 DEF Reported
      <3>3. QED
        BY <3>1, <3>2
    <2>4. QED
      BY <1>4, <2>2, <2>3
  <1>9. OwnAnswers'
    BY <1>1, <1>4, <1>6, SameDatagrams
  <1>10. Types'
    BY <1>1, <1>4, <1>7, <1>8 DEF Types
  <1>11. OwnAnswerIfIntact'
    BY <1>1, <1>4 DEF OwnAnswerIfIntact
  <1>12. QED
    BY <1>8, <1>9, <1>10, <1>11 DEF IInv

(* What is taken for the answer to this call is one, or is a round older. *)
LEMMA GetHostRecvIInv ==
  ASSUME IInv, NEW c \in Clients, GetHostRecv(c)
  PROVE  IInv'
  <1>1. Types /\ Numbered /\ OwnAnswers /\ Reported /\ OwnAnswerIfIntact
    BY DEF IInv
  <1>2. PICK s \in Servers : s = Index(api[c].mod)
    BY <1>1, IndexIsServer DEF Types
  <1>3. PICK d : d = Head(ans[c][s])
    OBVIOUS
  <1>4. /\ ans[c][s] # << >> /\ ans' = [ans EXCEPT ![c][s] = Tail(@)]
        /\ UNCHANGED <<calls, inq, cli, counted, reports>>
    BY <1>2 DEF GetHostRecv
  <1>5. \/ api' = api /\ result' = result
        \/ /\ api' = [api EXCEPT ![c].at = "idle"]
           /\ \/ result' = [result EXCEPT ![c] = Failure]
              \/ d.seq = Seq0(c) /\ result' = [result EXCEPT ![c] = Result(d)]
    BY <1>2, <1>3 DEF GetHostRecv, Return
  <1>6. /\ ans' \in [Clients -> [Servers -> Seq(Answer)]] /\ OwnAnswers'
        /\ d \in Answer /\ OwnAnswer(c, d)
    BY <1>1, <1>3, <1>4, Taken
  <1>7. Numbered' /\ Reported'
    BY <1>1, <1>4 DEF Numbered, NumberedReq, Reported
  <1>8. api' \in [Clients -> [at : {"idle", "recv"}, mod : Mods \cup {0}]]
    <2>1. api' = api \/ api' = [api EXCEPT ![c].at = "idle"]
      BY <1>5
    <2>2. api \in [Clients -> [at : {"idle", "recv"}, mod : Mods \cup {0}]]
      BY <1>1 DEF Types
    <2>3. QED
      BY <2>1, <2>2
  <1>9. result' \in [Clients -> [ret : Retcodes \cup {"none", "RET_SYSTEM_ERROR"},
                                 asker : Clients \cup {"nobody"}, call : Nat,
                                 intact : BOOLEAN]]
    <2> DEFINE R == [ret : Retcodes \cup {"none", "RET_SYSTEM_ERROR"},
                     asker : Clients \cup {"nobody"}, call : Nat, intact : BOOLEAN]
    <2>1. Failure \in R
      BY DEF Failure, Nothing
    <2>2. Result(d) \in R
      <3>1. /\ d.ret \in Retcodes /\ d.asker \in Clients /\ d.call \in Nat
            /\ d.intact \in BOOLEAN
        BY <1>6 DEF Answer
      <3>2. QED
        BY <3>1 DEF Result
    <2>3. result \in [Clients -> R]
      BY <1>1 DEF Types
    <2> HIDE DEF R
    <2>4. result' \in [Clients -> R]
      BY <1>5, <2>1, <2>2, <2>3
    <2>5. QED
      BY <2>4 DEF R
  <1>10. Types'
    BY <1>1, <1>4, <1>6, <1>8, <1>9 DEF Types
  <1>11. ASSUME d.seq = Seq0(c), d.intact
         PROVE  d.asker = c /\ (d.call = calls[c] \/ d.call <= calls[c] - SeqMod)
    <2>1. d.asker = c /\ d.call \in 1..calls[c] /\ d.seq = (d.call - 1) % SeqMod
      BY <1>6, <1>11 DEF OwnAnswer
    <2>2. calls[c] \in Nat /\ SeqMod \in Nat \ {0}
      BY <1>1, LarsApiConstants DEF Types
    <2>3. d.call - 1 \in Nat /\ calls[c] - 1 \in Nat /\ d.call - 1 <= calls[c] - 1
      BY <2>1, <2>2
    <2>4. (d.call - 1) % SeqMod = (calls[c] - 1) % SeqMod
      BY <1>11, <2>1 DEF Seq0
    <2>5. d.call - 1 = calls[c] - 1 \/ d.call - 1 <= (calls[c] - 1) - SeqMod
      BY <2>2, <2>3, <2>4, SameRemainder
    <2>6. QED
      BY <2>1, <2>2, <2>5
  <1>12. OwnAnswerIfIntact'
    <2>1. \A b \in Clients : b # c => result'[b] = result[b]
      BY <1>1, <1>5 DEF Types
    <2>2. \/ result'[c] = result[c] \/ result'[c] = Failure
          \/ d.seq = Seq0(c) /\ result'[c] = Result(d)
      BY <1>1, <1>5 DEF Types
    <2>3. Failure.intact = FALSE
      BY DEF Failure, Nothing
    <2>4. /\ Result(d).asker = d.asker /\ Result(d).call = d.call
          /\ Result(d).intact = d.intact
      BY DEF Result
    <2>5. QED
      BY <1>1, <1>4, <1>11, <2>1, <2>2, <2>3, <2>4 DEF OwnAnswerIfIntact
  <1>13. QED
    BY <1>6, <1>7, <1>10, <1>12 DEF IInv

(* A call that is interrupted leaves its answer behind. *)
LEMMA GetHostInterruptedIInv ==
  ASSUME IInv, NEW c \in Clients, GetHostInterrupted(c)
  PROVE  IInv'
  <1>1. Types /\ Numbered /\ OwnAnswers /\ Reported /\ OwnAnswerIfIntact
    BY DEF IInv
  <1>2. /\ api' = [api EXCEPT ![c].at = "idle"]
        /\ result' = [result EXCEPT ![c] = Failure]
        /\ UNCHANGED <<calls, inq, cli, ans, counted, reports>>
    BY DEF GetHostInterrupted, Return
  <1>3. Types'
    <2>1. api' \in [Clients -> [at : {"idle", "recv"}, mod : Mods \cup {0}]]
      BY <1>1, <1>2, ZenonT(60) DEF Types
    <2>2. result' \in [Clients -> [ret : Retcodes \cup {"none", "RET_SYSTEM_ERROR"},
                                   asker : Clients \cup {"nobody"}, call : Nat,
                                   intact : BOOLEAN]]
      BY <1>1, <1>2 DEF Types, Nothing, Failure
    <2>3. QED
      BY <1>1, <1>2, <2>1, <2>2 DEF Types
  <1>4. Numbered' /\ Reported' /\ OwnAnswers'
    BY <1>1, <1>2 DEF Numbered, NumberedReq, Reported, OwnAnswers, OwnAnswer
  <1>5. OwnAnswerIfIntact'
    <2>1. \A b \in Clients : b # c => result'[b] = result[b]
      BY <1>1, <1>2 DEF Types
    <2>2. result'[c].intact = FALSE
      BY <1>1, <1>2 DEF Types, Nothing, Failure
    <2>3. QED
      BY <1>1, <1>2, <2>1, <2>2 DEF OwnAnswerIfIntact
  <1>6. QED
    BY <1>3, <1>4, <1>5 DEF IInv

(* The answer goes to whom the datagram came from, with its number. *)
LEMMA ServeGetHostIInv ==
  ASSUME IInv, NEW s \in Servers, ServeGetHost(s)
  PROVE  IInv'
  <1>1. Types /\ Numbered /\ OwnAnswers /\ Reported /\ OwnAnswerIfIntact
    BY DEF IInv
  <1>2. PICK q : q = Head(inq[s])
    OBVIOUS
  <1>3. /\ inq[s] # << >> /\ q.kind = "get"
        /\ cli' = [cli EXCEPT ![s] = q.cli]
        /\ inq' = [inq EXCEPT ![s] = Tail(@)]
        /\ UNCHANGED <<calls, api, result, counted, reports>>
    BY <1>2 DEF ServeGetHost, RecvFrom
  <1>4. /\ inq' \in [Servers -> Seq(Datagram)] /\ Numbered'
        /\ q \in Datagram /\ NumberedReq(q)
        /\ Cardinality(Waiting(inq'[s]))
             + (IF q.kind = "report" THEN 1 ELSE 0) <= Cardinality(Waiting(inq[s]))
        /\ \A t \in Servers : t # s => inq'[t] = inq[t]
    BY <1>1, <1>2, <1>3, Received
  <1>5. /\ q.cli \in Clients
        /\ q.mod \in Mods
        /\ q.call \in Nat
        /\ q.seq \in 0 .. SeqMod - 1
    BY <1>4 DEF Datagram
  <1>6. cli' \in [Servers -> Clients \cup {"nobody"}] /\ cli'[s] = q.cli
    BY <1>1, <1>3, <1>5 DEF Types
  <1>7. Reported'
    <2>1. Cardinality(Waiting(inq[s])) \in Nat /\ Cardinality(Waiting(inq'[s])) \in Nat
      BY <1>1, <1>4, WaitingFinite DEF Types
    <2>2. Cardinality(Waiting(inq'[s])) <= Cardinality(Waiting(inq[s]))
      BY <1>3, <1>4, <2>1
    <2>3. counted[s] \in Nat /\ reports[s] \in Nat
      BY <1>1 DEF Types
    <2>4. counted[s] + Cardinality(Waiting(inq'[s])) <= reports[s]
      BY <1>1, <2>1, <2>2, <2>3 DEF Reported
    <2>5. QED
      BY <1>1, <1>3, <1>4, <2>4 DEF Reported
  <1>8. PICK ret \in Retcodes :
          Reply(s, [ok |-> TRUE, seq |-> q.seq, mod |-> q.mod, ret |-> ret], q.cli, q.call)
    BY <1>2 DEF ServeGetHost
  <1>9. ans' \in [Clients -> [Servers -> Seq(Answer)]] /\ OwnAnswers'
    <2> DEFINE rsp == [ok |-> TRUE, seq |-> q.seq, mod |-> q.mod, ret |-> ret]
    <2>1. CASE ans' = ans
      BY <1>1, <1>3, <2>1 DEF Types, OwnAnswers, OwnAnswer
    <2>2. ASSUME NEW b \in Bodies(rsp),
                 ans' = [ans EXCEPT ![q.cli][s] = Append(@,
                           [ok |-> b.ok, seq |-> b.seq, mod |-> b.mod, ret |-> b.ret,
                            asker |-> q.cli, call |-> q.call, intact |-> b = rsp])]
          PROVE  ans' \in [Clients -> [Servers -> Seq(Answer)]] /\ OwnAnswers'
      <3>1. PICK x : x = [ok |-> b.ok, seq |-> b.seq, mod |-> b.mod, ret |-> b.ret,
                          asker |-> q.cli, call |-> q.call, intact |-> b = rsp]
        OBVIOUS
      <3>2. /\ b.ok \in BOOLEAN
            /\ b.seq \in 0 .. SeqMod - 1
            /\ b.mod \in Mods
            /\ b.ret \in Retcodes
        BY <1>5 DEF Bodies
      <3>3. (b = rsp) \in BOOLEAN
        OBVIOUS
      <3>4. b = rsp => b.seq = q.seq
        OBVIOUS
      <3> HIDE DEF rsp
      <3>5. x \in Answer
        BY <1>5, <3>1, <3>2, <3>3 DEF Answer
      <3>6. OwnAnswer(q.cli, x)
        <4>1. q.call \in 1..calls[q.cli] /\ q.seq = (q.call - 1) % SeqMod
          BY <1>3, <1>4 DEF NumberedReq
        <4>2. x.asker = q.cli /\ x.call = q.call /\ x.seq = b.seq
          BY <3>1
        <4>3. x.intact => b = rsp
          BY <3>1
        <4>4. QED
          BY <3>4, <4>1, <4>2, <4>3 DEF OwnAnswer
      <3>7. ans' = [ans EXCEPT ![q.cli][s] = Append(@, x)]
        BY <2>2, <3>1
      <3>8. QED
        BY <1>1, <1>3, <1>5, <3>5, <3>6, <3>7, Answered
    <2>3. \/ ans' = ans
          \/ \E b \in Bodies(rsp) :
                ans' = [ans EXCEPT ![q.cli][s] = Append(@,
                          [ok |-> b.ok, seq |-> b.seq, mod |-> b.mod, ret |-> b.ret,
                           asker |-> q.cli, call |-> q.call, intact |-> b = rsp])]
      BY <1>6, <1>8 DEF Reply
    <2>4. QED
      BY <2>1, <2>2, <2>3
  <1>10. Types'
    BY <1>1, <1>3, <1>4, <1>6, <1>9 DEF Types
  <1>11. OwnAnswerIfIntact'
    BY <1>1, <1>3 DEF OwnAnswerIfIntact
  <1>12. QED
    BY <1>4, <1>7, <1>9, <1>10, <1>11 DEF IInv

(* A report is counted once it has been taken. *)
LEMMA ServeReportIInv ==
  ASSUME IInv, NEW s \in Servers, ServeReport(s)
  PROVE  IInv'
  <1>1. Types /\ Numbered /\ OwnAnswers /\ Reported /\ OwnAnswerIfIntact
    BY DEF IInv
  <1>2. PICK q : q = Head(inq[s])
    OBVIOUS
  <1>3. /\ inq[s] # << >> /\ q.kind = "report"
        /\ cli' = [cli EXCEPT ![s] = q.cli]
        /\ inq' = [inq EXCEPT ![s] = Tail(@)]
        /\ counted' = [counted EXCEPT ![s] = @ + 1]
        /\ UNCHANGED <<calls, api, result, ans, reports>>
    BY <1>2 DEF ServeReport, RecvFrom
  <1>4. /\ inq' \in [Servers -> Seq(Datagram)] /\ Numbered'
        /\ q \in Datagram
        /\ Cardinality(Waiting(inq'[s]))
             + (IF q.kind = "report" THEN 1 ELSE 0) <= Cardinality(Waiting(inq[s]))
        /\ \A t \in Servers : t # s => inq'[t] = inq[t]
    BY <1>1, <1>2, <1>3, Received
  <1>5. q.cli \in Clients
    BY <1>4 DEF Datagram
  <1>6. cli' \in [Servers -> Clients \cup {"nobody"}]
    BY <1>1, <1>3, <1>5 DEF Types
  <1>7. /\ counted' \in [Servers -> Nat] /\ counted'[s] = counted[s] + 1
        /\ \A t \in Servers : t # s => counted'[t] = counted[t]
    BY <1>1, <1>3 DEF Types
  <1>8. Reported'
    <2>1. Cardinality(Waiting(inq[s])) \in Nat /\ Cardinality(Waiting(inq'[s])) \in Nat
      BY <1>1, <1>4, WaitingFinite DEF Types
    <2>2. Cardinality(Waiting(inq'[s])) + 1 <= Cardinality(Waiting(inq[s]))
      BY <1>3, <1>4
    <2>3. counted[s] \in Nat /\ reports[s] \in Nat
      BY <1>1 DEF Types
    <2>4. counted'[s] + Cardinality(Waiting(inq'[s])) <= reports[s]
      BY <1>1, <1>7, <2>1, <2>2, <2>3 DEF Reported
    <2>5. QED
      BY <1>1, <1>3, <1>4, <1>7, <2>4 DEF Reported
  <1>9. OwnAnswers' /\ OwnAnswerIfIntact'
    BY <1>1, <1>3 DEF OwnAnswers, OwnAnswer, OwnAnswerIfIntact
  <1>10. Types'
    BY <1>1, <1>3, <1>4, <1>6, <1>7 DEF Types
  <1>11. QED
    BY <1>4, <1>8, <1>9, <1>10 DEF IInv

(* No step of a client or a server breaks the invariant. *)
LEMMA StepIInv == IInv /\ [Next]_vars => IInv'
  <1> SUFFICES ASSUME IInv, [Next]_vars PROVE IInv'
    OBVIOUS
  <1>1. CASE UNCHANGED vars
    <2>1. Types'
      BY <1>1 DEF vars, IInv, Types
    <2>2. Numbered' /\ Reported' /\ OwnAnswers'
      BY <1>1 DEF vars, IInv, Numbered, NumberedReq, Reported, OwnAnswers, OwnAnswer
    <2>3. OwnAnswerIfIntact'
      BY <1>1 DEF vars, IInv, OwnAnswerIfIntact
    <2>4. QED
      BY <2>1, <2>2, <2>3 DEF IInv
  <1>2. CASE \E c \in Clients, m \in Mods :
               GetHostSend(c, m) \/ GetHostSendFails(c, m) \/ ReportSend(c, m)
    BY <1>2, GetHostSendIInv, GetHostSendFailsIInv, ReportSendIInv
  <1>3. CASE \E c \in Clients : GetHostRecv(c) \/ GetHostInterrupted(c)
    BY <1>3, GetHostRecvIInv, GetHostInterruptedIInv
  <1>4. CASE \E s \in Servers : Serve(s)
    BY <1>4, ServeGetHostIInv, ServeReportIInv DEF Serve
  <1>5. QED
    BY <1>1, <1>2, <1>3, <1>4 DEF Next

-----------------------------------------------------------------------------
(* The theorems. *)

(***************************************************************************)
(* IInv holds throughout, whatever is lost, interrupted or garbled.        *)
(***************************************************************************)
THEOREM ApiInvariant == Spec => []IInv
  BY InitIInv, StepIInv, PTL DEF Spec

(***************************************************************************)
(* The one _cli_addr of a server suffices: an answer never gets into the   *)
(* socket of a client that did not ask; and no report is counted twice.    *)
(***************************************************************************)
THEOREM AnswersReachTheirAsker == Spec => []AnswerToAsker
  <1>1. IInv => AnswerToAsker
    <2> SUFFICES ASSUME IInv PROVE AnswerToAsker
      OBVIOUS
    <2>1. Types /\ OwnAnswers /\ Reported
      BY DEF IInv
    <2>2. \A s \in Servers : \A q \in Range(inq[s]) : q.kind \in {"get", "report"}
      <3>1. \A s \in Servers : \A i \in 1..Len(inq[s]) : inq[s][i] \in Datagram
        BY <2>1, Entries DEF Types
      <3>2. \A s \in Servers : DOMAIN inq[s] = 1..Len(inq[s])
        BY <2>1 DEF Types
      <3>3. QED
        BY <3>1, <3>2 DEF Range, Datagram
    <2>3. \A s \in Servers : counted[s] <= reports[s]
      <3>1. \A s \in Servers : /\ Cardinality(Waiting(inq[s])) \in Nat
                               /\ counted[s] \in Nat /\ reports[s] \in Nat
        BY <2>1, WaitingFinite DEF Types
      <3>2. QED
        BY <2>1, <3>1 DEF Reported
    <2>4. \A c \in Clients, s \in Servers : \A d \in Range(ans[c][s]) : d.asker = c
      <3>1. \A c \in Clients, s \in Servers : DOMAIN ans[c][s] = 1..Len(ans[c][s])
        BY <2>1 DEF Types
      <3>2. QED
        BY <2>1, <3>1 DEF Range, OwnAnswers, OwnAnswer
    <2>5. TypeOK
      BY <2>1, <2>2, <2>3 DEF Types, TypeOK
    <2>6. QED
      BY <2>4, <2>5 DEF AnswerToAsker
  <1>2. QED
    BY <1>1, ApiInvariant, PTL

(***************************************************************************)
(* get_host takes no answer to an earlier, interrupted call for that to    *)
(* its own, as long as bodies are what was sent and fewer than 2^32 calls  *)
(* lie in between.                                                         *)
(***************************************************************************)
THEOREM OwnAnswerIsReturned == Spec => []OwnAnswerIfIntact
  <1>1. IInv => OwnAnswerIfIntact
    BY DEF IInv
  <1>2. QED
    BY <1>1, ApiInvariant, PTL
=============================================================================
