-------------------------- MODULE TcpStreamProofs ---------------------------
(***************************************************************************)
(* Proofs about the byte stream of a connection and the pool its buffers   *)
(* take their blocks from.                                                 *)
(*                                                                         *)
(* The inductive invariant IInv has three arguments in it.                 *)
(*                                                                         *)
(* The pool.  Whatever a connection does to a buffer exchanges its block   *)
(* for another (Exchanged), so the blocks in the lists, in the buffers and *)
(* with other connections are together those made (BlocksAccounted).       *)
(* _total_mem counts all of them but the first of each list (Sized): for   *)
(* this, Total is shown to be the size of a set of units of memory.        *)
(*                                                                         *)
(* Input.  The bytes in the input buffer and on the wire (Rest) are whole  *)
(* messages without gaps up to the last one sent, of the first of which a  *)
(* part may have been popped (Whole).  They begin with the message that is *)
(* due, or with the body whose callback runs (InStream).  So what Dispatch *)
(* reads as a head is one, of the message due, and do_read's cuts of the   *)
(* stream do not matter.  A tcp_client that keeps input over a reconnect   *)
(* leaves this invariant for good.                                         *)
(*                                                                         *)
(* Output.  What was written and what is in the output buffer is what      *)
(* send_message accepted, as long as the bytes begin at the front of the   *)
(* block (OutStream), which only a rollback ends (AtFront).  As do_write   *)
(* asserts this, nothing is written after a rollback behind other data.    *)
(* As accepted messages are whole (Framed), a byte that does not begin a   *)
(* message follows one of its own message, even across a reconnect.        *)
(***************************************************************************)
EXTENDS TcpStream, FiniteSetTheorems, WellFoundedInduction, TLAPS

(* The units of memory in count[c] blocks of each capacity c of s. *)
Units(count, s) == UNION {({c} \X (1..c)) \X (1..count[c]) : c \in s}

(* The assumptions on the capacities, one by one. *)
LEMMA CapsFinite ==
  /\ IsFiniteSet(Caps) /\ Caps # {} /\ Num \in Nat /\ MemLimit \in Nat
  /\ \A c \in Caps : c \in Nat /\ c > 0
  BY BufPoolConstants

(* FS_Product and FS_Union, for sets given by name. *)
LEMMA Products ==
  \A S, T : IsFiniteSet(S) /\ IsFiniteSet(T) =>
            IsFiniteSet(S \X T) /\ Cardinality(S \X T) = Cardinality(S) * Cardinality(T)
  BY FS_Product

(* 1..n has n elements. *)
LEMMA Intervals ==
  \A n \in Nat : IsFiniteSet(1..n) /\ Cardinality(1..n) = n
  BY FS_Interval

(* The size of a union of two sets that have nothing in common. *)
LEMMA Unions ==
  \A S, T : IsFiniteSet(S) /\ IsFiniteSet(T) /\ S \cap T = {} =>
            /\ IsFiniteSet(S \cup T) /\ Cardinality(S \cup T) = Cardinality(S) + Cardinality(T)
            /\ Cardinality(S) \in Nat /\ Cardinality(T) \in Nat
  <1>1. ASSUME NEW S, NEW T, IsFiniteSet(S), IsFiniteSet(T), S \cap T = {}
        PROVE  /\ IsFiniteSet(S \cup T) /\ Cardinality(S \cup T) = Cardinality(S) + Cardinality(T)
               /\ Cardinality(S) \in Nat /\ Cardinality(T) \in Nat
    BY <1>1, FS_Union, FS_EmptySet, FS_CardinalityType, SMTT(30)
  <1>2. QED
    BY <1>1

(* A block of capacity c has c units. *)
LEMMA UnitsOfOneBlock ==
  ASSUME NEW c \in Nat
  PROVE  IsFiniteSet({c} \X (1..c)) /\ Cardinality({c} \X (1..c)) = c
  <1>1. PICK A, B : A = {c} /\ B = 1..c
    OBVIOUS
  <1>2. /\ IsFiniteSet(A) /\ Cardinality(A) = 1
        /\ IsFiniteSet(B) /\ Cardinality(B) = c
    BY <1>1, FS_Singleton, Intervals
  <1>3. IsFiniteSet(A \X B) /\ Cardinality(A \X B) = Cardinality(A) * Cardinality(B)
    BY <1>2, Products
  <1>4. QED
    BY <1>1, <1>2, <1>3

(* n blocks of capacity c have c * n units. *)
LEMMA UnitsOfOne ==
  ASSUME NEW c \in Nat, NEW n \in Nat
  PROVE  LET U == ({c} \X (1..c)) \X (1..n)
         IN  IsFiniteSet(U) /\ Cardinality(U) = c * n
  <1>1. PICK A, B : A = {c} \X (1..c) /\ B = 1..n
    OBVIOUS
  <1>2. /\ IsFiniteSet(A) /\ Cardinality(A) = c
        /\ IsFiniteSet(B) /\ Cardinality(B) = n
    BY <1>1, UnitsOfOneBlock, Intervals
  <1>3. IsFiniteSet(A \X B) /\ Cardinality(A \X B) = Cardinality(A) * Cardinality(B)
    BY <1>2, Products
  <1>4. QED
    BY <1>1, <1>2, <1>3

(* The units of the capacities in s are those of c and those of the others. *)
LEMMA UnitsSplit ==
  ASSUME NEW count \in [Caps -> Nat], NEW s \in SUBSET Caps, NEW c \in s
  PROVE  /\ IsFiniteSet(Units(count, s))
         /\ Cardinality(Units(count, s)) = c * count[c] + Cardinality(Units(count, s \ {c}))
         /\ Cardinality(Units(count, s \ {c})) \in Nat
  <1> DEFINE U(d) == ({d} \X (1..d)) \X (1..count[d])
  <1>1. \A d \in Caps : IsFiniteSet(U(d)) /\ Cardinality(U(d)) = d * count[d]
    BY CapsFinite, UnitsOfOne
  <1>2. ASSUME NEW t \in SUBSET Caps PROVE IsFiniteSet(Units(count, t))
    <2>1. IsFiniteSet(t)
      BY CapsFinite, FS_Subset
    <2>2. IsFiniteSet({U(d) : d \in t})
      <3>1. PICK f : f = [d \in t |-> U(d)]
        OBVIOUS
      <3>2. {U(d) : d \in t} = {f[d] : d \in t} /\ DOMAIN f = t
        BY <3>1
      <3>3. f \in Surjection(t, {U(d) : d \in t})
        BY <3>1, <3>2 DEF Surjection
      <3>4. QED
        BY <2>1, <3>3, FS_Surjection DEF ExistsSurjection
    <2>3. QED
      BY <1>1, <2>2, FS_UNION DEF Units
  <1>3. IsFiniteSet(U(c)) /\ Cardinality(U(c)) = c * count[c]
    BY <1>1
  <1>4. s \ {c} \in SUBSET Caps /\ s \in SUBSET Caps
    OBVIOUS
  <1>5. IsFiniteSet(Units(count, s)) /\ IsFiniteSet(Units(count, s \ {c}))
    BY <1>2, <1>4
  <1>6. Units(count, s) = U(c) \cup Units(count, s \ {c})
    BY DEF Units
  <1>7. U(c) \cap Units(count, s \ {c}) = {}
    BY DEF Units
  <1>8. QED
    BY <1>3, <1>5, <1>6, <1>7, Unions, ZenonT(60)

(* Total is a sum over a set: it is the number of units of the blocks. *)
LEMMA TotalIsUnits ==
  ASSUME NEW count \in [Caps -> Nat]
  PROVE  Total(count) = Cardinality(Units(count, Caps))
  <1> DEFINE G == [s \in SUBSET Caps |-> Cardinality(Units(count, s))]
             ch(s) == CHOOSE x \in s : TRUE
             Rec(f) == f = [s \in SUBSET Caps |->
                              IF s = {} THEN 0
                              ELSE ch(s) * count[ch(s)] + f[s \ {ch(s)}]]
  <1>1. Total(count) = (CHOOSE f : Rec(f))[Caps]
    BY DEF Total, MapThenSumSet, MapThenFoldSet
  <1>2. /\ Rec(G)
        /\ \A s \in SUBSET Caps : G[s] = Cardinality(Units(count, s)) /\ G[s] \in Nat
    <2>1. Cardinality(Units(count, {})) = 0
      <3>1. Units(count, {}) = {}
        BY DEF Units
      <3>2. QED
        BY <3>1, FS_EmptySet
    <2>2. \A s \in SUBSET Caps : s # {} =>
             /\ ch(s) \in s
             /\ Cardinality(Units(count, s))
                  = ch(s) * count[ch(s)] + Cardinality(Units(count, s \ {ch(s)}))
             /\ Cardinality(Units(count, s)) \in Nat
      <3>1. ASSUME NEW s \in SUBSET Caps, s # {}
            PROVE  /\ ch(s) \in s
                   /\ Cardinality(Units(count, s))
                        = ch(s) * count[ch(s)] + Cardinality(Units(count, s \ {ch(s)}))
                   /\ Cardinality(Units(count, s)) \in Nat
        <4>1. ch(s) \in s
          BY <3>1
        <4>2. QED
          BY <4>1, UnitsSplit, FS_CardinalityType
      <3>2. QED
        BY <3>1
    <2> HIDE DEF ch
    <2>3. \A s \in SUBSET Caps : s # {} =>
             G[s] = ch(s) * count[ch(s)] + G[s \ {ch(s)}]
      BY <2>2
    <2>4. G[{}] = 0
      BY <2>1
    <2>5. \A s \in SUBSET Caps : G[s] = Cardinality(Units(count, s)) /\ G[s] \in Nat
      <3>1. \A s \in SUBSET Caps : G[s] = Cardinality(Units(count, s))
        OBVIOUS
      <3>2. \A s \in SUBSET Caps : Cardinality(Units(count, s)) \in Nat
        <4>1. ASSUME NEW s \in SUBSET Caps PROVE Cardinality(Units(count, s)) \in Nat
          <5>1. CASE s = {}
            BY <2>1, <5>1
          <5>2. CASE s # {}
            BY <2>2, <5>2
          <5>3. QED
            BY <5>1, <5>2
        <4>2. QED
          BY <4>1
      <3>3. QED
        BY <3>1, <3>2
    <2>6. \A s \in SUBSET Caps :
             G[s] = IF s = {} THEN 0 ELSE ch(s) * count[ch(s)] + G[s \ {ch(s)}]
      BY <2>3, <2>4
    <2>7. G = [s \in SUBSET Caps |-> G[s]]
      OBVIOUS
    <2> HIDE DEF G
    <2>8. Rec(G)
      BY <2>6, <2>7
    <2>9. QED
      BY <2>5, <2>8
  <1> HIDE DEF G, ch
  <1>3. PICK f : Rec(f) /\ Total(count) = f[Caps]
    <2>1. \E f : Rec(f)
      BY <1>2
    <2>2. QED
      BY <1>1, <2>1
  <1>4. \A s \in SUBSET Caps : f[s] = G[s]
    <2> DEFINE T == {s \in SUBSET Caps : f[s] # G[s]}
    <2>1. SUFFICES ASSUME T # {} PROVE FALSE
      OBVIOUS
    <2>2. IsWellFoundedOn(StrictSubsetOrdering(Caps), SUBSET Caps)
      BY CapsFinite, FS_StrictSubsetOrderingWellFounded, FS_FiniteSubsetsOfFinite
    <2>3. PICK s \in T : \A t \in T : <<t, s>> \notin StrictSubsetOrdering(Caps)
      <3>1. T \subseteq SUBSET Caps
        OBVIOUS
      <3>2. QED
        BY <2>1, <2>2, <3>1, WFMin
    <2>4. s # {}
      BY <1>2, <1>3
    <2>5. ch(s) \in s
      BY <2>4 DEF ch
    <2>6. s \ {ch(s)} \notin T
      <3>1. PICK t : t = s \ {ch(s)}
        OBVIOUS
      <3>2. t \subseteq s /\ t # s /\ s \in SUBSET Caps /\ t \in SUBSET Caps
        BY <2>5, <3>1
      <3>3. <<t, s>> \in StrictSubsetOrdering(Caps)
        BY <3>2 DEF StrictSubsetOrdering
      <3>4. QED
        BY <2>3, <3>1, <3>3
    <2>7. QED
      BY <1>2, <1>3, <2>4, <2>5, <2>6, ZenonT(60)
  <1>5. QED
    BY <1>2, <1>3, <1>4

(* A block more of capacity c, and a block more of every capacity. *)
LEMMA TotalOfMore ==
  ASSUME NEW count \in [Caps -> Nat]
  PROVE  /\ Total(count) \in Nat
         /\ \A c \in Caps : Total([count EXCEPT ![c] = @ + 1]) = Total(count) + c
  <1>1. ASSUME NEW k \in [Caps -> Nat]
        PROVE  /\ IsFiniteSet(Units(k, Caps))
               /\ Total(k) = Cardinality(Units(k, Caps)) /\ Total(k) \in Nat
    <2>1. PICK c : c \in Caps
      BY CapsFinite
    <2>2. IsFiniteSet(Units(k, Caps))
      BY <2>1, UnitsSplit
    <2>3. QED
      BY <2>2, TotalIsUnits, FS_CardinalityType
  <1>2. ASSUME NEW c \in Caps
        PROVE  Total([count EXCEPT ![c] = @ + 1]) = Total(count) + c
    <2>0. [count EXCEPT ![c] = @ + 1] \in [Caps -> Nat]
      OBVIOUS
    <2>1. PICK k \in [Caps -> Nat] : k = [count EXCEPT ![c] = @ + 1]
      BY <2>0
    <2>2. \A d \in Caps : k[d] = IF d = c THEN count[d] + 1 ELSE count[d]
      BY <2>1
    <2>3. PICK S : S = Units(count, Caps)
      OBVIOUS
    <2>4. PICK A, D : A = {c} \X (1..c) /\ D = {count[c] + 1}
      OBVIOUS
    <2>5. PICK T : T = A \X D
      OBVIOUS
    <2>6. IsFiniteSet(T) /\ Cardinality(T) = c
      <3>1. IsFiniteSet(A) /\ Cardinality(A) = c
        BY <2>4, UnitsOfOneBlock, CapsFinite
      <3>2. IsFiniteSet(D) /\ Cardinality(D) = 1
        BY <2>4, FS_Singleton
      <3>3. IsFiniteSet(A \X D) /\ Cardinality(A \X D) = Cardinality(A) * Cardinality(D)
        BY <3>1, <3>2, Products
      <3>4. QED
        BY <2>5, <3>1, <3>2, <3>3, CapsFinite
    <2>7. S \cap T = {}
      BY <2>3, <2>4, <2>5, CapsFinite DEF Units
    <2>8. Units(k, Caps) = S \cup T
      BY <2>2, <2>3, <2>4, <2>5, CapsFinite DEF Units
    <2>9. IsFiniteSet(S) /\ Total(count) = Cardinality(S) /\ Total(k) = Cardinality(S \cup T)
      BY <1>1, <2>3, <2>8
    <2>10. QED
      BY <2>1, <2>6, <2>7, <2>9, Unions
  <1>3. QED
    BY <1>1, <1>2

(* What the pool makes at the start, and what make_io_buf_list counts of it. *)
LEMMA TotalOfOneMore ==
  LET Of(n) == [c \in Caps |-> n]
  IN  Total(Of(Num + 1)) = Total(Of(Num)) + Total(Of(1))
  <1> DEFINE Of(n) == [c \in Caps |-> n]
  <1>1. ASSUME NEW n \in Nat
        PROVE  /\ IsFiniteSet(Units(Of(n), Caps))
               /\ Total(Of(n)) = Cardinality(Units(Of(n), Caps)) /\ Total(Of(n)) \in Nat
    <2>1. PICK c : c \in Caps
      BY CapsFinite
    <2>2. Of(n) \in [Caps -> Nat]
      OBVIOUS
    <2>3. IsFiniteSet(Units(Of(n), Caps))
      BY <2>1, <2>2, UnitsSplit
    <2>4. QED
      BY <2>2, <2>3, TotalIsUnits, FS_CardinalityType
  <1>2. PICK W : W = UNION {{c} \X (1..c) : c \in Caps}
    OBVIOUS
  <1>3. \A n \in Nat : Units(Of(n), Caps) = W \X (1..n)
    BY <1>2 DEF Units
  <1>4. IsFiniteSet(W)
    <2>1. ASSUME NEW c \in Caps PROVE IsFiniteSet({c} \X (1..c))
      BY CapsFinite, UnitsOfOneBlock
    <2>2. IsFiniteSet({{c} \X (1..c) : c \in Caps})
      <3>1. PICK f : f = [c \in Caps |-> {c} \X (1..c)]
        OBVIOUS
      <3>2. f \in Surjection(Caps, {{c} \X (1..c) : c \in Caps})
        BY <3>1 DEF Surjection
      <3>3. QED
        BY <3>2, CapsFinite, FS_Surjection
    <2>3. QED
      BY <1>2, <2>1, <2>2, FS_UNION
  <1>5. ASSUME NEW n \in Nat PROVE Total(Of(n)) = Cardinality(W) * n
    <2>1. PICK D : D = 1..n
      OBVIOUS
    <2>2. IsFiniteSet(D) /\ Cardinality(D) = n
      BY <2>1, FS_Interval
    <2>3. Cardinality(W \X D) = Cardinality(W) * Cardinality(D)
      BY <1>4, <2>2, Products
    <2>4. QED
      BY <1>1, <1>3, <2>1, <2>2, <2>3
  <1>6. /\ Total(Of(Num)) = Cardinality(W) * Num /\ Total(Of(1)) = Cardinality(W) * 1
        /\ Total(Of(Num + 1)) = Cardinality(W) * (Num + 1)
    <2>1. Num \in Nat /\ 1 \in Nat /\ Num + 1 \in Nat
      BY CapsFinite
    <2> HIDE DEF Of
    <2>2. QED
      BY <1>5, <2>1
  <1>7. \A x, y \in Nat : x * (y + 1) = x * y + x * 1
    OBVIOUS
  <1>8. QED
    BY <1>4, <1>6, <1>7, CapsFinite, FS_CardinalityType

-----------------------------------------------------------------------------
(* The pool and its blocks. *)

Byte == Nat \X Nat \X Nat

(* A buffer: NoBlock, or what fits its block. *)
Bufs ==
    {b \in [cap : Nat, head : Nat, data : Seq(Byte)] :
        b = NoBlock \/ (b.cap \in Caps /\ b.head + Len(b.data) <= b.cap)}

Pools == [idle : [Caps -> Nat], made : [Caps -> Nat], _total_mem : Nat]

Ones == [c \in Caps |-> 1]

(* _total_mem counts all blocks but the first of every list. *)
Sized(p) == Total(p.made) = p._total_mem + Total(Ones) /\ p._total_mem < MemLimit

(* Whether b is a block of capacity c. *)
Own(b, c) == IF b.cap = c THEN 1 ELSE 0

(***************************************************************************)
(* A connection that had the block of a has that of b instead, and the     *)
(* pool has gone from p to q: no block was lost or doubled.                *)
(***************************************************************************)
Exchanged(p, a, q, b) ==
    \A c \in Caps : q.idle[c] + Own(b, c) + p.made[c] = p.idle[c] + Own(a, c) + q.made[c]

(* The fields of a buffer. *)
LEMMA BufFields ==
  ASSUME NEW b \in Bufs
  PROVE  /\ b \in [cap : Nat, head : Nat, data : Seq(Byte)]
         /\ b.head \in Nat /\ b.data \in Seq(Byte) /\ Len(b.data) \in Nat
         /\ b.cap \in Caps \cup {0} /\ (b.cap = 0 <=> b = NoBlock)
         /\ b.cap = 0 => b.head = 0 /\ b.data = << >>
         /\ b.cap # 0 => b.head + Len(b.data) <= b.cap
  <1>1. /\ b \in [cap : Nat, head : Nat, data : Seq(Byte)]
        /\ b = NoBlock \/ (b.cap \in Caps /\ b.head + Len(b.data) <= b.cap)
    BY DEF Bufs
  <1>2. 0 \notin Caps
    BY CapsFinite
  <1>3. b = NoBlock => b.cap = 0 /\ b.head = 0 /\ b.data = << >>
    BY DEF NoBlock
  <1>4. b.head \in Nat /\ b.data \in Seq(Byte) /\ Len(b.data) \in Nat
    BY <1>1
  <1>5. QED
    BY <1>1, <1>2, <1>3, <1>4

(* The fields of NoBlock. *)
LEMMA NoBlockFields ==
  /\ NoBlock \in Bufs /\ NoBlock.cap = 0 /\ NoBlock.head = 0 /\ NoBlock.data = << >>
  /\ \A c \in Caps : Own(NoBlock, c) = 0
  <1>1. NoBlock.cap = 0 /\ NoBlock.head = 0 /\ NoBlock.data = << >>
    BY DEF NoBlock
  <1>2. NoBlock \in [cap : Nat, head : Nat, data : Seq(Byte)]
    BY DEF NoBlock
  <1>3. QED
    BY <1>1, <1>2, CapsFinite DEF Bufs, Own

(* The fields of a pool. *)
LEMMA PoolFields ==
  ASSUME NEW p \in Pools
  PROVE  /\ p.idle \in [Caps -> Nat] /\ p.made \in [Caps -> Nat] /\ p._total_mem \in Nat
         /\ \A c \in Caps : p.idle[c] \in Nat /\ p.made[c] \in Nat
  BY DEF Pools

(* MaxCap is the largest capacity. *)
LEMMA LargestCap == MaxCap \in Caps /\ \A c \in Caps : c <= MaxCap
  <1> DEFINE Above(c) == {d \in Caps : d > c}
             T == {Above(c) : c \in Caps}
  <1>1. IsWellFoundedOn(StrictSubsetOrdering(Caps), SUBSET Caps)
    BY CapsFinite, FS_StrictSubsetOrderingWellFounded, FS_FiniteSubsetsOfFinite
  <1>2. PICK s \in T : \A t \in T : <<t, s>> \notin StrictSubsetOrdering(Caps)
    <2>1. T \subseteq SUBSET Caps /\ T # {}
      BY CapsFinite
    <2>2. QED
      BY <1>1, <2>1, WFMin
  <1>3. PICK c \in Caps : s = Above(c)
    OBVIOUS
  <1>4. ASSUME NEW d \in Caps PROVE d <= c
    <2>1. SUFFICES ASSUME d > c PROVE FALSE
      BY CapsFinite
    <2>2. Above(d) \in T /\ Above(d) \subseteq Above(c) /\ Above(d) # Above(c)
      BY <2>1, CapsFinite
    <2>3. <<Above(d), s>> \in StrictSubsetOrdering(Caps)
      BY <1>3, <2>2 DEF StrictSubsetOrdering
    <2>4. QED
      BY <1>2, <2>2, <2>3
  <1>5. \E x \in Caps : \A y \in Caps : x >= y
    BY <1>4, CapsFinite
  <1>6. MaxCap \in Caps /\ \A y \in Caps : MaxCap >= y
    BY <1>5 DEF MaxCap, Max
  <1>7. QED
    BY <1>6, CapsFinite

(* alloc_buf takes the smallest block that is large enough, if there is one. *)
LEMMA CapIsEnough ==
  ASSUME NEW n \in Nat, ~TooLarge(n)
  PROVE  CapFor(n) \in Caps /\ n <= CapFor(n) /\ \A c \in Caps : n <= c => CapFor(n) <= c
  <1>1. MaxCap \in Caps
    BY LargestCap
  <1>2. PICK S : S = {c \in Caps : c >= n}
    OBVIOUS
  <1>3. S # {} /\ S \subseteq Nat
    BY <1>1, <1>2, CapsFinite DEF TooLarge
  <1> DEFINE R == OpToRel(<, Nat)
  <1>4. IsWellFoundedOn(R, Nat)
    BY NatLessThanWellFounded
  <1>5. PICK x \in S : \A y \in S : ~(<<y, x>> \in R)
    BY <1>3, <1>4, WFMin
  <1>6. \A y \in S : ~(y < x)
    BY <1>3, <1>5 DEF OpToRel
  <1>7. \E z \in S : \A y \in S : z =< y
    BY <1>3, <1>6
  <1>8. Min(S) \in S /\ \A y \in S : Min(S) <= y
    BY <1>7 DEF Min
  <1>9. CapFor(n) = Min(S)
    BY <1>2 DEF CapFor
  <1>10. QED
    BY <1>2, <1>8, <1>9, CapsFinite

LEMMA OwnCap ==
  ASSUME NEW c \in Caps
  PROVE  c \in Nat /\ ~TooLarge(c) /\ CapFor(c) = c
  <1>1. c \in Nat /\ MaxCap \in Nat /\ c <= MaxCap
    BY CapsFinite, LargestCap
  <1>2. ~TooLarge(c)
    BY <1>1 DEF TooLarge
  <1>3. CapFor(c) \in Caps /\ c <= CapFor(c) /\ CapFor(c) <= c
    BY <1>1, <1>2, CapIsEnough
  <1>4. \A d \in Caps : c <= d /\ d <= c => d = c
    BY CapsFinite
  <1>5. QED
    BY <1>1, <1>2, <1>3, <1>4, Zenon

(* What alloc_buf does to the pool when it does not exit. *)
LEMMA AllocBufTakes ==
  ASSUME NEW p \in Pools, Sized(p), NEW n \in Nat, ~TooLarge(n), ~Exhausted(p, n)
  PROVE  /\ AllocBuf(p, n) \in Pools /\ Sized(AllocBuf(p, n))
         /\ \A c \in Caps : AllocBuf(p, n).idle[c] + p.made[c] + (IF c = CapFor(n) THEN 1 ELSE 0)
                             = p.idle[c] + AllocBuf(p, n).made[c]
  <1>1. PICK d \in Caps : d = CapFor(n)
    BY CapIsEnough
  <1>2. /\ p.idle \in [Caps -> Nat] /\ p.made \in [Caps -> Nat] /\ p._total_mem \in Nat
        /\ d \in Nat
    BY PoolFields, CapsFinite
  <1>3. CASE p.idle[d] = 0
    <2>1. PICK q : q = AllocBuf(p, n)
      OBVIOUS
    <2>2. q = [p EXCEPT !.made[d] = @ + 1, !._total_mem = @ + d]
      BY <1>1, <1>3, <2>1 DEF AllocBuf
    <2>3. /\ q.idle = p.idle /\ q.made = [p.made EXCEPT ![d] = @ + 1]
          /\ q._total_mem = p._total_mem + d
          /\ q = [idle |-> q.idle, made |-> q.made, _total_mem |-> q._total_mem]
      BY <2>2 DEF Pools
    <2>4. q.made \in [Caps -> Nat]
      BY <1>2, <2>3
    <2>5. q \in Pools
      BY <1>2, <2>3, <2>4 DEF Pools
    <2>6. p._total_mem + d < MemLimit
      BY <1>1, <1>2, <1>3, CapsFinite DEF Exhausted
    <2>7. Total(q.made) = Total(p.made) + d /\ Total(p.made) \in Nat
      BY <1>2, <2>3, TotalOfMore
    <2>8. Ones \in [Caps -> Nat]
      BY DEF Ones
    <2>9. Total(Ones) \in Nat
      BY <2>8, TotalOfMore
    <2>10. Sized(q)
      BY <1>2, <2>3, <2>6, <2>7, <2>9, CapsFinite DEF Sized
    <2>11. \A c \in Caps : q.idle[c] + p.made[c] + (IF c = d THEN 1 ELSE 0)
                             = p.idle[c] + q.made[c]
      BY <1>2, <2>3
    <2>12. QED
      BY <1>1, <2>1, <2>5, <2>10, <2>11
  <1>4. CASE p.idle[d] # 0
    <2>1. PICK q : q = AllocBuf(p, n)
      OBVIOUS
    <2>2. q = [p EXCEPT !.idle[d] = @ - 1]
      BY <1>1, <1>4, <2>1 DEF AllocBuf
    <2>3. /\ q.made = p.made /\ q.idle = [p.idle EXCEPT ![d] = @ - 1]
          /\ q._total_mem = p._total_mem
          /\ q = [idle |-> q.idle, made |-> q.made, _total_mem |-> q._total_mem]
      BY <2>2 DEF Pools
    <2>4. q.idle \in [Caps -> Nat]
      BY <1>2, <1>4, <2>3
    <2>5. q \in Pools
      BY <1>2, <2>3, <2>4 DEF Pools
    <2>6. Sized(q)
      BY <2>3 DEF Sized
    <2>7. \A c \in Caps : q.idle[c] + p.made[c] + (IF c = d THEN 1 ELSE 0)
                             = p.idle[c] + q.made[c]
      BY <1>2, <1>4, <2>3
    <2>8. QED
      BY <1>1, <2>1, <2>5, <2>6, <2>7
  <1>5. QED
    BY <1>3, <1>4

(* revert gives a block back. *)
LEMMA RevertGives ==
  ASSUME NEW p \in Pools, Sized(p), NEW b, b.cap \in Caps \cup {0}, b.cap = 0 <=> b = NoBlock
  PROVE  /\ Revert(p, b) \in Pools /\ Sized(Revert(p, b))
         /\ \A c \in Caps : Revert(p, b).idle[c] = p.idle[c] + Own(b, c)
         /\ Revert(p, b).made = p.made
  <1>1. PICK q : q = Revert(p, b)
    OBVIOUS
  <1>2. p.idle \in [Caps -> Nat] /\ p.made \in [Caps -> Nat] /\ p._total_mem \in Nat
    BY PoolFields
  <1>3. CASE b = NoBlock
    BY <1>2, <1>3, NoBlockFields DEF Revert
  <1>4. CASE b # NoBlock
    <2>1. PICK d \in Caps : d = b.cap
      BY <1>4
    <2>2. q = [p EXCEPT !.idle[d] = @ + 1]
      BY <1>1, <1>4, <2>1 DEF Revert
    <2>3. /\ q.made = p.made /\ q.idle = [p.idle EXCEPT ![d] = @ + 1]
          /\ q._total_mem = p._total_mem
          /\ q = [idle |-> q.idle, made |-> q.made, _total_mem |-> q._total_mem]
      BY <2>2 DEF Pools
    <2>4. q.idle \in [Caps -> Nat]
      BY <1>2, <2>3
    <2>5. q \in Pools
      BY <1>2, <2>3, <2>4 DEF Pools
    <2>6. Sized(q)
      BY <2>3 DEF Sized
    <2>7. \A c \in Caps : q.idle[c] = p.idle[c] + Own(b, c)
      BY <1>2, <2>1, <2>3 DEF Own
    <2>8. QED
      BY <1>1, <2>3, <2>5, <2>6, <2>7
  <1>5. QED
    BY <1>3, <1>4

(* The outcome of making room: a block with the room, or nothing at all. *)
LEMMA ReserveMakesRoom ==
  ASSUME NEW p \in Pools, Sized(p), NEW b \in Bufs, NEW n \in Nat,
         NEW r, r = Reserve(b, p, n)
  PROVE  /\ r.end \in {"ok", "null", "exit", "assert"}
         /\ r.end = "assert" => b.head # 0
         /\ r.end # "ok" => r.buf = b /\ r.pool = p
         /\ r.end = "ok" =>
               /\ b.head = 0 /\ r.buf = [b EXCEPT !.cap = r.buf.cap]
               /\ r.buf.cap \in Caps /\ Len(b.data) + n <= r.buf.cap
               /\ r.pool \in Pools /\ Sized(r.pool) /\ Exchanged(p, b, r.pool, r.buf)
  <1>1. PICK w \in Nat : w = Len(b.data) + n
    BY BufFields
  <1>2. /\ b \in [cap : Nat, head : Nat, data : Seq(Byte)]
        /\ b.cap \in Caps \cup {0} /\ (b.cap = 0 <=> b = NoBlock)
        /\ b.head \in Nat
    BY BufFields
  <1>3. CASE b.head # 0
    <2>1. r = [buf |-> b, pool |-> p, end |-> "assert"]
      BY <1>3 DEF Reserve, Outcome
    <2>2. QED
      BY <1>3, <2>1
  <1>4. CASE b.head = 0 /\ b # NoBlock /\ b.cap >= w
    <2>1. r = [buf |-> b, pool |-> p, end |-> "ok"]
      BY <1>1, <1>4 DEF Reserve, Outcome
    <2>2. Exchanged(p, b, p, b)
      BY DEF Exchanged
    <2>3. b.cap \in Caps /\ w <= b.cap
      BY <1>1, <1>2, <1>4
    <2>4. b = [b EXCEPT !.cap = b.cap]
      BY <1>2
    <2>5. QED
      BY <1>1, <1>4, <2>1, <2>2, <2>3, <2>4
  <1>5. CASE b.head = 0 /\ ~(b # NoBlock /\ b.cap >= w) /\ (TooLarge(w) \/ Exhausted(p, w))
    BY <1>1, <1>5 DEF Reserve, Outcome
  <1>6. CASE b.head = 0 /\ ~(b # NoBlock /\ b.cap >= w) /\ ~TooLarge(w) /\ ~Exhausted(p, w)
    <2>1. PICK d \in Caps : d = CapFor(w) /\ w <= d
      BY <1>6, CapIsEnough
    <2>2. PICK q \in Pools : q = AllocBuf(p, w) /\ Sized(q)
      BY <1>6, AllocBufTakes
    <2>3. \A c \in Caps : q.idle[c] + p.made[c] + (IF c = d THEN 1 ELSE 0)
                            = p.idle[c] + q.made[c]
      BY <1>6, <2>1, <2>2, AllocBufTakes
    <2>4. r = [buf |-> [b EXCEPT !.cap = d], pool |-> Revert(q, b), end |-> "ok"]
      BY <1>1, <1>6, <2>1, <2>2 DEF Reserve, Outcome
    <2>5. PICK z \in Pools : z = Revert(q, b) /\ Sized(z)
      BY <1>2, <2>2, RevertGives
    <2>6. z.made = q.made /\ \A c \in Caps : z.idle[c] = q.idle[c] + Own(b, c)
      BY <1>2, <2>2, <2>5, RevertGives
    <2>7. PICK e : e = [b EXCEPT !.cap = d]
      OBVIOUS
    <2>8. e.cap = d /\ e = [b EXCEPT !.cap = e.cap]
      BY <1>2, <2>7
    <2>9. \A c \in Caps : Own(e, c) = IF c = d THEN 1 ELSE 0
      BY <2>8 DEF Own
    <2>10. Exchanged(p, b, z, e)
      <3>1. ASSUME NEW c \in Caps
            PROVE  z.idle[c] + Own(e, c) + p.made[c] = p.idle[c] + Own(b, c) + z.made[c]
        <4>1. /\ q.idle[c] \in Nat /\ p.idle[c] \in Nat /\ q.made[c] \in Nat
              /\ p.made[c] \in Nat /\ Own(b, c) \in Nat /\ Own(e, c) \in Nat
          BY PoolFields DEF Own
        <4>2. q.idle[c] + p.made[c] + Own(e, c) = p.idle[c] + q.made[c]
          BY <2>3, <2>9
        <4>3. z.idle[c] = q.idle[c] + Own(b, c) /\ z.made[c] = q.made[c]
          BY <2>6
        <4>4. QED
          BY <4>1, <4>2, <4>3
      <3>2. QED
        BY <3>1 DEF Exchanged
    <2>11. r.buf = e /\ r.pool = z /\ r.end = "ok"
      BY <2>4, <2>5, <2>7
    <2>12. e.cap \in Caps /\ Len(b.data) + n <= e.cap
      BY <1>1, <2>1, <2>8
    <2>13. QED
      BY <1>6, <2>5, <2>8, <2>10, <2>11, <2>12
  <1>7. QED
    BY <1>3, <1>4, <1>5, <1>6

(* The bytes of a buffer in another block that is large enough. *)
LEMMA BlockFits ==
  ASSUME NEW b \in Bufs, NEW e, e = [b EXCEPT !.cap = e.cap], e.cap \in Caps,
         b.head = 0, Len(b.data) <= e.cap
  PROVE  e \in Bufs
  <1>1. b \in [cap : Nat, head : Nat, data : Seq(Byte)] /\ Len(b.data) \in Nat
    BY BufFields
  <1>2. e.data = b.data /\ e.head = 0 /\ e \in [cap : Nat, head : Nat, data : Seq(Byte)]
    BY <1>1, CapsFinite
  <1>3. e.head + Len(e.data) <= e.cap
    BY <1>1, <1>2, CapsFinite
  <1>4. QED
    BY <1>2, <1>3 DEF Bufs

(* Bytes behind those of a buffer with room for them. *)
LEMMA ExtendFits ==
  ASSUME NEW b \in Bufs, NEW e, e = [b EXCEPT !.cap = e.cap], e.cap \in Caps,
         NEW s \in Seq(Byte), b.head = 0, Len(b.data) + Len(s) <= e.cap
  PROVE  /\ Extend(e, s) \in Bufs /\ Extend(e, s).cap = e.cap
         /\ Extend(e, s).head = 0 /\ Extend(e, s).data = b.data \o s
         /\ Extend(e, s) # NoBlock
  <1>1. b \in [cap : Nat, head : Nat, data : Seq(Byte)] /\ Len(b.data) \in Nat
    BY BufFields
  <1>2. PICK d \in Seq(Byte) : d = b.data \o s /\ Len(d) = Len(b.data) + Len(s)
    <2>1. \A x, y \in Seq(Byte) : x \o y \in Seq(Byte) /\ Len(x \o y) = Len(x) + Len(y)
      OBVIOUS
    <2>2. b.data \in Seq(Byte)
      BY <1>1
    <2>3. QED
      BY <2>1, <2>2
  <1>3. e.data = b.data /\ e.head = 0 /\ e \in [cap : Nat, head : Nat, data : Seq(Byte)]
    BY <1>1, CapsFinite
  <1>4. PICK x : x = Extend(e, s)
    OBVIOUS
  <1>5. /\ x = [e EXCEPT !.data = d] /\ x.cap = e.cap /\ x.head = 0 /\ x.data = d
        /\ x \in [cap : Nat, head : Nat, data : Seq(Byte)]
    BY <1>2, <1>3, <1>4 DEF Extend
  <1>6. x.head + Len(x.data) <= x.cap
    BY <1>1, <1>2, <1>5, CapsFinite
  <1>7. x \in Bufs
    BY <1>5, <1>6 DEF Bufs
  <1>8. x # NoBlock
    BY <1>5, NoBlockFields, CapsFinite
  <1>9. QED
    BY <1>2, <1>4, <1>5, <1>7, <1>8

(* The outcome of send_data: the bytes are behind the others, or nothing happens. *)
LEMMA SendDataAppends ==
  ASSUME NEW p \in Pools, Sized(p), NEW b \in Bufs, NEW s \in Seq(Byte),
         NEW r, r = SendData(b, p, s)
  PROVE  /\ r.end \in {"ok", "null", "exit", "assert"}
         /\ r.end = "assert" => b.head # 0
         /\ r.end # "ok" => r.buf = b /\ r.pool = p
         /\ r.end = "ok" =>
               /\ b.head = 0 /\ r.buf.head = 0 /\ r.buf.data = b.data \o s
               /\ r.buf \in Bufs /\ r.buf # NoBlock
               /\ r.pool \in Pools /\ Sized(r.pool) /\ Exchanged(p, b, r.pool, r.buf)
  <1>1. PICK n \in Nat : n = Len(s)
    OBVIOUS
  <1>2. PICK t : t = Reserve(b, p, n)
    OBVIOUS
  <1>3. r = IF t.end = "ok" THEN [t EXCEPT !.buf = Extend(@, s)] ELSE t
    BY <1>1, <1>2 DEF SendData
  <1>4. /\ t.end \in {"ok", "null", "exit", "assert"}
        /\ t.end = "assert" => b.head # 0
        /\ t.end # "ok" => t.buf = b /\ t.pool = p
        /\ t.end = "ok" =>
              /\ b.head = 0 /\ t.buf = [b EXCEPT !.cap = t.buf.cap]
              /\ t.buf.cap \in Caps /\ Len(b.data) + n <= t.buf.cap
              /\ t.pool \in Pools /\ Sized(t.pool) /\ Exchanged(p, b, t.pool, t.buf)
    BY <1>2, ReserveMakesRoom
  <1>5. CASE t.end # "ok"
    BY <1>3, <1>4, <1>5
  <1>6. CASE t.end = "ok"
    <2>1. PICK e : e = t.buf
      OBVIOUS
    <2>2. /\ Extend(e, s) \in Bufs /\ Extend(e, s).cap = e.cap
          /\ Extend(e, s).head = 0 /\ Extend(e, s).data = b.data \o s
          /\ Extend(e, s) # NoBlock
      BY <1>1, <1>4, <1>6, <2>1, ExtendFits
    <2>3. t = [buf |-> t.buf, pool |-> t.pool, end |-> t.end]
      BY <1>2 DEF Reserve, Outcome
    <2>4. r.buf = Extend(e, s) /\ r.pool = t.pool /\ r.end = "ok"
      BY <1>3, <1>6, <2>1, <2>3
    <2>5. Exchanged(p, b, r.pool, r.buf)
      BY <1>4, <1>6, <2>1, <2>2, <2>4 DEF Exchanged, Own
    <2>6. QED
      BY <1>4, <1>6, <2>2, <2>4, <2>5
  <1>7. QED
    BY <1>5, <1>6

(* The outcome of pop, when it does not fail. *)
LEMMA PopTakes ==
  ASSUME NEW p \in Pools, Sized(p), NEW b \in Bufs, NEW n \in Nat,
         NEW r, r = Pop(b, p, n)
  PROVE  /\ r.end \in {"ok", "assert"}
         /\ r.end = "ok" <=> b # NoBlock /\ n <= Len(b.data)
         /\ r.end # "ok" => r.buf = b
         /\ r.end = "ok" =>
               /\ r.buf.data = SubSeq(b.data, n + 1, Len(b.data))
               /\ r.buf = NoBlock <=> n = Len(b.data)
               /\ r.buf # NoBlock => r.buf.head = b.head + n
         /\ r.buf \in Bufs
         /\ r.pool \in Pools /\ Sized(r.pool) /\ Exchanged(p, b, r.pool, r.buf)
  <1>1. /\ b \in [cap : Nat, head : Nat, data : Seq(Byte)]
        /\ b.cap \in Caps \cup {0} /\ (b.cap = 0 <=> b = NoBlock)
        /\ b.head \in Nat /\ b.data \in Seq(Byte) /\ Len(b.data) \in Nat
        /\ b.cap # 0 => b.head + Len(b.data) <= b.cap
    BY BufFields
  <1>2. CASE b = NoBlock \/ n > Len(b.data)
    <2>1. r = [buf |-> b, pool |-> p, end |-> "assert"]
      BY <1>2 DEF Pop, Outcome
    <2>2. Exchanged(p, b, p, b)
      BY DEF Exchanged
    <2>3. QED
      BY <1>1, <1>2, <2>1, <2>2
  <1>3. CASE b # NoBlock /\ n <= Len(b.data)
    <2>1. PICK d \in Seq(Byte) : d = SubSeq(b.data, n + 1, Len(b.data)) /\ Len(d) = Len(b.data) - n
      <3>1. \A x \in Seq(Byte) : \A k \in Nat : k <= Len(x) =>
              /\ SubSeq(x, k + 1, Len(x)) \in Seq(Byte)
              /\ Len(SubSeq(x, k + 1, Len(x))) = Len(x) - k
        OBVIOUS
      <3>2. QED
        BY <1>1, <1>3, <3>1
    <2>2. PICK e : e = [b EXCEPT !.head = @ + n, !.data = d]
      OBVIOUS
    <2>3. /\ e \in [cap : Nat, head : Nat, data : Seq(Byte)]
          /\ e.cap = b.cap /\ e.head = b.head + n /\ e.data = d
      <3>1. e = [cap |-> b.cap, head |-> b.head + n, data |-> d]
        BY <1>1, <2>2
      <3>2. b.head + n \in Nat /\ b.cap \in Nat
        BY <1>1
      <3>3. QED
        BY <3>1, <3>2
    <2>4. d = << >> <=> n = Len(b.data)
      <3>1. \A x \in Seq(Byte) : x = << >> <=> Len(x) = 0
        OBVIOUS
      <3>2. \A x \in Nat : x - n = 0 <=> n = x
        OBVIOUS
      <3>3. Len(d) = 0 <=> n = Len(b.data)
        BY <1>1, <2>1, <3>2, Zenon
      <3>4. QED
        BY <3>1, <3>3
    <2>5. CASE d = << >>
      <3>1. r = [buf |-> NoBlock, pool |-> Revert(p, b), end |-> "ok"]
        BY <1>1, <1>3, <2>1, <2>2, <2>3, <2>5 DEF Pop, Outcome
      <3>2. PICK q \in Pools : q = Revert(p, b) /\ Sized(q)
        BY <1>1, RevertGives
      <3>3. q.made = p.made /\ \A c \in Caps : q.idle[c] = p.idle[c] + Own(b, c)
        BY <1>1, <3>2, RevertGives
      <3>4. Exchanged(p, b, q, NoBlock)
        <4>1. ASSUME NEW c \in Caps
              PROVE  q.idle[c] + Own(NoBlock, c) + p.made[c] = p.idle[c] + Own(b, c) + q.made[c]
          <5>1. p.idle[c] \in Nat /\ p.made[c] \in Nat /\ Own(b, c) \in Nat
            BY PoolFields DEF Own
          <5>2. QED
            BY <3>3, <5>1, NoBlockFields
        <4>2. QED
          BY <4>1 DEF Exchanged
      <3>5. r.buf = NoBlock /\ r.pool = q /\ r.end = "ok"
        BY <3>1, <3>2
      <3>6. QED
        BY <1>3, <2>1, <2>4, <2>5, <3>2, <3>4, <3>5, NoBlockFields
    <2>6. CASE d # << >>
      <3>1. r = [buf |-> e, pool |-> p, end |-> "ok"]
        BY <1>1, <1>3, <2>1, <2>2, <2>3, <2>6 DEF Pop, Outcome
      <3>2. e.cap \in Caps /\ e.head + Len(e.data) <= e.cap
        BY <1>1, <1>3, <2>1, <2>3, CapsFinite
      <3>3. e \in Bufs /\ e # NoBlock
        BY <2>3, <3>2, NoBlockFields, CapsFinite DEF Bufs
      <3>4. Exchanged(p, b, p, e)
        BY <2>3 DEF Exchanged, Own
      <3>5. QED
        BY <1>3, <2>1, <2>3, <2>4, <2>6, <3>1, <3>3, <3>4
    <2>7. QED
      BY <2>5, <2>6
  <1>4. QED
    BY <1>1, <1>2, <1>3

-----------------------------------------------------------------------------
(* The invariant. *)

Types ==
    /\ role \in {"tcp_conn", "tcp_client"}
    /\ conn \in {"open", "eof", "closed"}
    /\ wire \in Seq(Byte)
    /\ ibuf \in Bufs /\ obuf \in Bufs
    /\ pool \in Pools /\ Sized(pool)
    /\ at \in {"idle", "parse", "call"} /\ (at # "idle" => conn # "closed")
    /\ msglen \in Nat
    /\ held \in [Caps -> Nat]
    /\ dead \in {"no", "exit", "assert"}
    /\ nin \in Nat /\ nout \in Nat /\ due \in Nat
    /\ out \in Seq(Byte) /\ start \in Nat /\ expect \in Seq(Byte)

(* Accounted in BufPool, for each capacity. *)
BlocksAccounted ==
    \A c \in Caps : pool.idle[c] + held[c] + Own(ibuf, c) + Own(obuf, c) = pool.made[c]

(* Nothing is left of the input of a connection that is closed. *)
ClosedIsEmpty == conn = "closed" => ibuf.data = << >> /\ wire = << >>

(***************************************************************************)
(* do_read and do_write find the bytes at the front of the block, unless a *)
(* head was rolled back, and a callback's body is there to be popped,      *)
(* unless the block is gone.                                               *)
(***************************************************************************)
AtFront ==
    /\ at = "idle" => ibuf.head = 0
    /\ obuf.head # 0 => "rollback" \in events
    /\ at = "call" => msglen <= Len(ibuf.data)
    /\ at = "call" /\ ibuf = NoBlock => "empty body" \in events

(* A byte that does not begin a message continues the one before it. *)
Framed(s) == \A i \in 1..Len(s) : s[i][2] = 1 \/ (i > 1 /\ Inside(s[i - 1]))

(* What was written and what is to be written is what was accepted. *)
OutStream ==
    /\ Framed(expect)
    /\ IsPrefix(out, expect)
    /\ obuf.head = 0 => out \o obuf.data = expect

(* The bytes that were received and not popped. *)
Rest == ibuf.data \o wire

(* Where the message of byte i ends. *)
EndOf(s, i) == i + HeadLen + s[i][3] - s[i][2]

(***************************************************************************)
(* s consists of whole messages, numbered without gaps up to last; of the  *)
(* first one a part may be missing at its front.                           *)
(***************************************************************************)
WholeAt(s, i, last) ==
    /\ s[i][2] \in 1 .. HeadLen + s[i][3]
    /\ EndOf(s, i) <= Len(s)
    /\ \A j \in i .. EndOf(s, i) : s[j] = <<s[i][1], s[i][2] + j - i, s[i][3]>>
    /\ EndOf(s, i) = Len(s) => s[i][1] = last
    /\ EndOf(s, i) < Len(s) =>
          s[EndOf(s, i) + 1][1] = s[i][1] + 1 /\ s[EndOf(s, i) + 1][2] = 1

Whole(s, last) == \A i \in 1..Len(s) : WholeAt(s, i, last)

(* s begins with message n, or is empty and n is still to come. *)
Begins(s, n, last) ==
    IF s = << >> THEN n = last + 1 ELSE s[1][1] = n /\ s[1][2] = 1

(* In a connection that started with an empty buffer. *)
InStream ==
    Open /\ "kept input" \notin events =>
        /\ Whole(Rest, nin)
        /\ IF at = "call" /\ msglen > 0
             THEN Rest # << >> /\ Rest[1] = <<due - 1, HeadLen + 1, msglen>>
             ELSE Begins(Rest, due, nin)

IInv ==
    /\ Types /\ BlocksAccounted /\ ClosedIsEmpty /\ AtFront /\ OutStream /\ InStream
    /\ AssertsOnlyIf /\ DispatchedAsSent

-----------------------------------------------------------------------------
(* Sequences. *)

(* The fields of a byte. *)
LEMMA ByteFields ==
  ASSUME NEW b \in Byte
  PROVE  /\ b[1] \in Nat /\ b[2] \in Nat /\ b[3] \in Nat /\ b = <<b[1], b[2], b[3]>>
  BY DEF Byte

LEMMA ByteParts == \A b \in Byte : \E m, o, l \in Nat : b = <<m, o, l>>
  BY DEF Byte

(* Concatenation, suffixes and prefixes of sequences of bytes. *)
LEMMA Concat ==
  ASSUME NEW x \in Seq(Byte), NEW y \in Seq(Byte)
  PROVE  /\ x \o y \in Seq(Byte) /\ Len(x \o y) = Len(x) + Len(y)
         /\ Len(x) \in Nat /\ Len(y) \in Nat
         /\ \A i \in 1..Len(x) : (x \o y)[i] = x[i]
         /\ \A i \in 1..Len(y) : (x \o y)[Len(x) + i] = y[i]
  OBVIOUS

LEMMA Suffix ==
  ASSUME NEW x \in Seq(Byte), NEW k \in Nat, k <= Len(x)
  PROVE  /\ SubSeq(x, k + 1, Len(x)) \in Seq(Byte)
         /\ Len(SubSeq(x, k + 1, Len(x))) = Len(x) - k
         /\ \A i \in 1 .. Len(x) - k : SubSeq(x, k + 1, Len(x))[i] = x[k + i]
  OBVIOUS

LEMMA Prefix ==
  ASSUME NEW x \in Seq(Byte), NEW k \in Nat, k <= Len(x)
  PROVE  /\ SubSeq(x, 1, k) \in Seq(Byte)
         /\ Len(SubSeq(x, 1, k)) = k
         /\ \A i \in 1 .. k : SubSeq(x, 1, k)[i] = x[i]
  OBVIOUS

LEMMA SameSeq ==
  ASSUME NEW x \in Seq(Byte), NEW y \in Seq(Byte), Len(x) = Len(y),
         \A i \in 1..Len(x) : x[i] = y[i]
  PROVE  x = y
  OBVIOUS

LEMMA Associative ==
  ASSUME NEW x \in Seq(Byte), NEW y \in Seq(Byte), NEW z \in Seq(Byte)
  PROVE  (x \o y) \o z = x \o (y \o z)
  OBVIOUS

LEMMA Divided ==
  ASSUME NEW x \in Seq(Byte), NEW k \in Nat, k <= Len(x)
  PROVE  SubSeq(x, 1, k) \o SubSeq(x, k + 1, Len(x)) = x
  <1>1. PICK a \in Seq(Byte) : a = SubSeq(x, 1, k)
    BY Prefix
  <1>2. PICK b \in Seq(Byte) : b = SubSeq(x, k + 1, Len(x))
    BY Suffix
  <1>3. Len(a) = k /\ Len(b) = Len(x) - k /\ Len(x) \in Nat
    BY <1>1, <1>2, Prefix, Suffix
  <1>4. a \o b \in Seq(Byte) /\ Len(a \o b) = Len(x)
    BY <1>3, Concat
  <1>5. ASSUME NEW i \in 1..Len(x) PROVE (a \o b)[i] = x[i]
    <2>1. CASE i <= k
      BY <1>1, <1>3, <2>1, Prefix, Concat
    <2>2. CASE i > k
      <3>1. PICK j \in 1..Len(b) : i = Len(a) + j
        BY <1>3, <2>2
      <3>2. (a \o b)[i] = b[j]
        BY <3>1, Concat
      <3>3. b[j] = x[k + j]
        BY <1>2, <1>3, Suffix
      <3>4. QED
        BY <1>3, <3>1, <3>2, <3>3
    <2>3. QED
      BY <1>3, <2>1, <2>2
  <1>6. QED
    BY <1>1, <1>2, <1>4, <1>5, SameSeq

LEMMA Empty ==
  /\ << >> \in Seq(Byte) /\ Len(<< >>) = 0
  /\ \A x \in Seq(Byte) : << >> \o x = x /\ x \o << >> = x /\ (x = << >> <=> Len(x) = 0)
  OBVIOUS

LEMMA SuffixOfFirst ==
  ASSUME NEW x \in Seq(Byte), NEW y \in Seq(Byte), NEW k \in Nat, k <= Len(x)
  PROVE  SubSeq(x, k + 1, Len(x)) \o y = SubSeq(x \o y, k + 1, Len(x \o y))
  <1>1. PICK a \in Seq(Byte) : a = SubSeq(x, k + 1, Len(x))
    BY Suffix
  <1>2. PICK z \in Seq(Byte) : z = x \o y
    BY Concat
  <1>3. PICK lx, ly \in Nat : lx = Len(x) /\ ly = Len(y)
    BY Concat
  <1>4. k <= lx /\ Len(a) = lx - k /\ Len(z) = lx + ly /\ k <= Len(z)
    <2>1. k <= lx /\ Len(a) = lx - k /\ Len(z) = lx + ly
      BY <1>1, <1>2, <1>3, Suffix, Concat
    <2>2. QED
      BY <2>1
  <1>5. PICK b \in Seq(Byte) : b = SubSeq(z, k + 1, Len(z))
    BY <1>4, Suffix
  <1>6. Len(b) = lx + ly - k
    BY <1>4, <1>5, Suffix
  <1>7. a \o y \in Seq(Byte) /\ Len(a \o y) = lx + ly - k
    <2>1. a \o y \in Seq(Byte) /\ Len(a \o y) = Len(a) + Len(y)
      BY Concat
    <2>2. QED
      BY <1>3, <1>4, <2>1
  <1>8. ASSUME NEW i \in 1 .. lx + ly - k PROVE (a \o y)[i] = b[i]
    <2>1. b[i] = z[k + i]
      BY <1>4, <1>5, <1>6, Suffix
    <2>2. CASE i <= lx - k
      <3>1. i \in 1..Len(a) /\ k + i \in 1..lx
        BY <1>4, <2>2
      <3>2. (a \o y)[i] = a[i]
        BY <3>1, Concat
      <3>3. a[i] = x[k + i]
        <4>1. i \in 1 .. Len(x) - k
          BY <1>3, <2>2
        <4>2. SubSeq(x, k + 1, Len(x))[i] = x[k + i]
          BY <4>1, Suffix
        <4>3. QED
          BY <1>1, <4>2
      <3>4. z[k + i] = x[k + i]
        BY <1>2, <1>3, <3>1, Concat
      <3>5. QED
        BY <2>1, <3>2, <3>3, <3>4
    <2>3. CASE i > lx - k
      <3>1. PICK j \in 1..ly : i = (lx - k) + j /\ k + i = lx + j
        <4>1. i - (lx - k) \in 1..ly /\ i = (lx - k) + (i - (lx - k)) /\ k + i = lx + (i - (lx - k))
          BY <1>4, <2>3
        <4>2. QED
          BY <4>1
      <3>2. (a \o y)[i] = y[j]
        <4>1. (a \o y)[Len(a) + j] = y[j]
          BY <1>3, Concat
        <4>2. QED
          BY <1>4, <3>1, <4>1
      <3>3. z[k + i] = y[j]
        BY <1>2, <1>3, <3>1, Concat
      <3>4. QED
        BY <2>1, <3>2, <3>3
    <2>4. i <= lx - k \/ i > lx - k
      OBVIOUS
    <2>5. QED
      BY <2>2, <2>3, <2>4
  <1>9. a \o y = b
    BY <1>6, <1>7, <1>8, SameSeq
  <1>10. QED
    BY <1>1, <1>2, <1>5, <1>9

(* What was written is a prefix of what has to be written. *)
LEMMA PrefixOfConcat ==
  ASSUME NEW x \in Seq(Byte), NEW y \in Seq(Byte)
  PROVE  IsPrefix(x, x \o y)
  BY DEF IsPrefix

LEMMA PrefixElements ==
  ASSUME NEW x \in Seq(Byte), NEW z \in Seq(Byte), IsPrefix(x, z)
  PROVE  Len(x) <= Len(z) /\ \A i \in 1..Len(x) : z[i] = x[i]
  BY DEF IsPrefix

(* The bytes of a message. *)
LEMMA BytesAre ==
  ASSUME NEW n \in Nat, NEW len \in Nat
  PROVE  /\ Bytes(n, len) \in Seq(Byte) /\ Len(Bytes(n, len)) = HeadLen + len
         /\ \A i \in 1 .. HeadLen + len : Bytes(n, len)[i] = <<n, i, len>>
         /\ HeadLen \in Nat /\ HeadLen > 0
  <1>1. HeadLen \in Nat /\ HeadLen > 0
    BY TcpStreamConstants
  <1>2. QED
    BY <1>1 DEF Bytes, Byte

(* WholeAt, for a byte <<m, o, l>> whose message ends at e. *)
PartsAt(s, i, last, m, o, l, e) ==
    /\ o \in 1 .. HeadLen + l
    /\ e <= Len(s)
    /\ \A j \in i .. e : s[j] = <<m, o + j - i, l>>
    /\ e = Len(s) => m = last
    /\ e < Len(s) => s[e + 1][1] = m + 1 /\ s[e + 1][2] = 1

(* WholeAt, for a byte whose fields are known. *)
LEMMA WholeAtByte ==
  ASSUME NEW s, NEW i \in Nat, NEW last, NEW m \in Nat, NEW o \in Nat, NEW l \in Nat,
         s[i] = <<m, o, l>>
  PROVE  WholeAt(s, i, last) <=> PartsAt(s, i, last, m, o, l, i + HeadLen + l - o)
  <1>1. s[i][1] = m /\ s[i][2] = o /\ s[i][3] = l
    OBVIOUS
  <1>2. PICK e : e = i + HeadLen + l - o
    OBVIOUS
  <1>3. EndOf(s, i) = e
    BY <1>1, <1>2 DEF EndOf
  <1>4. WholeAt(s, i, last) <=> PartsAt(s, i, last, m, o, l, e)
    BY <1>1, <1>3, Zenon DEF WholeAt, PartsAt
  <1>5. QED
    BY <1>2, <1>4

(* What is left of whole messages after k bytes. *)
LEMMA WholeSuffix ==
  ASSUME NEW s \in Seq(Byte), NEW k \in Nat, k <= Len(s), NEW last \in Nat, Whole(s, last)
  PROVE  Whole(SubSeq(s, k + 1, Len(s)), last)
  <1>0. HeadLen \in Nat /\ HeadLen > 0
    BY TcpStreamConstants
  <1>1. PICK t \in Seq(Byte) : t = SubSeq(s, k + 1, Len(s))
    BY <1>0, Suffix
  <1>2. PICK n \in Nat : n = Len(s)
    BY <1>0
  <1>3. k <= n /\ Len(t) = n - k /\ \A i \in 1 .. n - k : t[i] = s[k + i]
    BY <1>0, <1>1, <1>2, Suffix
  <1>4. ASSUME NEW i \in 1 .. n - k PROVE WholeAt(t, i, last)
    <2>1. PICK h \in 1..n : h = k + i
      BY <1>0, <1>3
    <2>2. t[i] = s[h] /\ s[h] \in Byte
      BY <1>0, <1>2, <1>3, <2>1
    <2>3. PICK m, o, l \in Nat : s[h] = <<m, o, l>>
      BY <2>2, ByteParts
    <2>4. PICK e \in Int : e = h + HeadLen + l - o
      BY <1>0
    <2>5. WholeAt(s, h, last)
      BY <1>0, <1>2, <2>1 DEF Whole
    <2>6a. PartsAt(s, h, last, m, o, l, e) /\ h \in Nat
      <3>1. h \in Nat
        BY <2>1
      <3>2. PartsAt(s, h, last, m, o, l, h + HeadLen + l - o)
        BY <2>3, <2>5, <3>1, WholeAtByte
      <3>3. QED
        BY <2>4, <3>1, <3>2
    <2>6. /\ o \in 1 .. HeadLen + l
          /\ e <= n
          /\ \A j \in h .. e : s[j] = <<m, o + j - h, l>>
          /\ e = n => m = last
          /\ e < n => s[e + 1][1] = m + 1 /\ s[e + 1][2] = 1
      BY <1>2, <2>6a, Zenon DEF PartsAt
    <2>7. h <= e /\ e - k = i + HeadLen + l - o /\ e - k <= n - k
      <3>1. o <= HeadLen + l /\ e <= n
        BY <1>0, <2>6
      <3>2. QED
        BY <1>0, <2>1, <2>4, <3>1
    <2>8. ASSUME NEW j \in i .. e - k PROVE t[j] = <<m, o + j - i, l>>
      <3>1. j \in 1 .. n - k /\ k + j \in h..e
        BY <1>0, <1>3, <2>1, <2>6
      <3>2. s[k + j] = <<m, o + (k + j) - h, l>>
        BY <1>0, <2>6, <3>1
      <3>3. o + (k + j) - h = o + j - i
        BY <1>0, <2>1, <3>1
      <3>4. QED
        BY <1>0, <1>3, <3>1, <3>2, <3>3
    <2>9. e - k = n - k => m = last
      BY <1>0, <2>6
    <2>10. e - k < n - k => t[(e - k) + 1][1] = m + 1 /\ t[(e - k) + 1][2] = 1
      <3>1. SUFFICES ASSUME e - k < n - k
                     PROVE  t[(e - k) + 1][1] = m + 1 /\ t[(e - k) + 1][2] = 1
        BY <1>0
      <3>2. (e - k) + 1 \in 1 .. n - k /\ k + ((e - k) + 1) = e + 1 /\ e < n
        BY <1>0, <1>3, <2>1, <2>7, <3>1
      <3>3. t[(e - k) + 1] = s[k + ((e - k) + 1)]
        BY <1>0, <1>3, <3>2
      <3>4. t[(e - k) + 1] = s[e + 1]
        BY <1>0, <3>2, <3>3
      <3>5. QED
        BY <1>0, <2>6, <3>2, <3>4
    <2>11. PartsAt(t, i, last, m, o, l, e - k)
      BY <1>3, <2>6, <2>7, <2>8, <2>9, <2>10 DEF PartsAt
    <2>12. t[i] = <<m, o, l>> /\ i \in Nat
      BY <2>2, <2>3
    <2>13. PartsAt(t, i, last, m, o, l, i + HeadLen + l - o)
      BY <2>7, <2>11
    <2>14. QED
      BY <2>12, <2>13, WholeAtByte
  <1>5. QED
    BY <1>0, <1>1, <1>3, <1>4 DEF Whole

(* A whole message more. *)
LEMMA WholeAppend ==
  ASSUME NEW s \in Seq(Byte), NEW n \in Nat, NEW len \in Nat, Whole(s, n)
  PROVE  Whole(s \o Bytes(n + 1, len), n + 1)
  <1>0. HeadLen \in Nat /\ HeadLen > 0
    BY TcpStreamConstants
  <1>1. PICK y \in Seq(Byte) : y = Bytes(n + 1, len)
    BY <1>0, BytesAre
  <1>2. PICK ls \in Nat : ls = Len(s)
    BY <1>0
  <1>3. Len(y) = HeadLen + len /\ \A i \in 1 .. HeadLen + len : y[i] = <<n + 1, i, len>>
    <2>1. n + 1 \in Nat
      BY <1>0
    <2>2. QED
      BY <1>0, <1>1, <1>2, <2>1, BytesAre
  <1>4. PICK t \in Seq(Byte) : t = s \o y
    BY <1>0, Concat
  <1>5. /\ Len(t) = ls + (HeadLen + len)
        /\ \A i \in 1..ls : t[i] = s[i]
        /\ \A i \in 1 .. HeadLen + len : t[ls + i] = <<n + 1, i, len>>
    <2>1. /\ Len(t) = Len(s) + Len(y)
          /\ \A i \in 1..Len(s) : t[i] = s[i]
          /\ \A i \in 1..Len(y) : t[Len(s) + i] = y[i]
      BY <1>4, Concat
    <2>2. QED
      BY <1>2, <1>3, <2>1
  <1>6. ASSUME NEW i \in 1 .. ls + (HeadLen + len) PROVE WholeAt(t, i, n + 1)
    <2>1. CASE i <= ls
      <3>1. WholeAt(s, i, n) /\ s[i] \in Byte /\ t[i] = s[i] /\ i \in 1..ls
        BY <1>0, <1>2, <1>5, <2>1 DEF Whole
      <3>2. PICK m, o, l \in Nat : s[i] = <<m, o, l>>
        BY <3>1, ByteParts
      <3>3. PICK e \in Int : e = i + HeadLen + l - o
        BY <1>0
      <3>4a. PartsAt(s, i, n, m, o, l, e)
        <4>1. i \in Nat
          OBVIOUS
        <4>2. PartsAt(s, i, n, m, o, l, i + HeadLen + l - o)
          BY <3>1, <3>2, <4>1, WholeAtByte
        <4>3. QED
          BY <3>3, <4>2
      <3>4. /\ o \in 1 .. HeadLen + l
            /\ e <= ls
            /\ \A j \in i .. e : s[j] = <<m, o + j - i, l>>
            /\ e = ls => m = n
            /\ e < ls => s[e + 1][1] = m + 1 /\ s[e + 1][2] = 1
        BY <1>2, <3>4a, Zenon DEF PartsAt
      <3>5. i <= e /\ e < ls + (HeadLen + len)
        <4>1. o <= HeadLen + l /\ e <= ls
          BY <1>0, <3>4
        <4>2. QED
          BY <1>0, <3>3, <4>1
      <3>6. ASSUME NEW j \in i .. e PROVE t[j] = <<m, o + j - i, l>>
        <4>0. e <= ls
          BY <3>4
        <4>1. j \in 1..ls
          BY <4>0
        <4>2. QED
          BY <1>0, <1>5, <3>4, <4>1
      <3>7. t[e + 1][1] = m + 1 /\ t[e + 1][2] = 1
        <4>1. CASE e = ls
          <5>1. 1 \in 1 .. HeadLen + len
            BY <1>0, <1>2
          <5>2. t[ls + 1] = <<n + 1, 1, len>>
            BY <1>0, <1>5, <5>1
          <5>3. QED
            BY <1>0, <3>4, <4>1, <5>2
        <4>2. CASE e < ls
          <5>1. e + 1 \in 1..ls
            BY <1>0, <3>5, <4>2
          <5>2. QED
            BY <1>0, <1>5, <3>4, <4>2, <5>1
        <4>3. QED
          BY <1>0, <3>4, <4>1, <4>2
      <3>8. QED
        <4>1. e <= Len(t) /\ e # Len(t)
          BY <1>0, <1>5, <3>5
        <4>2. PartsAt(t, i, n + 1, m, o, l, e)
          BY <3>4, <3>6, <3>7, <4>1 DEF PartsAt
        <4>3. PartsAt(t, i, n + 1, m, o, l, i + HeadLen + l - o) /\ i \in Nat
          BY <3>3, <4>2
        <4>4. t[i] = <<m, o, l>>
          BY <3>1, <3>2
        <4>5. QED
          BY <4>3, <4>4, WholeAtByte
    <2>2. CASE i > ls
      <3>1. PICK h \in 1 .. HeadLen + len : i = ls + h
        <4>1. i - ls \in 1 .. HeadLen + len /\ i = ls + (i - ls)
          BY <1>0, <2>2
        <4>2. QED
          BY <1>0, <4>1
      <3>2. t[i] = <<n + 1, h, len>> /\ h \in Nat /\ n + 1 \in Nat
        <4>1. t[ls + h] = <<n + 1, h, len>>
          BY <1>5
        <4>2. h \in Nat /\ n + 1 \in Nat
          BY <1>0
        <4>3. QED
          BY <3>1, <4>1, <4>2
      <3>3. PICK e : e = i + HeadLen + len - h
        BY <1>0
      <3>4. e = ls + (HeadLen + len)
        BY <1>0, <3>1, <3>3
      <3>5. ASSUME NEW j \in i .. e PROVE t[j] = <<n + 1, h + j - i, len>>
        <4>1. j - ls \in 1 .. HeadLen + len /\ j = ls + (j - ls) /\ j - ls = h + j - i
          BY <1>0, <3>1, <3>4
        <4>2. t[ls + (j - ls)] = <<n + 1, j - ls, len>>
          BY <1>0, <1>5, <4>1
        <4>3. QED
          BY <1>0, <4>1, <4>2
      <3>6. e = Len(t) /\ ~(e < Len(t)) /\ e <= Len(t)
        BY <1>0, <1>5, <3>4
      <3>7. QED
        <4>1. PartsAt(t, i, n + 1, n + 1, h, len, e)
          BY <3>5, <3>6 DEF PartsAt
        <4>2. PartsAt(t, i, n + 1, n + 1, h, len, i + HeadLen + len - h) /\ i \in Nat
          BY <3>3, <4>1
        <4>3. QED
          BY <3>2, <4>2, WholeAtByte
    <2>3. QED
      BY <1>0, <2>1, <2>2
  <1>7. QED
    BY <1>0, <1>1, <1>4, <1>5, <1>6 DEF Whole

(* Accepted messages: none, and one more. *)
LEMMA NothingFramed == Framed(<< >>)
  <1>1. 1..Len(<< >>) = {}
    OBVIOUS
  <1>2. QED
    BY <1>1 DEF Framed

LEMMA FramedAppend ==
  ASSUME NEW s \in Seq(Byte), NEW n \in Nat, NEW len \in Nat, Framed(s)
  PROVE  Framed(s \o Bytes(n + 1, len))
  <1>1. HeadLen \in Nat /\ HeadLen > 0
    BY TcpStreamConstants
  <1>2. PICK m \in Nat : m = n + 1
    OBVIOUS
  <1>3. PICK y \in Seq(Byte) : y = Bytes(m, len)
    BY BytesAre
  <1>4. Len(y) = HeadLen + len /\ \A i \in 1 .. HeadLen + len : y[i] = <<m, i, len>>
    BY <1>3, BytesAre
  <1>5. PICK t \in Seq(Byte) : t = s \o y
    BY Concat
  <1>6. PICK ls \in Nat : ls = Len(s)
    OBVIOUS
  <1>7. /\ Len(t) = ls + (HeadLen + len)
        /\ \A i \in 1..ls : t[i] = s[i]
        /\ \A i \in 1 .. HeadLen + len : t[ls + i] = <<m, i, len>>
    <2>1. /\ Len(t) = Len(s) + Len(y)
          /\ \A i \in 1..Len(s) : t[i] = s[i]
          /\ \A i \in 1..Len(y) : t[Len(s) + i] = y[i]
      BY <1>5, Concat
    <2>2. QED
      BY <1>4, <1>6, <2>1
  <1>8. ASSUME NEW i \in 1 .. ls + (HeadLen + len)
        PROVE  t[i][2] = 1 \/ (i > 1 /\ Inside(t[i - 1]))
    <2>1. CASE i <= ls
      <3>1. s[i][2] = 1 \/ (i > 1 /\ Inside(s[i - 1]))
        BY <1>6, <2>1 DEF Framed
      <3>2. t[i] = s[i] /\ (i > 1 => t[i - 1] = s[i - 1])
        BY <1>7, <2>1
      <3>3. QED
        BY <3>1, <3>2
    <2>2. CASE i > ls
      <3>1. PICK h \in 1 .. HeadLen + len : i = ls + h
        <4>1. i - ls \in 1 .. HeadLen + len /\ i = ls + (i - ls)
          BY <1>1, <2>2
        <4>2. QED
          BY <4>1
      <3>2. CASE h = 1
        <4>1. t[i] = <<m, h, len>>
          BY <1>7, <3>1
        <4>2. QED
          BY <3>2, <4>1
      <3>3. CASE h > 1
        <4>1. PICK g \in 1 .. HeadLen + len : h = g + 1
          <5>1. h - 1 \in 1 .. HeadLen + len /\ h = (h - 1) + 1
            BY <1>1, <3>3
          <5>2. QED
            BY <5>1
        <4>2. i - 1 = ls + g /\ i > 1 /\ g < HeadLen + len
          BY <1>1, <3>1, <4>1
        <4>3. t[i - 1] = <<m, g, len>>
          BY <1>7, <4>1, <4>2
        <4>4. QED
          BY <4>2, <4>3 DEF Inside
      <3>4. QED
        BY <3>1, <3>2, <3>3
    <2>3. QED
      BY <2>1, <2>2
  <1>9. QED
    BY <1>2, <1>3, <1>5, <1>7, <1>8 DEF Framed

-----------------------------------------------------------------------------
(* Steps. *)

(* The types of what the steps below use. *)
LEMMA Parts ==
  ASSUME Types
  PROVE  /\ ibuf \in Bufs /\ obuf \in Bufs /\ pool \in Pools /\ Sized(pool)
         /\ ibuf.data \in Seq(Byte) /\ obuf.data \in Seq(Byte) /\ wire \in Seq(Byte)
         /\ ibuf.head \in Nat /\ obuf.head \in Nat
         /\ Rest \in Seq(Byte) /\ nin \in Nat /\ nout \in Nat /\ due \in Nat /\ msglen \in Nat
         /\ HeadLen \in Nat /\ HeadLen > 0
         /\ InLens \subseteq Nat /\ OutLens \subseteq Nat
  <1>1. /\ ibuf \in Bufs /\ obuf \in Bufs /\ pool \in Pools /\ Sized(pool) /\ wire \in Seq(Byte)
        /\ nin \in Nat /\ nout \in Nat /\ due \in Nat /\ msglen \in Nat
    BY DEF Types
  <1>2. /\ ibuf.data \in Seq(Byte) /\ obuf.data \in Seq(Byte)
        /\ ibuf.head \in Nat /\ obuf.head \in Nat
    BY <1>1, BufFields
  <1>3. Rest \in Seq(Byte)
    BY <1>1, <1>2, Concat DEF Rest
  <1>4. QED
    BY <1>1, <1>2, <1>3, TcpStreamConstants

(* adjust moves the bytes to the front of the block. *)
LEMMA AdjustFits ==
  ASSUME NEW b \in Bufs
  PROVE  /\ Adjust(b) \in Bufs /\ Adjust(b).head = 0 /\ Adjust(b).data = b.data
         /\ Adjust(b).cap = b.cap /\ (Adjust(b) = NoBlock <=> b = NoBlock)
  <1>1. /\ b \in [cap : Nat, head : Nat, data : Seq(Byte)] /\ b.head \in Nat
        /\ b.data \in Seq(Byte) /\ Len(b.data) \in Nat
        /\ b.cap \in Caps \cup {0} /\ (b.cap = 0 <=> b = NoBlock)
        /\ b.cap = 0 => b.head = 0 /\ b.data = << >>
        /\ b.cap # 0 => b.head + Len(b.data) <= b.cap
    BY BufFields
  <1>2. PICK e : e = Adjust(b)
    OBVIOUS
  <1>3. /\ e \in [cap : Nat, head : Nat, data : Seq(Byte)]
        /\ e.head = 0 /\ e.data = b.data /\ e.cap = b.cap
    BY <1>1, <1>2 DEF Adjust
  <1>4. CASE b.cap = 0
    <2>1. e = NoBlock
      BY <1>1, <1>2, <1>4 DEF Adjust, NoBlock
    <2>2. QED
      BY <1>1, <1>2, <1>3, <1>4, <2>1, NoBlockFields
  <1>5. CASE b.cap # 0
    <2>1. e.cap \in Caps /\ e.head + Len(e.data) <= e.cap
      BY <1>1, <1>3, <1>5, CapsFinite
    <2>2. e \in Bufs /\ e # NoBlock
      BY <1>3, <1>5, <2>1, NoBlockFields DEF Bufs
    <2>3. QED
      BY <1>1, <1>2, <1>3, <1>5, <2>2
  <1>6. QED
    BY <1>4, <1>5

(* The arithmetic of an exchange. *)
LEMMA SumsAgree ==
  ASSUME NEW i \in Nat, NEW j \in Nat, NEW m \in Nat, NEW n \in Nat,
         NEW h \in Nat, NEW x \in Nat, NEW y \in Nat, NEW o \in Nat,
         j + y + m = i + x + n
  PROVE  /\ i + h + x + o = m => j + h + y + o = n
         /\ i + h + o + x = m => j + h + o + y = n
  OBVIOUS

(* A connection exchanges the block of one of its buffers. *)
LEMMA ExchangeIn ==
  ASSUME Types, BlocksAccounted, pool' \in Pools, Exchanged(pool, ibuf, pool', ibuf'),
         UNCHANGED <<obuf, held>>
  PROVE  BlocksAccounted'
  <1>1. ASSUME NEW c \in Caps
        PROVE  pool'.idle[c] + held[c] + Own(ibuf', c) + Own(obuf, c) = pool'.made[c]
    <2>1. /\ pool.idle[c] \in Nat /\ pool.made[c] \in Nat
          /\ pool'.idle[c] \in Nat /\ pool'.made[c] \in Nat /\ held[c] \in Nat
      BY PoolFields DEF Types
    <2>2. Own(ibuf, c) \in Nat /\ Own(ibuf', c) \in Nat /\ Own(obuf, c) \in Nat
      BY DEF Own
    <2>3. /\ pool.idle[c] + held[c] + Own(ibuf, c) + Own(obuf, c) = pool.made[c]
          /\ pool'.idle[c] + Own(ibuf', c) + pool.made[c]
               = pool.idle[c] + Own(ibuf, c) + pool'.made[c]
      BY DEF BlocksAccounted, Exchanged
    <2>4. QED
      BY <2>1, <2>2, <2>3, SumsAgree
  <1>2. \A c \in Caps : pool'.idle[c] + held'[c] + Own(ibuf', c) + Own(obuf', c) = pool'.made[c]
    BY <1>1
  <1>3. QED
    BY <1>2 DEF BlocksAccounted, Own

(* The same of the output buffer. *)
LEMMA ExchangeOut ==
  ASSUME Types, BlocksAccounted, pool' \in Pools, Exchanged(pool, obuf, pool', obuf'),
         UNCHANGED <<ibuf, held>>
  PROVE  BlocksAccounted'
  <1>1. ASSUME NEW c \in Caps
        PROVE  pool'.idle[c] + held[c] + Own(ibuf, c) + Own(obuf', c) = pool'.made[c]
    <2>1. /\ pool.idle[c] \in Nat /\ pool.made[c] \in Nat
          /\ pool'.idle[c] \in Nat /\ pool'.made[c] \in Nat /\ held[c] \in Nat
      BY PoolFields DEF Types
    <2>2. Own(obuf, c) \in Nat /\ Own(obuf', c) \in Nat /\ Own(ibuf, c) \in Nat
      BY DEF Own
    <2>3. /\ pool.idle[c] + held[c] + Own(ibuf, c) + Own(obuf, c) = pool.made[c]
          /\ pool.idle[c] + held[c] + Own(obuf, c) + Own(ibuf, c)
               = pool.idle[c] + held[c] + Own(ibuf, c) + Own(obuf, c)
          /\ pool'.idle[c] + Own(obuf', c) + pool.made[c]
               = pool.idle[c] + Own(obuf, c) + pool'.made[c]
      BY <2>1, <2>2 DEF BlocksAccounted, Exchanged
    <2>4. pool'.idle[c] + held[c] + Own(obuf', c) + Own(ibuf, c) = pool'.made[c]
      BY <2>1, <2>2, <2>3, SumsAgree
    <2>5. pool'.idle[c] + held[c] + Own(obuf', c) + Own(ibuf, c)
            = pool'.idle[c] + held[c] + Own(ibuf, c) + Own(obuf', c)
      BY <2>1, <2>2
    <2>6. QED
      BY <2>4, <2>5
  <1>2. \A c \in Caps : pool'.idle[c] + held'[c] + Own(ibuf', c) + Own(obuf', c) = pool'.made[c]
    BY <1>1
  <1>3. QED
    BY <1>2 DEF BlocksAccounted, Own

(* A step that does not touch the input. *)
LEMMA SameIn ==
  ASSUME InStream, UNCHANGED <<ibuf, wire, nin, at, msglen, due>>, Open' => Open,
         "kept input" \in events => "kept input" \in events'
  PROVE  InStream'
  <1>1. Rest' = Rest
    BY DEF Rest
  <1>2. QED
    BY <1>1 DEF InStream

(* A step that does not touch the output. *)
LEMMA SameOut ==
  ASSUME OutStream, UNCHANGED <<obuf, out, expect>>
  PROVE  OutStream'
  BY DEF OutStream

(* The steps, one by one. *)
LEMMA PeerSendsIInv ==
  ASSUME IInv, NEW len \in InLens, PeerSends(len)
  PROVE  IInv'
  <1>1. /\ Types /\ BlocksAccounted /\ ClosedIsEmpty /\ AtFront /\ OutStream /\ InStream
        /\ AssertsOnlyIf /\ DispatchedAsSent
    BY DEF IInv
  <1>2. /\ Open /\ conn = "open" /\ wire' = wire \o Bytes(nin + 1, len) /\ nin' = nin + 1
        /\ UNCHANGED <<role, conn, ibuf, obuf, pool, at, msglen, due, armed, out, start, expect,
                       held, dead, nout, closes, events>>
    BY DEF PeerSends, bufVars, readVars, writeVars, Open
  <1>3. PICK y \in Seq(Byte) : y = Bytes(nin + 1, len)
    <2>1. nin + 1 \in Nat /\ len \in Nat
      BY <1>1, Parts
    <2>2. QED
      BY <2>1, BytesAre
  <1>4. Len(y) = HeadLen + len /\ y[1] = <<nin + 1, 1, len>> /\ y # << >>
    <2>1. nin + 1 \in Nat /\ len \in Nat /\ HeadLen \in Nat /\ HeadLen > 0
      BY <1>1, Parts
    <2>2. Len(y) = HeadLen + len /\ y[1] = <<nin + 1, 1, len>>
      <3>1. PICK n \in Nat : n = nin + 1
        BY <2>1
      <3>2. 1 \in 1 .. HeadLen + len
        BY <2>1
      <3>3. QED
        BY <1>3, <2>1, <3>1, <3>2, BytesAre
    <2>3. QED
      BY <2>1, <2>2, Empty
  <1>5. Types'
    <2>1. wire' \in Seq(Byte)
      BY <1>1, <1>2, <1>3, Concat DEF Types
    <2>2. nin' \in Nat
      BY <1>1, <1>2 DEF Types
    <2>3. QED
      BY <1>1, <1>2, <2>1, <2>2 DEF Types
  <1>6. PICK s \in Seq(Byte) : s = Rest
    BY <1>1, Parts
  <1>7. Rest' = s \o y
    <2>1. Rest' = ibuf.data \o (wire \o y)
      BY <1>2, <1>3 DEF Rest
    <2>2. ibuf.data \in Seq(Byte) /\ wire \in Seq(Byte)
      BY <1>1, Parts
    <2>3. (ibuf.data \o wire) \o y = ibuf.data \o (wire \o y)
      BY <2>2, Associative
    <2>4. QED
      BY <1>6, <2>1, <2>3 DEF Rest
  <1>8. InStream'
    <2>1. SUFFICES ASSUME "kept input" \notin events
                   PROVE  /\ Whole(s \o y, nin + 1)
                          /\ IF at = "call" /\ msglen > 0
                               THEN s \o y # << >> /\ (s \o y)[1] = <<due - 1, HeadLen + 1, msglen>>
                               ELSE Begins(s \o y, due, nin + 1)
      BY <1>2, <1>7 DEF InStream
    <2>2. /\ Whole(s, nin)
          /\ IF at = "call" /\ msglen > 0
               THEN s # << >> /\ s[1] = <<due - 1, HeadLen + 1, msglen>>
               ELSE Begins(s, due, nin)
      BY <1>1, <1>2, <1>6, <2>1 DEF InStream
    <2>3. Whole(s \o y, nin + 1)
      BY <1>1, <1>3, <2>2, Parts, WholeAppend
    <2>4. s \o y # << >>
      <3>1. Len(s \o y) = Len(s) + Len(y) /\ Len(s) \in Nat /\ Len(y) \in Nat
            /\ Len(y) # 0 /\ s \o y \in Seq(Byte)
        BY <1>4, Concat, Empty
      <3>2. QED
        BY <3>1, Empty
    <2>5. CASE s = << >>
      <3>1. s \o y = y
        BY <2>5, Empty
      <3>2. QED
        BY <1>4, <2>2, <2>3, <2>5, <3>1 DEF Begins
    <2>6. CASE s # << >>
      <3>1. (s \o y)[1] = s[1]
        <4>1. 1 \in 1..Len(s)
          BY <2>6, Empty
        <4>2. QED
          BY <4>1, Concat
      <3>2. QED
        BY <2>2, <2>3, <2>4, <2>6, <3>1 DEF Begins
    <2>7. QED
      BY <2>5, <2>6
  <1>9. BlocksAccounted' /\ OutStream'
    BY <1>1, <1>2, SameOut DEF BlocksAccounted, Own
  <1>10. ClosedIsEmpty' /\ AtFront' /\ AssertsOnlyIf' /\ DispatchedAsSent'
    BY <1>1, <1>2 DEF ClosedIsEmpty, AtFront, AssertsOnlyIf, DispatchedAsSent
  <1>11. QED
    BY <1>5, <1>8, <1>9, <1>10 DEF IInv

(* Steps of others: the peer closes, a block is taken, a block is returned. *)
LEMMA PeerClosesIInv ==
  ASSUME IInv, PeerCloses
  PROVE  IInv'
  <1>1. /\ Types /\ BlocksAccounted /\ ClosedIsEmpty /\ AtFront /\ OutStream /\ InStream
        /\ AssertsOnlyIf /\ DispatchedAsSent
    BY DEF IInv
  <1>2. /\ Open /\ conn = "open" /\ conn' = "eof"
        /\ UNCHANGED <<role, wire, ibuf, obuf, pool, at, msglen, due, armed, out, start, expect,
                       held, dead, nin, nout, events>>
    BY DEF PeerCloses, bufVars, readVars, writeVars, Open
  <1>3. Types'
    BY <1>1, <1>2 DEF Types
  <1>4. InStream' /\ OutStream'
    BY <1>1, <1>2, SameIn, SameOut
  <1>5. BlocksAccounted'
    BY <1>1, <1>2 DEF BlocksAccounted, Own
  <1>6. ClosedIsEmpty' /\ AtFront' /\ AssertsOnlyIf' /\ DispatchedAsSent'
    BY <1>1, <1>2 DEF ClosedIsEmpty, AtFront, AssertsOnlyIf, DispatchedAsSent
  <1>7. QED
    BY <1>3, <1>4, <1>5, <1>6 DEF IInv

(* Other connections take and give back blocks. *)
LEMMA OtherTakesIInv ==
  ASSUME IInv, NEW c \in Caps, OtherTakes(c)
  PROVE  IInv'
  <1>1. /\ Types /\ BlocksAccounted /\ ClosedIsEmpty /\ AtFront /\ OutStream /\ InStream
        /\ AssertsOnlyIf /\ DispatchedAsSent
    BY DEF IInv
  <1>2. /\ dead = "no"
        /\ UNCHANGED <<role, conn, wire, ibuf, obuf, at, msglen, due, armed, out, start, expect,
                       nin, nout, closes, events>>
    BY DEF OtherTakes, readVars, writeVars, bounds, Running
  <1>3. ClosedIsEmpty' /\ AtFront' /\ DispatchedAsSent'
    BY <1>1, <1>2 DEF ClosedIsEmpty, AtFront, DispatchedAsSent
  <1>4. Open' => Open
    BY <1>2 DEF Open, Running
  <1>5. InStream' /\ OutStream'
    BY <1>1, <1>2, <1>4, SameIn, SameOut
  <1>6. CASE Exhausted(pool, c)
    <2>1. dead' = "exit" /\ UNCHANGED <<pool, held>>
      BY <1>6 DEF OtherTakes
    <2>2. Types'
      BY <1>1, <1>2, <2>1 DEF Types
    <2>3. BlocksAccounted'
      BY <1>1, <1>2, <2>1 DEF BlocksAccounted, Own
    <2>4. AssertsOnlyIf'
      BY <2>1 DEF AssertsOnlyIf
    <2>5. QED
      BY <1>3, <1>5, <2>2, <2>3, <2>4 DEF IInv
  <1>7. CASE ~Exhausted(pool, c)
    <2>1. pool' = AllocBuf(pool, c) /\ held' = [held EXCEPT ![c] = @ + 1] /\ dead' = dead
      BY <1>7 DEF OtherTakes
    <2>2. /\ pool' \in Pools /\ Sized(pool)'
          /\ \A d \in Caps : pool'.idle[d] + pool.made[d] + (IF d = c THEN 1 ELSE 0)
                               = pool.idle[d] + pool'.made[d]
      <3>1. c \in Nat /\ ~TooLarge(c) /\ CapFor(c) = c
        BY OwnCap
      <3>2. PICK q : q = AllocBuf(pool, c)
        OBVIOUS
      <3>3. q \in Pools /\ Sized(q)
            /\ \A d \in Caps : q.idle[d] + pool.made[d] + (IF d = c THEN 1 ELSE 0)
                               = pool.idle[d] + q.made[d]
        BY <1>1, <1>7, <3>1, <3>2, AllocBufTakes, Parts
      <3>4. Sized(q) => Sized(pool)'
        BY <2>1, <3>2 DEF Sized
      <3>5. QED
        BY <2>1, <3>2, <3>3, <3>4
    <2>3. held' \in [Caps -> Nat]
      BY <1>1, <2>1 DEF Types
    <2>4. Types'
      BY <1>1, <1>2, <2>1, <2>2, <2>3 DEF Types
    <2>5. BlocksAccounted'
      <3>1. ASSUME NEW d \in Caps
            PROVE  pool'.idle[d] + held'[d] + Own(ibuf, d) + Own(obuf, d) = pool'.made[d]
        <4>1. /\ pool.idle[d] \in Nat /\ pool.made[d] \in Nat
              /\ pool'.idle[d] \in Nat /\ pool'.made[d] \in Nat /\ held[d] \in Nat
          BY <1>1, <2>2, PoolFields DEF Types
        <4>2. Own(ibuf, d) \in Nat /\ Own(obuf, d) \in Nat
          BY DEF Own
        <4>3. held'[d] = held[d] + (IF d = c THEN 1 ELSE 0)
          BY <1>1, <2>1, <4>1 DEF Types
        <4>4. pool.idle[d] + held[d] + Own(ibuf, d) + Own(obuf, d) = pool.made[d]
          BY <1>1 DEF BlocksAccounted
        <4>5. QED
          BY <2>2, <4>1, <4>2, <4>3, <4>4
      <3>2. QED
        BY <1>2, <3>1 DEF BlocksAccounted, Own
    <2>6. AssertsOnlyIf'
      BY <1>1, <1>2, <2>1 DEF AssertsOnlyIf
    <2>7. QED
      BY <1>3, <1>5, <2>4, <2>5, <2>6 DEF IInv
  <1>8. QED
    BY <1>6, <1>7

LEMMA OtherReturnsIInv ==
  ASSUME IInv, NEW c \in Caps, OtherReturns(c)
  PROVE  IInv'
  <1>1. /\ Types /\ BlocksAccounted /\ ClosedIsEmpty /\ AtFront /\ OutStream /\ InStream
        /\ AssertsOnlyIf /\ DispatchedAsSent
    BY DEF IInv
  <1>2. /\ dead = "no" /\ held[c] > 0
        /\ UNCHANGED <<role, conn, wire, ibuf, obuf, at, msglen, due, armed, out, start, expect,
                       nin, nout, closes, dead, events>>
    BY DEF OtherReturns, readVars, writeVars, bounds, Running
  <1>3. ClosedIsEmpty' /\ AtFront' /\ DispatchedAsSent' /\ AssertsOnlyIf'
    BY <1>1, <1>2 DEF ClosedIsEmpty, AtFront, DispatchedAsSent, AssertsOnlyIf
  <1>4. Open' => Open
    BY <1>2 DEF Open, Running
  <1>5. InStream' /\ OutStream'
    BY <1>1, <1>2, <1>4, SameIn, SameOut
  <1>6. PICK b : b = [NoBlock EXCEPT !.cap = c]
    OBVIOUS
  <1>7. b.cap = c /\ c # 0 /\ b # NoBlock
    BY <1>6, CapsFinite DEF NoBlock
  <1>8. pool' = Revert(pool, b) /\ held' = [held EXCEPT ![c] = @ - 1]
    BY <1>6 DEF OtherReturns
  <1>9. /\ pool' \in Pools /\ Sized(Revert(pool, b)) /\ pool'.made = pool.made
        /\ \A d \in Caps : pool'.idle[d] = pool.idle[d] + (IF d = c THEN 1 ELSE 0)
    BY <1>1, <1>7, <1>8, RevertGives, Parts DEF Own
  <1>10. Sized(pool)'
    BY <1>8, <1>9 DEF Sized
  <1>11. held' \in [Caps -> Nat]
    BY <1>1, <1>2, <1>8 DEF Types
  <1>12. Types'
    BY <1>1, <1>2, <1>9, <1>10, <1>11 DEF Types
  <1>13. BlocksAccounted'
    <2>1. ASSUME NEW d \in Caps
          PROVE  pool'.idle[d] + held'[d] + Own(ibuf, d) + Own(obuf, d) = pool'.made[d]
      <3>1. /\ pool.idle[d] \in Nat /\ pool.made[d] \in Nat /\ held[d] \in Nat
        BY <1>1, PoolFields DEF Types
      <3>2. Own(ibuf, d) \in Nat /\ Own(obuf, d) \in Nat
        BY DEF Own
      <3>3. held'[d] = held[d] - (IF d = c THEN 1 ELSE 0)
        BY <1>1, <1>8, <3>1 DEF Types
      <3>4. pool.idle[d] + held[d] + Own(ibuf, d) + Own(obuf, d) = pool.made[d]
        BY <1>1 DEF BlocksAccounted
      <3>5. QED
        BY <1>9, <3>1, <3>2, <3>3, <3>4
    <2>2. QED
      BY <1>2, <2>1 DEF BlocksAccounted, Own
  <1>14. QED
    BY <1>3, <1>5, <1>12, <1>13 DEF IInv

(* A new connection starts with nothing left of the old one. *)
LEMMA AcceptedIInv ==
  ASSUME IInv, Accepted
  PROVE  IInv'
  <1>1. /\ Types /\ BlocksAccounted /\ ClosedIsEmpty /\ AtFront /\ OutStream /\ InStream
        /\ AssertsOnlyIf /\ DispatchedAsSent
    BY DEF IInv
  <1>2. /\ conn = "closed" /\ conn' = "open" /\ due' = nin + 1 /\ at = "idle"
        /\ UNCHANGED <<role, wire, ibuf, obuf, pool, armed, out, start, expect, at, msglen, held,
                       dead, nin, nout, closes, events>>
    BY <1>1 DEF Accepted, bufVars, writeVars, bounds, Types
  <1>3. Types'
    <2>1. due' \in Nat
      BY <1>1, <1>2 DEF Types
    <2>2. QED
      BY <1>1, <1>2, <2>1 DEF Types
  <1>4. Rest' = << >>
    BY <1>1, <1>2, Empty DEF Rest, ClosedIsEmpty
  <1>5. Whole(<< >>, nin)
    BY Empty DEF Whole
  <1>6. InStream'
    BY <1>2, <1>4, <1>5 DEF InStream, Begins
  <1>7. BlocksAccounted' /\ OutStream'
    BY <1>1, <1>2, SameOut DEF BlocksAccounted, Own
  <1>8. ClosedIsEmpty' /\ AtFront' /\ DispatchedAsSent' /\ AssertsOnlyIf'
    BY <1>1, <1>2 DEF ClosedIsEmpty, AtFront, DispatchedAsSent, AssertsOnlyIf
  <1>9. QED
    BY <1>3, <1>6, <1>7, <1>8 DEF IInv

(***************************************************************************)
(* clean_conn, called with the input buffer in and the pool p.             *)
(***************************************************************************)
LEMMA CleanConnIInv ==
  ASSUME IInv, NEW in \in Bufs, NEW p \in Pools, Sized(p),
         Exchanged(pool, ibuf, p, in), CleanConn(in, p),
         UNCHANGED <<role, msglen, held, dead, nin, nout, closes>>
  PROVE  IInv'
  <1>1. /\ Types /\ BlocksAccounted /\ ClosedIsEmpty /\ AtFront /\ OutStream /\ InStream
        /\ AssertsOnlyIf /\ DispatchedAsSent
    BY DEF IInv
  <1>2. ASSUME NEW c \in Caps
        PROVE  /\ p.idle[c] \in Nat /\ p.made[c] \in Nat /\ held[c] \in Nat
               /\ Own(in, c) \in Nat /\ Own(obuf, c) \in Nat
               /\ p.idle[c] + held[c] + Own(in, c) + Own(obuf, c) = p.made[c]
    <2>1. /\ pool.idle[c] \in Nat /\ pool.made[c] \in Nat
          /\ p.idle[c] \in Nat /\ p.made[c] \in Nat /\ held[c] \in Nat
      BY <1>1, PoolFields DEF Types
    <2>2. Own(ibuf, c) \in Nat /\ Own(in, c) \in Nat /\ Own(obuf, c) \in Nat
      BY DEF Own
    <2>3. /\ pool.idle[c] + held[c] + Own(ibuf, c) + Own(obuf, c) = pool.made[c]
          /\ p.idle[c] + Own(in, c) + pool.made[c] = pool.idle[c] + Own(ibuf, c) + p.made[c]
      BY <1>1 DEF BlocksAccounted, Exchanged
    <2>4. QED
      BY <2>1, <2>2, <2>3, SumsAgree
  <1>3. CASE role = "tcp_conn"
    <2>1. /\ conn' = "closed" /\ ibuf' = NoBlock /\ obuf' = NoBlock
          /\ pool' = Revert(Revert(p, in), obuf)
          /\ at' = "idle" /\ wire' = << >> /\ out' = << >> /\ start' = 0 /\ expect' = << >>
          /\ UNCHANGED <<due, events>>
      BY <1>3 DEF CleanConn
    <2>2. PICK q \in Pools : /\ q = Revert(p, in) /\ Sized(q) /\ q.made = p.made
                             /\ \A c \in Caps : q.idle[c] = p.idle[c] + Own(in, c)
      BY RevertGives, BufFields
    <2>3. PICK z \in Pools : /\ z = Revert(q, obuf) /\ Sized(z) /\ z.made = q.made
                             /\ \A c \in Caps : z.idle[c] = q.idle[c] + Own(obuf, c)
      BY <1>1, <2>2, RevertGives, BufFields, Parts
    <2>4. pool' = z
      BY <2>1, <2>2, <2>3
    <2>5. Sized(pool)'
      BY <2>3, <2>4 DEF Sized
    <2>6. Types'
      BY <1>1, <2>1, <2>4, <2>5, NoBlockFields, Empty DEF Types
    <2>7. BlocksAccounted'
      <3>1. ASSUME NEW c \in Caps
            PROVE  z.idle[c] + held[c] + Own(NoBlock, c) + Own(NoBlock, c) = z.made[c]
        <4>1. /\ z.idle[c] = p.idle[c] + Own(in, c) + Own(obuf, c) /\ z.made[c] = p.made[c]
              /\ Own(NoBlock, c) = 0
          BY <2>2, <2>3, NoBlockFields
        <4>2. QED
          BY <1>2, <4>1
      <3>2. QED
        BY <2>1, <2>4, <3>1 DEF BlocksAccounted, Own
    <2>8. ClosedIsEmpty' /\ AtFront'
      BY <2>1, NoBlockFields DEF ClosedIsEmpty, AtFront
    <2>9. OutStream'
      <3>1. IsPrefix(<< >>, << >>) /\ << >> \o << >> = << >> /\ Framed(<< >>)
        BY Empty, PrefixOfConcat, NothingFramed
      <3>2. QED
        BY <2>1, <3>1, NoBlockFields DEF OutStream
    <2>10. InStream'
      BY <2>1 DEF InStream, Open
    <2>11. AssertsOnlyIf' /\ DispatchedAsSent'
      BY <1>1, <2>1 DEF AssertsOnlyIf, DispatchedAsSent
    <2>12. QED
      BY <2>6, <2>7, <2>8, <2>9, <2>10, <2>11 DEF IInv
  <1>4. CASE role = "tcp_client"
    <2>1. /\ conn' = "open" /\ ibuf' = Adjust(in) /\ pool' = p /\ obuf' = obuf
          /\ at' = "idle" /\ wire' = << >>
          /\ due' = nin + 1 /\ start' = Len(out) /\ UNCHANGED <<out, expect>>
          /\ events' = events \cup (IF in.data = << >> THEN {} ELSE {"kept input"})
      BY <1>4 DEF CleanConn
    <2>2. /\ ibuf' \in Bufs /\ ibuf'.head = 0 /\ ibuf'.data = in.data
          /\ ibuf'.cap = in.cap
      BY <2>1, AdjustFits
    <2>3. Sized(pool)'
      BY <2>1 DEF Sized
    <2>4. due' \in Nat /\ start' \in Nat
      <3>1. nin \in Nat /\ out \in Seq(Byte)
        BY <1>1 DEF Types
      <3>2. nin + 1 \in Nat /\ Len(out) \in Nat
        BY <3>1
      <3>3. QED
        BY <2>1, <3>2, Zenon
    <2>5. Types'
      BY <1>1, <2>1, <2>2, <2>3, <2>4, Empty DEF Types
    <2>6. BlocksAccounted'
      <3>1. \A c \in Caps : p.idle[c] + held[c] + Own(ibuf', c) + Own(obuf, c) = p.made[c]
        BY <1>2, <2>2 DEF Own
      <3>2. QED
        BY <2>1, <3>1 DEF BlocksAccounted, Own
    <2>7. ClosedIsEmpty' /\ AtFront'
      BY <1>1, <2>1, <2>2 DEF ClosedIsEmpty, AtFront
    <2>8. OutStream'
      BY <1>1, <2>1, SameOut
    <2>9. InStream'
      <3>1. SUFFICES ASSUME "kept input" \notin events'
                     PROVE  Whole(Rest', nin') /\ Begins(Rest', due', nin')
        BY <2>1 DEF InStream
      <3>2. in.data = << >>
        BY <2>1, <3>1
      <3>3. Rest' = << >>
        BY <2>1, <2>2, <3>2, Empty DEF Rest
      <3>4. \A n : Whole(<< >>, n)
        BY Empty DEF Whole
      <3>5. Begins(<< >>, due', nin')
        BY <2>1 DEF Begins
      <3>6. QED
        BY <3>3, <3>4, <3>5
    <2>10. AssertsOnlyIf' /\ DispatchedAsSent'
      BY <1>1, <2>1 DEF AssertsOnlyIf, DispatchedAsSent
    <2>11. QED
      BY <2>5, <2>6, <2>7, <2>8, <2>9, <2>10 DEF IInv
  <1>5. QED
    BY <1>1, <1>3, <1>4 DEF Types

(* A counter stays a number. *)
LEMMA NextNat == \A n \in Nat : n + 1 \in Nat
  OBVIOUS

(* The process ends. *)
LEMMA DeadIInv ==
  ASSUME IInv, dead' \in {"exit", "assert"},
         dead' = "assert" => events \cap {"empty body", "rollback"} # {},
         nout' \in {nout, nout + 1},
         UNCHANGED <<role, conn, wire, ibuf, obuf, pool, at, msglen, due, out, start, expect, held, nin,
                     events>>
  PROVE  IInv'
  <1>1. /\ Types /\ BlocksAccounted /\ ClosedIsEmpty /\ AtFront /\ OutStream /\ InStream
        /\ AssertsOnlyIf /\ DispatchedAsSent
    BY DEF IInv
  <1>2. Types'
    <2>1. nout' \in Nat
      <3>1. nout \in Nat
        BY <1>1, Parts
      <3>2. QED
        BY <3>1, NextNat, Zenon
    <2>2. QED
      BY <1>1, <2>1 DEF Types
  <1>3. InStream'
    BY DEF InStream, Open, Running
  <1>4. BlocksAccounted' /\ OutStream'
    BY <1>1, SameOut DEF BlocksAccounted, Own
  <1>5. ClosedIsEmpty' /\ AtFront' /\ AssertsOnlyIf' /\ DispatchedAsSent'
    BY <1>1 DEF ClosedIsEmpty, AtFront, AssertsOnlyIf, DispatchedAsSent
  <1>6. QED
    BY <1>2, <1>3, <1>4, <1>5 DEF IInv

(* Nothing exchanged is an exchange, too. *)
LEMMA SamePool ==
  ASSUME NEW p, NEW b
  PROVE  Exchanged(p, b, p, b)
  BY DEF Exchanged

(* do_read moves bytes from the wire to the buffer: Rest stays the same. *)
LEMMA DoReadIInv ==
  ASSUME IInv, NEW k \in 1..Len(wire), DoRead(k)
  PROVE  IInv'
  <1>1. /\ Types /\ BlocksAccounted /\ ClosedIsEmpty /\ AtFront /\ OutStream /\ InStream
        /\ AssertsOnlyIf /\ DispatchedAsSent
    BY DEF IInv
  <1>2. Open /\ at = "idle" /\ UNCHANGED <<role, msglen, held, nin, nout, closes>>
    BY DEF DoRead, bounds
  <1>3. k \in Nat /\ k <= Len(wire) /\ Len(wire) \in Nat
    BY <1>1, Parts
  <1>4. PICK r : r = Reserve(ibuf, pool, k)
    OBVIOUS
  <1>5. /\ r.end \in {"ok", "null", "exit", "assert"}
        /\ r.end = "assert" => ibuf.head # 0
        /\ r.end = "ok" =>
              /\ ibuf.head = 0 /\ r.buf = [ibuf EXCEPT !.cap = r.buf.cap]
              /\ r.buf.cap \in Caps /\ Len(ibuf.data) + k <= r.buf.cap
              /\ r.pool \in Pools /\ Sized(r.pool) /\ Exchanged(pool, ibuf, r.pool, r.buf)
    BY <1>1, <1>3, <1>4, ReserveMakesRoom, Parts
  <1>6. CASE r.end = "ok"
    <2>1. /\ ibuf' = Extend(r.buf, SubSeq(wire, 1, k)) /\ pool' = r.pool
          /\ wire' = SubSeq(wire, k + 1, Len(wire)) /\ at' = "parse"
          /\ UNCHANGED <<conn, obuf, due, armed, out, start, expect, events, dead>>
      BY <1>4, <1>6 DEF DoRead, writeVars
    <2>2. PICK x \in Seq(Byte) : x = SubSeq(wire, 1, k) /\ Len(x) = k
      BY <1>1, <1>3, Prefix, Parts
    <2>3. PICK e : e = r.buf
      OBVIOUS
    <2>4. /\ ibuf' \in Bufs /\ ibuf'.cap = e.cap /\ ibuf'.head = 0
          /\ ibuf'.data = ibuf.data \o x /\ ibuf' # NoBlock
      <3>1. ibuf \in Bufs
        BY <1>1, Parts
      <3>2. /\ e = [ibuf EXCEPT !.cap = e.cap] /\ e.cap \in Caps /\ ibuf.head = 0
            /\ Len(ibuf.data) + Len(x) <= e.cap
        BY <1>5, <1>6, <2>2, <2>3
      <3>3. /\ Extend(e, x) \in Bufs /\ Extend(e, x).cap = e.cap /\ Extend(e, x).head = 0
            /\ Extend(e, x).data = ibuf.data \o x /\ Extend(e, x) # NoBlock
        BY <3>1, <3>2, ExtendFits
      <3>4. QED
        BY <2>1, <2>2, <2>3, <3>3
    <2>5. wire' \in Seq(Byte)
      BY <1>1, <1>3, <2>1, Suffix, Parts
    <2>6. Sized(pool)' /\ pool' \in Pools
      BY <1>5, <1>6, <2>1 DEF Sized
    <2>7. Types'
      <3>1. at' \in {"idle", "parse", "call"} /\ conn # "closed"
        BY <1>2, <2>1 DEF Open
      <3>2. QED
        BY <1>1, <1>2, <2>1, <2>4, <2>5, <2>6, <3>1 DEF Types
    <2>8. Exchanged(pool, ibuf, pool', ibuf')
      BY <1>5, <1>6, <2>1, <2>3, <2>4 DEF Exchanged, Own
    <2>9. BlocksAccounted'
      BY <1>1, <1>2, <2>1, <2>6, <2>8, ExchangeIn
    <2>10. Rest' = Rest
      <3>1. ibuf.data \in Seq(Byte) /\ wire \in Seq(Byte)
        BY <1>1, Parts
      <3>2. x \o wire' = wire
        BY <1>3, <2>1, <2>2, <3>1, Divided
      <3>3. (ibuf.data \o x) \o wire' = ibuf.data \o (x \o wire')
        BY <2>5, <3>1, Associative, ZenonT(60)
      <3>4. QED
        BY <2>4, <3>2, <3>3 DEF Rest
    <2>11. InStream'
      <3>1. Open' => Open
        BY <1>2
      <3>2. QED
        BY <1>1, <1>2, <2>1, <2>10, <3>1 DEF InStream
    <2>12. OutStream'
      BY <1>1, <2>1, SameOut
    <2>13. ClosedIsEmpty' /\ AtFront' /\ AssertsOnlyIf' /\ DispatchedAsSent'
      BY <1>1, <1>2, <2>1 DEF ClosedIsEmpty, AtFront, AssertsOnlyIf, DispatchedAsSent, Open
    <2>14. QED
      BY <2>7, <2>9, <2>11, <2>12, <2>13 DEF IInv
  <1>7. CASE r.end = "null"
    <2>1. CleanConn(ibuf, pool) /\ dead' = dead
      BY <1>4, <1>7 DEF DoRead
    <2>2. QED
      BY <1>1, <1>2, <2>1, CleanConnIInv, SamePool, Parts
  <1>8. CASE r.end \in {"exit", "assert"}
    <2>1. /\ dead' = r.end
          /\ UNCHANGED <<conn, wire, ibuf, obuf, pool, at, due, armed, out, start, expect, events>>
      BY <1>4, <1>8 DEF DoRead, bufVars, writeVars
    <2>2. dead' # "assert"
      BY <1>1, <1>2, <1>5, <2>1 DEF AtFront
    <2>3. QED
      BY <1>2, <1>8, <2>1, <2>2, DeadIInv
  <1>9. QED
    BY <1>5, <1>6, <1>7, <1>8

(* At the end of the stream, clean_conn gets a buffer that may have a new block. *)
LEMMA DoReadEofIInv ==
  ASSUME IInv, DoReadEof
  PROVE  IInv'
  <1>1. /\ Types /\ BlocksAccounted /\ ClosedIsEmpty /\ AtFront /\ OutStream /\ InStream
        /\ AssertsOnlyIf /\ DispatchedAsSent
    BY DEF IInv
  <1>2. Open /\ at = "idle" /\ UNCHANGED <<role, msglen, held, nin, nout, closes>>
    BY DEF DoReadEof, bounds
  <1>2a. PICK k \in Nat : k = 0
    OBVIOUS
  <1>3. PICK r : r = Reserve(ibuf, pool, k)
    OBVIOUS
  <1>4. /\ r.end \in {"ok", "null", "exit", "assert"}
        /\ r.end = "assert" => ibuf.head # 0
        /\ r.end = "null" => FALSE
        /\ r.end = "ok" =>
              /\ ibuf.head = 0 /\ r.buf = [ibuf EXCEPT !.cap = r.buf.cap]
              /\ r.buf.cap \in Caps /\ Len(ibuf.data) + k <= r.buf.cap
              /\ r.pool \in Pools /\ Sized(r.pool) /\ Exchanged(pool, ibuf, r.pool, r.buf)
    <2>1. /\ r.end \in {"ok", "null", "exit", "assert"}
          /\ r.end = "assert" => ibuf.head # 0
          /\ r.end = "ok" =>
                /\ ibuf.head = 0 /\ r.buf = [ibuf EXCEPT !.cap = r.buf.cap]
                /\ r.buf.cap \in Caps /\ Len(ibuf.data) + k <= r.buf.cap
                /\ r.pool \in Pools /\ Sized(r.pool) /\ Exchanged(pool, ibuf, r.pool, r.buf)
      BY <1>1, <1>3, ReserveMakesRoom, Parts, SMTT(30)
    <2>2. r.end # "null"
      <3>1. ibuf \in Bufs
        BY <1>1, Parts
      <3>2. ~TooLarge(Len(ibuf.data) + k) \/ (ibuf # NoBlock /\ ibuf.cap >= Len(ibuf.data) + k)
        <4>1. CASE ibuf = NoBlock
          BY <1>2a, <4>1, NoBlockFields, LargestCap, CapsFinite DEF TooLarge
        <4>2. CASE ibuf # NoBlock
          BY <1>2a, <3>1, <4>2, BufFields, CapsFinite
        <4>3. QED
          BY <4>1, <4>2
      <3>3. ibuf.head = 0
        BY <1>1, <1>2 DEF AtFront
      <3>4. QED
        BY <1>3, <3>2, <3>3 DEF Reserve, Outcome
    <2>3. QED
      BY <2>1, <2>2
  <1>5. CASE r.end = "ok"
    <2>1. CleanConn(r.buf, r.pool) /\ dead' = dead
      BY <1>2a, <1>3, <1>5 DEF DoReadEof
    <2>2. PICK e : e = r.buf
      OBVIOUS
    <2>3. e \in Bufs
      <3>1. ibuf \in Bufs /\ Len(ibuf.data) + k = Len(ibuf.data)
        BY <1>2a, <1>1, Parts
      <3>2. QED
        BY <1>4, <1>5, <2>2, <3>1, BlockFits
    <2>4. QED
      BY <1>2, <1>4, <1>5, <2>1, <2>2, <2>3, CleanConnIInv
  <1>6. CASE r.end # "ok"
    <2>1. /\ dead' = r.end
          /\ UNCHANGED <<conn, wire, ibuf, obuf, pool, at, due, armed, out, start, expect, events>>
      BY <1>2a, <1>3, <1>6 DEF DoReadEof, bufVars, writeVars
    <2>2. dead' # "assert" /\ dead' \in {"exit", "assert"}
      BY <1>1, <1>2, <1>4, <1>6, <2>1 DEF AtFront
    <2>3. QED
      BY <1>2, <2>1, <2>2, DeadIInv
  <1>7. QED
    BY <1>5, <1>6

(* The loop ends with adjust. *)
LEMMA ParseStopsIInv ==
  ASSUME IInv, ParseStops
  PROVE  IInv'
  <1>1. /\ Types /\ BlocksAccounted /\ ClosedIsEmpty /\ AtFront /\ OutStream /\ InStream
        /\ AssertsOnlyIf /\ DispatchedAsSent
    BY DEF IInv
  <1>2. /\ Open /\ at = "parse" /\ at' = "idle" /\ ibuf' = Adjust(ibuf)
        /\ UNCHANGED <<role, conn, wire, obuf, pool, msglen, due, armed, out, start, expect,
                       held, dead, nin, nout, closes, events>>
    BY DEF ParseStops, LoopEnds, writeVars, bounds
  <1>3. /\ ibuf' \in Bufs /\ ibuf'.head = 0 /\ ibuf'.data = ibuf.data /\ ibuf'.cap = ibuf.cap
    BY <1>1, <1>2, AdjustFits, Parts
  <1>4. Types'
    BY <1>1, <1>2, <1>3 DEF Types
  <1>5. BlocksAccounted'
    BY <1>1, <1>2, <1>3 DEF BlocksAccounted, Own
  <1>6. Rest' = Rest
    BY <1>2, <1>3 DEF Rest
  <1>7. InStream'
    <2>1. Open' => Open
      BY <1>2
    <2>2. QED
      BY <1>1, <1>2, <1>6, <2>1 DEF InStream
  <1>8. OutStream'
    BY <1>1, <1>2, SameOut
  <1>9. ClosedIsEmpty' /\ AtFront' /\ AssertsOnlyIf' /\ DispatchedAsSent'
    BY <1>1, <1>2, <1>3 DEF ClosedIsEmpty, AtFront, AssertsOnlyIf, DispatchedAsSent
  <1>10. QED
    BY <1>4, <1>5, <1>7, <1>8, <1>9 DEF IInv

LEMMA CleanUpIInv ==
  ASSUME IInv, ParseError \/ DoWriteError
  PROVE  IInv'
  <1>1. Types
    BY DEF IInv
  <1>2. CleanConn(ibuf, pool) /\ UNCHANGED <<role, msglen, held, dead, nin, nout, closes>>
    BY DEF ParseError, DoWriteError, bounds
  <1>3. QED
    BY <1>1, <1>2, CleanConnIInv, SamePool, Parts

(***************************************************************************)
(* The message at the front of whole messages: as long as the bytes that   *)
(* are there are enough, they are the bytes of message n.                  *)
(***************************************************************************)
LEMMA FrontMessage ==
  ASSUME NEW s \in Seq(Byte), NEW n \in Nat, NEW last \in Nat, Whole(s, last),
         Begins(s, n, last), s # << >>
  PROVE  \E l \in Nat :
           /\ HeadLen + l <= Len(s)
           /\ \A j \in 1 .. HeadLen + l : s[j] = <<n, j, l>>
           /\ HeadLen + l = Len(s) => n = last
           /\ HeadLen + l < Len(s) =>
                 s[HeadLen + l + 1][1] = n + 1 /\ s[HeadLen + l + 1][2] = 1
  <1>1. HeadLen \in Nat /\ HeadLen > 0
    BY TcpStreamConstants
  <1>2. 1 \in 1..Len(s) /\ s[1] \in Byte
    BY Empty
  <1>3. PICK m, o, l \in Nat : s[1] = <<m, o, l>>
    BY <1>2, ByteParts
  <1>4. m = n /\ o = 1
    BY <1>3 DEF Begins
  <1>5. PartsAt(s, 1, last, m, o, l, 1 + HeadLen + l - o)
    BY <1>2, <1>3, WholeAtByte DEF Whole
  <1>6. 1 + HeadLen + l - o = HeadLen + l
    BY <1>1, <1>4
  <1>7. PartsAt(s, 1, last, n, 1, l, HeadLen + l)
    BY <1>4, <1>5, <1>6
  <1>8. ASSUME NEW j \in 1 .. HeadLen + l PROVE s[j] = <<n, j, l>>
    <2>1. s[j] = <<n, 1 + j - 1, l>>
      BY <1>7 DEF PartsAt
    <2>2. 1 + j - 1 = j
      OBVIOUS
    <2>3. QED
      BY <2>1, <2>2
  <1>9. QED
    BY <1>7, <1>8 DEF PartsAt

(* The rest of a body at the front of whole messages. *)
LEMMA FrontBody ==
  ASSUME NEW s \in Seq(Byte), NEW n \in Nat, NEW last \in Nat, Whole(s, last), s # << >>,
         NEW l \in Nat, l > 0, s[1] = <<n, HeadLen + 1, l>>
  PROVE  /\ l <= Len(s)
         /\ l = Len(s) => n = last
         /\ l < Len(s) => s[l + 1][1] = n + 1 /\ s[l + 1][2] = 1
  <1>1. HeadLen \in Nat /\ HeadLen + 1 \in Nat
    BY TcpStreamConstants
  <1>2. 1 \in 1..Len(s) /\ 1 \in Nat
    BY Empty
  <1>3. PICK o \in Nat : o = HeadLen + 1
    BY <1>1
  <1>4. PartsAt(s, 1, last, n, o, l, 1 + HeadLen + l - o)
    BY <1>2, <1>3, WholeAtByte DEF Whole
  <1>5. 1 + HeadLen + l - o = l
    BY <1>1, <1>3
  <1>6. PartsAt(s, 1, last, n, o, l, l)
    BY <1>4, <1>5
  <1>7. QED
    BY <1>6 DEF PartsAt

(* Dispatch: the head at the front is that of the message due. *)
LEMMA DispatchIInv ==
  ASSUME IInv, Dispatch
  PROVE  IInv'
  <1>1. /\ Types /\ BlocksAccounted /\ ClosedIsEmpty /\ AtFront /\ OutStream /\ InStream
        /\ AssertsOnlyIf /\ DispatchedAsSent
    BY DEF IInv
  <1>2. /\ Open /\ at = "parse" /\ Len(ibuf.data) >= HeadLen /\ at' = "call" /\ due' = due + 1
        /\ UNCHANGED <<role, conn, wire, obuf, armed, out, start, expect, held, dead, nin, nout, closes>>
    BY DEF Dispatch, writeVars, bounds
  <1>3. PICK len \in MsgLens(ibuf.data) :
          /\ Len(ibuf.data) >= HeadLen + len
          /\ ibuf' = Pop(ibuf, pool, HeadLen).buf /\ pool' = Pop(ibuf, pool, HeadLen).pool
          /\ msglen' = len
          /\ events' = events \cup Observed(len)
    BY DEF Dispatch
  <1>4. PICK d \in Seq(Byte) : d = ibuf.data
    BY <1>1, Parts
  <1>5. HeadLen \in Nat /\ HeadLen > 0 /\ Len(d) \in Nat /\ HeadLen <= Len(d)
    BY <1>1, <1>2, <1>4, Parts
  <1>6. len \in Nat /\ HeadLen + len <= Len(d)
    <2>1. d[1] \in Byte
      <3>1. 1 \in 1..Len(d)
        BY <1>5
      <3>2. QED
        BY <3>1
    <2>2. d[1][3] \in Nat
      BY <2>1, ByteFields
    <2>3. len \in Nat
      BY <1>1, <1>3, <1>4, <2>2, Parts DEF MsgLens
    <2>4. QED
      BY <1>3, <1>4, <1>5, <2>3
  <1>7. PICK r : r = Pop(ibuf, pool, HeadLen)
    OBVIOUS
  <1>8. /\ ibuf' = r.buf /\ pool' = r.pool
        /\ ibuf'.data = SubSeq(d, HeadLen + 1, Len(d))
        /\ ibuf' = NoBlock <=> HeadLen = Len(d)
        /\ ibuf' \in Bufs /\ pool' \in Pools /\ Sized(r.pool) /\ Exchanged(pool, ibuf, pool', ibuf')
    <2>1. ibuf # NoBlock
      BY <1>4, <1>5, NoBlockFields, Empty
    <2>2. ibuf \in Bufs /\ pool \in Pools /\ Sized(pool)
      BY <1>1, Parts
    <2>3. /\ r.end = "ok"
          /\ r.buf.data = SubSeq(ibuf.data, HeadLen + 1, Len(ibuf.data))
          /\ r.buf = NoBlock <=> HeadLen = Len(ibuf.data)
          /\ r.buf \in Bufs
          /\ r.pool \in Pools /\ Sized(r.pool) /\ Exchanged(pool, ibuf, r.pool, r.buf)
      BY <1>4, <1>5, <1>7, <2>1, <2>2, PopTakes
    <2>4. QED
      BY <1>3, <1>4, <1>7, <2>3
  <1>9. Types'
    <2>1. Sized(pool)'
      BY <1>8 DEF Sized
    <2>2. due' \in Nat /\ conn # "closed"
      BY <1>1, <1>2 DEF Types, Open
    <2>3. QED
      BY <1>1, <1>2, <1>3, <1>6, <1>8, <2>1, <2>2 DEF Types
  <1>10. BlocksAccounted'
    BY <1>1, <1>2, <1>8, ExchangeIn
  <1>11. ClosedIsEmpty' /\ OutStream'
    BY <1>1, <1>2, SameOut DEF ClosedIsEmpty, Open
  <1>12. AtFront'
    <2>1. len <= Len(ibuf'.data)
      <3>1. Len(ibuf'.data) = Len(d) - HeadLen
        BY <1>5, <1>8, Suffix
      <3>2. QED
        BY <1>5, <1>6, <3>1
    <2>2. ibuf' = NoBlock => "empty body" \in events'
      <3>1. SUFFICES ASSUME ibuf' = NoBlock PROVE "empty body" \in Observed(len)
        BY <1>3
      <3>2. Len(ibuf.data) = HeadLen /\ len = 0
        BY <1>4, <1>5, <1>6, <1>8, <3>1
      <3>3. QED
        BY <3>2 DEF Observed
    <2>3. obuf'.head # 0 => "rollback" \in events'
      BY <1>1, <1>2, <1>3 DEF AtFront
    <2>4. QED
      BY <1>2, <1>3, <2>1, <2>2, <2>3 DEF AtFront
  <1>13. PICK s \in Seq(Byte) : s = Rest
    BY <1>1, Parts
  <1>14. \A j \in 1..Len(d) : s[j] = d[j]
    BY <1>1, <1>4, <1>13, Concat, Parts DEF Rest
  <1>15. Len(d) <= Len(s) /\ Len(s) \in Nat
    <2>1. wire \in Seq(Byte)
      BY <1>1, Parts
    <2>2. Len(s) = Len(d) + Len(wire) /\ Len(wire) \in Nat
      BY <1>4, <1>13, <2>1, Concat DEF Rest
    <2>3. QED
      BY <1>5, <2>2
  <1>16. ASSUME "kept input" \notin events
         PROVE  /\ Whole(s, nin) /\ nin \in Nat /\ due \in Nat
                /\ HeadLen + len <= Len(s)
                /\ \A j \in 1 .. HeadLen + len : s[j] = <<due, j, len>>
                /\ HeadLen + len = Len(s) => due = nin
                /\ HeadLen + len < Len(s) =>
                      s[HeadLen + len + 1][1] = due + 1 /\ s[HeadLen + len + 1][2] = 1
    <2>1. Whole(s, nin) /\ Begins(s, due, nin) /\ nin \in Nat /\ due \in Nat
      BY <1>1, <1>2, <1>13, <1>16, Parts DEF InStream
    <2>2. s # << >>
      BY <1>5, <1>15, Empty
    <2>3. PICK l \in Nat :
             /\ HeadLen + l <= Len(s)
             /\ \A j \in 1 .. HeadLen + l : s[j] = <<due, j, l>>
             /\ HeadLen + l = Len(s) => due = nin
             /\ HeadLen + l < Len(s) =>
                   s[HeadLen + l + 1][1] = due + 1 /\ s[HeadLen + l + 1][2] = 1
      BY <2>1, <2>2, FrontMessage
    <2>4. \A j \in 1..HeadLen : d[j] = <<due, j, l>>
      BY <1>5, <1>14, <2>3
    <2>5. d[1] = <<due, 1, l>>
      BY <1>5, <2>4
    <2>6. d[1][1] = due /\ d[1][3] = l
      BY <2>5
    <2>7. MsgLens(d) = {l}
      BY <2>4, <2>6 DEF MsgLens
    <2>8. len = l
      BY <1>3, <1>4, <2>7
    <2>9. QED
      BY <2>1, <2>3, <2>8
  <1>17. InStream'
    <2>1. SUFFICES ASSUME "kept input" \notin events'
                   PROVE  /\ Whole(Rest', nin)
                          /\ IF len > 0
                               THEN Rest' # << >> /\ Rest'[1] = <<due' - 1, HeadLen + 1, len>>
                               ELSE Begins(Rest', due', nin)
      BY <1>2, <1>3 DEF InStream
    <2>2. "kept input" \notin events
      BY <1>3, <2>1
    <2>3. /\ Whole(s, nin) /\ nin \in Nat /\ due \in Nat
          /\ HeadLen + len <= Len(s)
          /\ \A j \in 1 .. HeadLen + len : s[j] = <<due, j, len>>
          /\ HeadLen + len = Len(s) => due = nin
          /\ HeadLen + len < Len(s) =>
                s[HeadLen + len + 1][1] = due + 1 /\ s[HeadLen + len + 1][2] = 1
      BY <1>16, <2>2
    <2>4. HeadLen <= Len(s)
      BY <1>5, <1>15
    <2>5. PICK t \in Seq(Byte) : t = SubSeq(s, HeadLen + 1, Len(s)) /\ Len(t) = Len(s) - HeadLen
      BY <1>5, <2>4, Suffix
    <2>6. Rest' = t
      <3>1. wire \in Seq(Byte)
        BY <1>1, Parts
      <3>2. Rest' = SubSeq(d, HeadLen + 1, Len(d)) \o wire
        BY <1>2, <1>8 DEF Rest
      <3>3. s = d \o wire
        BY <1>4, <1>13 DEF Rest
      <3>4. QED
        BY <1>5, <2>5, <3>1, <3>2, <3>3, SuffixOfFirst, ZenonT(60)
    <2>7. Whole(t, nin)
      BY <1>5, <2>3, <2>4, <2>5, WholeSuffix
    <2>8. Len(s) > HeadLen => t # << >> /\ t[1] = s[HeadLen + 1]
      <3>1. SUFFICES ASSUME Len(s) > HeadLen PROVE t # << >> /\ t[1] = s[HeadLen + 1]
        OBVIOUS
      <3>2. 1 \in 1 .. Len(s) - HeadLen
        BY <1>5, <1>15, <3>1
      <3>3. t[1] = s[HeadLen + 1]
        BY <1>5, <2>4, <2>5, <3>2, Suffix
      <3>4. t # << >>
        <4>1. Len(t) # 0
          BY <1>5, <1>15, <2>5, <3>1
        <4>2. QED
          BY <4>1, Empty
      <3>5. QED
        BY <3>3, <3>4
    <2>9. CASE len > 0
      <3>1. Len(s) > HeadLen /\ HeadLen + 1 \in 1 .. HeadLen + len
        BY <1>5, <1>6, <1>15, <2>3, <2>9
      <3>2. t[1] = <<due, HeadLen + 1, len>>
        BY <2>3, <2>8, <3>1
      <3>3. due' - 1 = due
        BY <1>2, <2>3
      <3>4. QED
        BY <2>6, <2>7, <2>8, <2>9, <3>1, <3>2, <3>3
    <2>10. CASE len = 0
      <3>1. HeadLen + len = HeadLen
        BY <1>5, <2>10
      <3>2. CASE Len(s) = HeadLen
        <4>1. t = << >>
          BY <1>5, <2>5, <3>2, Empty
        <4>2. due' = nin + 1
          BY <1>2, <2>3, <3>1, <3>2
        <4>3. QED
          BY <2>6, <2>7, <2>10, <4>1, <4>2 DEF Begins
      <3>3. CASE Len(s) > HeadLen
        <4>1. t # << >> /\ t[1] = s[HeadLen + 1]
          BY <2>8, <3>3
        <4>2. s[HeadLen + 1][1] = due + 1 /\ s[HeadLen + 1][2] = 1
          BY <2>3, <3>1, <3>3
        <4>3. QED
          BY <1>2, <2>6, <2>7, <2>10, <4>1, <4>2 DEF Begins
      <3>4. QED
        BY <1>5, <1>15, <2>4, <3>2, <3>3
    <2>11. QED
      BY <1>6, <2>9, <2>10
  <1>18. DispatchedAsSent'
    <2>1. SUFFICES ASSUME "kept input" \notin events PROVE "wrong message" \notin events'
      BY <1>3 DEF DispatchedAsSent
    <2>2. "wrong message" \notin events
      BY <1>1, <2>1 DEF DispatchedAsSent
    <2>3. PICK x \in Seq(Byte) : /\ x = SubSeq(d, 1, HeadLen + len) /\ Len(x) = HeadLen + len
                                 /\ \A j \in 1 .. HeadLen + len : x[j] = d[j]
      <3>1. PICK k \in Nat : k = HeadLen + len
        BY <1>5, <1>6
      <3>2. QED
        BY <1>6, <3>1, Prefix
    <2>4. PICK y \in Seq(Byte) : /\ y = Bytes(due, len) /\ Len(y) = HeadLen + len
                                 /\ \A j \in 1 .. HeadLen + len : y[j] = <<due, j, len>>
      BY <1>1, <1>6, BytesAre, Parts
    <2>5. \A j \in 1 .. HeadLen + len : j \in 1..Len(d)
      BY <1>5, <1>6
    <2>6. \A j \in 1 .. HeadLen + len : x[j] = y[j]
      BY <1>14, <1>16, <2>1, <2>3, <2>4, <2>5
    <2>7. x = y
      BY <2>3, <2>4, <2>6, SameSeq
    <2>8. "wrong message" \notin Observed(len)
      BY <1>4, <2>3, <2>4, <2>7 DEF Observed
    <2>9. QED
      BY <1>3, <2>2, <2>8
  <1>19. AssertsOnlyIf'
    BY <1>1, <1>2, <1>3 DEF AssertsOnlyIf
  <1>20. QED
    BY <1>9, <1>10, <1>11, <1>12, <1>17, <1>18, <1>19 DEF IInv

(* PopBody: behind the body begins the next message. *)
LEMMA PopBodyIInv ==
  ASSUME IInv, PopBody
  PROVE  IInv'
  <1>1. /\ Types /\ BlocksAccounted /\ ClosedIsEmpty /\ AtFront /\ OutStream /\ InStream
        /\ AssertsOnlyIf /\ DispatchedAsSent
    BY DEF IInv
  <1>2. PICK r : r = Pop(ibuf, pool, msglen)
    OBVIOUS
  <1>3. /\ Open /\ at = "call" /\ ibuf' = r.buf /\ pool' = r.pool /\ msglen' = 0
        /\ \/ r.end = "ok" /\ at' = "parse" /\ dead' = dead
           \/ r.end # "ok" /\ dead' = r.end /\ at' = at
        /\ UNCHANGED <<role, conn, wire, obuf, due, armed, out, start, expect, held, nin, nout, closes,
                       events>>
    BY <1>2 DEF PopBody, writeVars, bounds
  <1>4. msglen \in Nat /\ msglen <= Len(ibuf.data) /\ ibuf \in Bufs
    BY <1>1, <1>3, Parts DEF AtFront
  <1>5. /\ r.end \in {"ok", "assert"}
        /\ r.end = "ok" <=> ibuf # NoBlock
        /\ r.end # "ok" => ibuf' = ibuf
        /\ r.end = "ok" => ibuf'.data = SubSeq(ibuf.data, msglen + 1, Len(ibuf.data))
        /\ ibuf' \in Bufs /\ pool' \in Pools /\ Sized(r.pool) /\ Exchanged(pool, ibuf, pool', ibuf')
    <2>1. ibuf \in Bufs /\ pool \in Pools /\ Sized(pool) /\ msglen \in Nat
      BY <1>1, Parts
    <2>2. /\ r.end \in {"ok", "assert"}
          /\ r.end = "ok" <=> ibuf # NoBlock /\ msglen <= Len(ibuf.data)
          /\ r.end # "ok" => r.buf = ibuf
          /\ r.end = "ok" => r.buf.data = SubSeq(ibuf.data, msglen + 1, Len(ibuf.data))
          /\ r.buf \in Bufs
          /\ r.pool \in Pools /\ Sized(r.pool) /\ Exchanged(pool, ibuf, r.pool, r.buf)
      BY <1>2, <2>1, PopTakes
    <2>3. QED
      BY <1>3, <1>4, <2>2
  <1>6. Types'
    <2>1. Sized(pool)'
      BY <1>3, <1>5 DEF Sized
    <2>2. conn # "closed" /\ at' \in {"idle", "parse", "call"} /\ dead' \in {"no", "exit", "assert"}
      BY <1>1, <1>3, <1>5 DEF Types, Open
    <2>3. QED
      BY <1>1, <1>3, <1>5, <2>1, <2>2 DEF Types
  <1>7. BlocksAccounted'
    BY <1>1, <1>3, <1>5, ExchangeIn
  <1>8. ClosedIsEmpty' /\ OutStream' /\ DispatchedAsSent'
    BY <1>1, <1>3, SameOut DEF ClosedIsEmpty, Open, DispatchedAsSent
  <1>9. AtFront' /\ AssertsOnlyIf'
    <2>1. Len(ibuf'.data) \in Nat
      BY <1>5, BufFields
    <2>2. CASE r.end = "ok"
      BY <1>1, <1>3, <2>2 DEF AtFront, AssertsOnlyIf
    <2>3. CASE r.end # "ok"
      <3>1. ibuf = NoBlock /\ "empty body" \in events
        BY <1>1, <1>3, <1>5, <2>3 DEF AtFront
      <3>2. obuf'.head # 0 => "rollback" \in events'
        BY <1>1, <1>3 DEF AtFront
      <3>3. /\ at' = "call" /\ "empty body" \in events' /\ msglen' <= Len(ibuf'.data)
            /\ dead' = "assert"
        <4>1. msglen' <= Len(ibuf'.data)
          BY <1>3, <2>1
        <4>2. at' = "call" /\ dead' = "assert" /\ "empty body" \in events'
          BY <1>3, <1>5, <2>3, <3>1
        <4>3. QED
          BY <4>1, <4>2
      <3>4. AtFront'
        BY <3>2, <3>3 DEF AtFront
      <3>5. QED
        BY <3>3, <3>4 DEF AssertsOnlyIf
    <2>4. QED
      BY <2>2, <2>3
  <1>10. InStream'
    <2>1. CASE r.end # "ok"
      BY <1>3, <1>5, <2>1 DEF InStream, Open, Running
    <2>2. CASE r.end = "ok"
      <3>1. SUFFICES ASSUME "kept input" \notin events
                     PROVE  Whole(Rest', nin) /\ Begins(Rest', due, nin)
        BY <1>3, <2>2 DEF InStream
      <3>2. PICK s \in Seq(Byte) : s = Rest
        BY <1>1, Parts
      <3>3. /\ Whole(s, nin) /\ nin \in Nat /\ due \in Nat
            /\ IF msglen > 0
                 THEN s # << >> /\ s[1] = <<due - 1, HeadLen + 1, msglen>>
                 ELSE Begins(s, due, nin)
        BY <1>1, <1>3, <3>1, <3>2, Parts DEF InStream
      <3>4. msglen <= Len(s) /\ Len(s) \in Nat
        <4>1. ibuf.data \in Seq(Byte) /\ wire \in Seq(Byte)
          BY <1>1, Parts
        <4>2. /\ Len(s) = Len(ibuf.data) + Len(wire) /\ Len(wire) \in Nat
              /\ Len(ibuf.data) \in Nat
          BY <3>2, <4>1, Concat DEF Rest
        <4>3. QED
          BY <1>4, <4>2
      <3>5. PICK t \in Seq(Byte) : t = SubSeq(s, msglen + 1, Len(s)) /\ Len(t) = Len(s) - msglen
        BY <1>4, <3>4, Suffix
      <3>6. Rest' = t
        <4>1. ibuf.data \in Seq(Byte) /\ wire \in Seq(Byte)
          BY <1>1, Parts
        <4>2. Rest' = SubSeq(ibuf.data, msglen + 1, Len(ibuf.data)) \o wire
          BY <1>3, <1>5, <2>2 DEF Rest
        <4>3. s = ibuf.data \o wire
          BY <3>2 DEF Rest
        <4>4. QED
          BY <1>4, <3>5, <4>1, <4>2, <4>3, SuffixOfFirst, ZenonT(60)
      <3>7. Whole(t, nin)
        BY <1>4, <3>3, <3>4, <3>5, WholeSuffix
      <3>8. CASE msglen > 0
        <4>1. s # << >> /\ s[1] = <<due - 1, HeadLen + 1, msglen>>
          BY <3>3, <3>8
        <4>2. PICK n \in Nat : n = due - 1 /\ n + 1 = due
          <5>1. 1 \in 1..Len(s)
            BY <4>1, Empty
          <5>2. s[1] \in Byte
            BY <5>1
          <5>3. s[1][1] = due - 1 /\ s[1][1] \in Nat
            BY <4>1, <5>2, ByteFields
          <5>4. QED
            BY <3>3, <5>3
        <4>3. /\ msglen <= Len(s)
              /\ msglen = Len(s) => n = nin
              /\ msglen < Len(s) => s[msglen + 1][1] = n + 1 /\ s[msglen + 1][2] = 1
          BY <1>4, <3>3, <3>8, <4>1, <4>2, FrontBody
        <4>4. CASE msglen = Len(s)
          <5>1. t = << >>
            BY <1>4, <3>5, <4>4, Empty
          <5>2. due = nin + 1
            BY <4>2, <4>3, <4>4
          <5>3. QED
            BY <3>6, <3>7, <5>1, <5>2 DEF Begins
        <4>5. CASE msglen < Len(s)
          <5>1. 1 \in 1 .. Len(s) - msglen
            BY <1>4, <3>4, <4>5
          <5>2. t[1] = s[msglen + 1]
            BY <1>4, <3>4, <3>5, <5>1, Suffix
          <5>3. t # << >>
            <6>1. Len(t) # 0
              BY <1>4, <3>4, <3>5, <4>5
            <6>2. QED
              BY <6>1, Empty
          <5>4. QED
            BY <3>6, <3>7, <4>2, <4>3, <4>5, <5>2, <5>3 DEF Begins
        <4>6. QED
          BY <1>4, <3>4, <4>4, <4>5
      <3>9. CASE msglen = 0
        <4>1. t = s
          <5>1. Len(t) = Len(s)
            BY <3>4, <3>5, <3>9
          <5>2. \A i \in 1..Len(t) : t[i] = s[i]
            BY <3>4, <3>5, <3>9, Suffix
          <5>3. QED
            BY <5>1, <5>2, SameSeq
        <4>2. QED
          BY <3>3, <3>6, <3>9, <4>1
      <3>10. QED
        BY <1>4, <3>8, <3>9
    <2>3. QED
      BY <2>1, <2>2
  <1>11. QED
    BY <1>6, <1>7, <1>8, <1>9, <1>10 DEF IInv

(* One exchange after another. *)
LEMMA ExchangedTwice ==
  ASSUME NEW p \in Pools, NEW a, NEW q \in Pools, NEW b, NEW z \in Pools, NEW d,
         Exchanged(p, a, q, b), Exchanged(q, b, z, d)
  PROVE  Exchanged(p, a, z, d)
  <1>1. ASSUME NEW c \in Caps
        PROVE  z.idle[c] + Own(d, c) + p.made[c] = p.idle[c] + Own(a, c) + z.made[c]
    <2>1. /\ p.idle[c] \in Nat /\ p.made[c] \in Nat /\ q.idle[c] \in Nat /\ q.made[c] \in Nat
          /\ z.idle[c] \in Nat /\ z.made[c] \in Nat
      BY PoolFields
    <2>2. Own(a, c) \in Nat /\ Own(b, c) \in Nat /\ Own(d, c) \in Nat
      BY DEF Own
    <2>3. /\ q.idle[c] + Own(b, c) + p.made[c] = p.idle[c] + Own(a, c) + q.made[c]
          /\ z.idle[c] + Own(d, c) + q.made[c] = q.idle[c] + Own(b, c) + z.made[c]
      BY DEF Exchanged
    <2>4. QED
      BY <2>1, <2>2, <2>3
  <1>2. QED
    BY <1>1 DEF Exchanged

(***************************************************************************)
(* A step that changes the output buffer and leaves the input as it is.    *)
(***************************************************************************)
LEMMA OutputIInv ==
  ASSUME IInv, Open,
         obuf' \in Bufs, pool' \in Pools, Sized(pool)', Exchanged(pool, obuf, pool', obuf'),
         out' \in Seq(Byte), expect' \in Seq(Byte), nout' \in Nat,
         events \subseteq events', events' \subseteq events \cup {"rollback"},
         obuf'.head # 0 => "rollback" \in events', OutStream',
         UNCHANGED <<role, conn, wire, ibuf, at, msglen, due, start, held, dead, nin>>
  PROVE  IInv'
  <1>1. /\ Types /\ BlocksAccounted /\ ClosedIsEmpty /\ AtFront /\ InStream
        /\ AssertsOnlyIf /\ DispatchedAsSent
    BY DEF IInv
  <1>2. Types'
    BY <1>1 DEF Types
  <1>3. BlocksAccounted'
    BY <1>1, ExchangeOut
  <1>4. ClosedIsEmpty'
    BY <1>1 DEF ClosedIsEmpty
  <1>5. AtFront'
    BY <1>1 DEF AtFront
  <1>6. InStream'
    <2>1. (Open' => Open) /\ ("kept input" \in events => "kept input" \in events')
      OBVIOUS
    <2>2. QED
      BY <1>1, <2>1, SameIn
  <1>7. AssertsOnlyIf' /\ DispatchedAsSent'
    BY <1>1 DEF AssertsOnlyIf, DispatchedAsSent
  <1>8. QED
    BY <1>2, <1>3, <1>4, <1>5, <1>6, <1>7 DEF IInv

(* do_write moves bytes from the front of the buffer to the end of out. *)
LEMMA DoWriteIInv ==
  ASSUME IInv, DoWrite
  PROVE  IInv'
  <1>1. Types /\ AtFront /\ OutStream
    BY DEF IInv
  <1>2. /\ Open /\ obuf.data # << >> /\ obuf.head = 0
        /\ UNCHANGED <<role, conn, wire, ibuf, pool, at, msglen, due, start, expect, held, dead,
                       nin, nout, closes, events>>
    BY DEF DoWrite, readVars, bounds
  <1>3. PICK k \in 1 .. Len(obuf.data) :
          obuf' = Written(obuf, k) /\ out' = out \o SubSeq(obuf.data, 1, k)
    BY DEF DoWrite
  <1>4. PICK d \in Seq(Byte) : d = obuf.data
    BY <1>1, Parts
  <1>5. k \in Nat /\ k <= Len(d) /\ Len(d) \in Nat
    BY <1>3, <1>4
  <1>6. PICK x \in Seq(Byte) : x = SubSeq(d, 1, k)
    BY <1>5, Prefix
  <1>7. PICK y \in Seq(Byte) : y = SubSeq(d, k + 1, Len(d)) /\ Len(y) = Len(d) - k
    BY <1>5, Suffix
  <1>8. obuf' \in Bufs /\ obuf'.head = 0 /\ obuf'.data = y /\ obuf'.cap = obuf.cap
    <2>1. /\ obuf \in [cap : Nat, head : Nat, data : Seq(Byte)]
          /\ obuf.cap # 0 /\ obuf.cap \in Caps /\ obuf.head + Len(obuf.data) <= obuf.cap
      BY <1>1, <1>2, BufFields, Parts
    <2>2. /\ obuf' \in [cap : Nat, head : Nat, data : Seq(Byte)]
          /\ obuf'.head = 0 /\ obuf'.data = y /\ obuf'.cap = obuf.cap
      BY <1>2, <1>3, <1>4, <1>7, <2>1 DEF Written
    <2>3. obuf'.head + Len(obuf'.data) <= obuf'.cap
      <3>1. obuf.cap \in Nat /\ 0 + Len(d) <= obuf.cap
        BY <1>2, <1>4, <2>1
      <3>2. 0 + Len(y) <= obuf.cap
        BY <1>5, <1>7, <3>1
      <3>3. QED
        BY <2>2, <3>2
    <2>4. QED
      BY <2>1, <2>2, <2>3 DEF Bufs
  <1>9. Exchanged(pool, obuf, pool', obuf')
    BY <1>2, <1>8 DEF Exchanged, Own
  <1>10. out \in Seq(Byte) /\ expect \in Seq(Byte) /\ out' = out \o x /\ out' \in Seq(Byte)
    <2>1. out \in Seq(Byte) /\ expect \in Seq(Byte) /\ out' = out \o x
      BY <1>1, <1>3, <1>4, <1>6 DEF Types
    <2>2. QED
      BY <2>1, Concat
  <1>11. out' \o y = expect
    <2>1. x \o y = d
      BY <1>5, <1>6, <1>7, Divided
    <2>2. out \o d = expect
      BY <1>1, <1>2, <1>4 DEF OutStream
    <2>3. (out \o x) \o y = out \o (x \o y)
      <3>1. out \in Seq(Byte)
        BY <1>10
      <3>2. QED
        BY <3>1, Associative
    <2>4. QED
      BY <1>10, <2>1, <2>2, <2>3
  <1>12. OutStream'
    <2>1. IsPrefix(out', expect)
      BY <1>10, <1>11, PrefixOfConcat
    <2>2. QED
      <3>1. Framed(expect)
        BY <1>1 DEF OutStream
      <3>2. Framed(expect')
        BY <1>2, <3>1
      <3>3. QED
        BY <1>2, <1>8, <1>11, <2>1, <3>2 DEF OutStream
  <1>13. Sized(pool)' /\ pool' \in Pools /\ nout' \in Nat
    BY <1>1, <1>2 DEF Types, Sized
  <1>14. expect' \in Seq(Byte) /\ events' = events
    BY <1>2, <1>10
  <1>15. QED
    BY <1>2, <1>8, <1>9, <1>10, <1>12, <1>13, <1>14, OutputIInv

(* write2fd asserts after a rollback only. *)
LEMMA DoWriteAssertsIInv ==
  ASSUME IInv, DoWriteAsserts
  PROVE  IInv'
  <1>1. /\ dead' = "assert" /\ obuf.head # 0
        /\ UNCHANGED <<role, conn, wire, ibuf, obuf, pool, at, msglen, due, armed, out, start, expect,
                       held, nin, nout, closes, events>>
    BY DEF DoWriteAsserts, bufVars, readVars, writeVars, bounds
  <1>2. "rollback" \in events
    BY <1>1 DEF IInv, AtFront
  <1>3. QED
    BY <1>1, <1>2, DeadIInv

(* send_message appends head and body, refuses, rolls back or ends the process. *)
LEMMA SendMessageIInv ==
  ASSUME IInv, NEW len \in OutLens, SendMessage(len)
  PROVE  IInv'
  <1>1. Types /\ AtFront /\ OutStream
    BY DEF IInv
  <1>2. /\ Open /\ nout' = nout + 1
        /\ UNCHANGED <<role, conn, wire, ibuf, at, msglen, due, out, start, held, nin>>
    BY DEF SendMessage, readVars
  <1>3. /\ len \in Nat /\ nout' \in Nat /\ HeadLen \in Nat /\ HeadLen > 0
        /\ obuf \in Bufs /\ pool \in Pools /\ Sized(pool)
        /\ out \in Seq(Byte) /\ expect \in Seq(Byte)
    BY <1>1, <1>2, Parts DEF Types
  <1>4. PICK bytes \in Seq(Byte) : bytes = Bytes(nout + 1, len) /\ Len(bytes) = HeadLen + len
    BY <1>2, <1>3, BytesAre
  <1>5. PICK x \in Seq(Byte) : x = SubSeq(bytes, 1, HeadLen) /\ Len(x) = HeadLen
    <2>1. HeadLen <= Len(bytes)
      BY <1>3, <1>4
    <2>2. QED
      BY <1>3, <2>1, Prefix
  <1>6. PICK y \in Seq(Byte) : y = SubSeq(bytes, HeadLen + 1, HeadLen + len) /\ x \o y = bytes
    <2>1. HeadLen <= Len(bytes)
      BY <1>3, <1>4
    <2>2. SubSeq(bytes, HeadLen + 1, Len(bytes)) \in Seq(Byte)
      BY <1>3, <2>1, Suffix
    <2>3. x \o SubSeq(bytes, HeadLen + 1, Len(bytes)) = bytes
      BY <1>3, <1>5, <2>1, Divided
    <2>4. QED
      BY <1>4, <2>2, <2>3
  <1>7. PICK h : h = SendData(obuf, pool, x)
    OBVIOUS
  <1>8. PICK b : b = SendData(h.buf, h.pool, y)
    OBVIOUS
  <1>9. PICK back : back = Pop(h.buf, h.pool, HeadLen)
    OBVIOUS
  <1>10. \/ /\ h.end = "ok" /\ b.end = "ok"
            /\ obuf' = b.buf /\ pool' = b.pool
            /\ expect' = expect \o bytes
            /\ events' = events /\ dead' = dead
         \/ /\ h.end = "null" /\ obuf' = obuf /\ pool' = pool
            /\ events' = events /\ expect' = expect /\ dead' = dead
         \/ /\ h.end = "ok" /\ b.end = "null" /\ obuf' = back.buf /\ pool' = back.pool
            /\ events' = events \cup (IF obuf.data = << >> THEN {} ELSE {"rollback"})
            /\ expect' = expect /\ dead' = dead
         \/ /\ (IF h.end = "ok" THEN b.end ELSE h.end) \in {"exit", "assert"}
            /\ dead' = (IF h.end = "ok" THEN b.end ELSE h.end)
            /\ UNCHANGED <<obuf, pool, expect, events>>
    <2>1. h = SendData(obuf, pool, SubSeq(Bytes(nout + 1, len), 1, HeadLen))
      BY <1>4, <1>5, <1>7
    <2>2. b = SendData(h.buf, h.pool,
                       SubSeq(Bytes(nout + 1, len), HeadLen + 1, HeadLen + len))
      BY <1>4, <1>6, <1>8
    <2>3. QED
      BY <1>4, <1>9, <2>1, <2>2 DEF SendMessage, Refused
  <1>11. /\ h.end \in {"ok", "null", "exit", "assert"}
         /\ h.end = "assert" => obuf.head # 0
         /\ h.end = "ok" =>
               /\ obuf.head = 0 /\ h.buf.head = 0 /\ h.buf.data = obuf.data \o x
               /\ h.buf \in Bufs /\ h.buf # NoBlock
               /\ h.pool \in Pools /\ Sized(h.pool) /\ Exchanged(pool, obuf, h.pool, h.buf)
    <2>1. obuf \in Bufs /\ pool \in Pools /\ Sized(pool)
      BY <1>3
    <2>2. PICK ob \in Bufs : ob = obuf
      BY <2>1
    <2>3. PICK op \in Pools : op = pool
      BY <2>1
    <2>4. h = SendData(ob, op, x) /\ Sized(op)
      BY <1>7, <2>1, <2>2, <2>3
    <2>5. h.end \in {"ok", "null", "exit", "assert"}
      BY <2>4, SendDataAppends
    <2>6. h.end = "assert" => ob.head # 0
      BY <2>4, SendDataAppends
    <2>7. h.end = "ok" =>
             /\ ob.head = 0 /\ h.buf.head = 0 /\ h.buf.data = ob.data \o x
             /\ h.buf \in Bufs /\ h.buf # NoBlock
             /\ h.pool \in Pools /\ Sized(h.pool) /\ Exchanged(op, ob, h.pool, h.buf)
      BY <2>4, SendDataAppends, SMTT(30)
    <2>8. QED
      BY <2>2, <2>3, <2>5, <2>6, <2>7
  <1>12. ASSUME h.end = "ok"
         PROVE  /\ b.end # "assert"
                /\ b.end = "ok" =>
                      /\ b.buf.head = 0 /\ b.buf.data = h.buf.data \o y
                      /\ b.buf \in Bufs
                      /\ b.pool \in Pools /\ Sized(b.pool)
                      /\ Exchanged(h.pool, h.buf, b.pool, b.buf)
    <2>1. h.buf \in Bufs /\ h.pool \in Pools /\ Sized(h.pool) /\ h.buf.head = 0
      BY <1>11, <1>12
    <2>2. PICK hb \in Bufs : hb = h.buf
      BY <2>1
    <2>3. PICK hp \in Pools : hp = h.pool
      BY <2>1
    <2>4. b = SendData(hb, hp, y) /\ Sized(hp) /\ hb.head = 0
      BY <1>8, <2>1, <2>2, <2>3
    <2>5. /\ b.end = "assert" => hb.head # 0
          /\ b.end = "ok" =>
                /\ b.buf.head = 0 /\ b.buf.data = hb.data \o y
                /\ b.buf \in Bufs
                /\ b.pool \in Pools /\ Sized(b.pool) /\ Exchanged(hp, hb, b.pool, b.buf)
      BY <2>4, SendDataAppends, SMTT(30)
    <2>6. QED
      BY <2>2, <2>3, <2>4, <2>5
  <1>13. PICK d \in Seq(Byte) : d = obuf.data
    BY <1>1, Parts
  <1>14. CASE /\ h.end = "ok" /\ b.end = "ok"
              /\ obuf' = b.buf /\ pool' = b.pool
              /\ expect' = expect \o bytes
              /\ events' = events /\ dead' = dead
    <2>1. /\ obuf.head = 0 /\ h.buf.data = d \o x
          /\ h.pool \in Pools /\ Exchanged(pool, obuf, h.pool, h.buf)
      BY <1>11, <1>13, <1>14
    <2>2. /\ obuf'.head = 0 /\ obuf'.data = (d \o x) \o y /\ obuf' \in Bufs
          /\ pool' \in Pools /\ Sized(b.pool)
          /\ Exchanged(h.pool, h.buf, pool', obuf')
      BY <1>12, <1>14, <2>1
    <2>3. Sized(pool)'
      BY <1>14, <2>2 DEF Sized
    <2>4. Exchanged(pool, obuf, pool', obuf')
      BY <1>3, <2>1, <2>2, ExchangedTwice
    <2>5. obuf'.data = d \o bytes
      <3>1. (d \o x) \o y = d \o (x \o y)
        BY Associative
      <3>2. QED
        BY <1>6, <2>2, <3>1
    <2>6. out \o d = expect
      BY <1>1, <1>13, <2>1 DEF OutStream
    <2>7. expect' = out \o (d \o bytes)
      <3>1. out \in Seq(Byte)
        BY <1>3
      <3>2. (out \o d) \o bytes = out \o (d \o bytes)
        BY <3>1, Associative
      <3>3. QED
        BY <1>14, <2>6, <3>2
    <2>8. d \o bytes \in Seq(Byte)
      BY Concat
    <2>9. IsPrefix(out, expect') /\ expect' \in Seq(Byte)
      <3>1. PICK z \in Seq(Byte) : z = d \o bytes
        BY <2>8
      <3>2. out \in Seq(Byte)
        BY <1>3
      <3>3. IsPrefix(out, out \o z) /\ out \o z \in Seq(Byte)
        BY <3>2, PrefixOfConcat, Concat
      <3>4. QED
        BY <2>7, <3>1, <3>3
    <2>10. OutStream'
      <3>1. Framed(expect) /\ expect \in Seq(Byte)
        BY <1>1, <1>3 DEF OutStream
      <3>2. Framed(expect \o Bytes(nout + 1, len))
        <4>1. nout \in Nat
          BY <1>1 DEF Types
        <4>2. QED
          BY <1>3, <3>1, <4>1, FramedAppend
      <3>3. Framed(expect')
        BY <1>4, <1>14, <3>2
      <3>4. QED
        BY <1>2, <2>5, <2>7, <2>9, <3>3 DEF OutStream
    <2>11. out' \in Seq(Byte)
      BY <1>2, <1>3
    <2>12. QED
      BY <1>2, <1>3, <1>14, <2>2, <2>3, <2>4, <2>9, <2>10, <2>11, OutputIInv
  <1>15. CASE /\ h.end = "null" /\ obuf' = obuf /\ pool' = pool
              /\ events' = events /\ expect' = expect /\ dead' = dead
    <2>1. OutStream' /\ Sized(pool)' /\ pool' \in Pools /\ obuf' \in Bufs
      BY <1>1, <1>2, <1>3, <1>15, SameOut DEF Sized
    <2>2. Exchanged(pool, obuf, pool', obuf')
      BY <1>15, SamePool
    <2>3. obuf'.head # 0 => "rollback" \in events'
      BY <1>1, <1>15 DEF AtFront
    <2>4. out' \in Seq(Byte) /\ expect' \in Seq(Byte)
      BY <1>2, <1>3, <1>15
    <2>5. QED
      BY <1>2, <1>3, <1>15, <2>1, <2>2, <2>3, <2>4, OutputIInv
  <1>16. CASE /\ h.end = "ok" /\ b.end = "null" /\ obuf' = back.buf /\ pool' = back.pool
              /\ events' = events \cup (IF obuf.data = << >> THEN {} ELSE {"rollback"})
              /\ expect' = expect /\ dead' = dead
    <2>1. PICK hb \in Bufs : hb = h.buf
      BY <1>11, <1>16
    <2>2. PICK hp \in Pools : hp = h.pool
      BY <1>11, <1>16
    <2>3. /\ obuf.head = 0 /\ hb.head = 0 /\ hb.data = d \o x /\ hb # NoBlock /\ Sized(hp)
          /\ Exchanged(pool, obuf, hp, hb)
      BY <1>11, <1>13, <1>16, <2>1, <2>2
    <2>4. Len(hb.data) = Len(d) + HeadLen /\ Len(d) \in Nat
      BY <1>5, <2>3, Concat
    <2>5. /\ back.end = "ok"
          /\ back.buf = NoBlock <=> HeadLen = Len(hb.data)
          /\ back.buf \in Bufs
          /\ back.pool \in Pools /\ Sized(back.pool) /\ Exchanged(hp, hb, back.pool, back.buf)
      <3>1. HeadLen <= Len(hb.data)
        BY <1>3, <2>4
      <3>2. back = Pop(hb, hp, HeadLen)
        BY <1>9, <2>1, <2>2
      <3>3. HeadLen \in Nat /\ Sized(hp) /\ hb # NoBlock
        BY <1>3, <2>3
      <3>4. /\ back.end = "ok" <=> hb # NoBlock /\ HeadLen <= Len(hb.data)
            /\ back.end = "ok" => (back.buf = NoBlock <=> HeadLen = Len(hb.data))
            /\ back.buf \in Bufs
            /\ back.pool \in Pools /\ Sized(back.pool) /\ Exchanged(hp, hb, back.pool, back.buf)
        BY <3>2, <3>3, PopTakes
      <3>5. QED
        BY <3>1, <3>3, <3>4
    <2>6. /\ obuf' \in Bufs /\ pool' \in Pools /\ Sized(back.pool)
          /\ Exchanged(hp, hb, pool', obuf')
      BY <1>16, <2>5
    <2>7. Sized(pool)'
      BY <1>16, <2>6 DEF Sized
    <2>8. Exchanged(pool, obuf, pool', obuf')
      BY <1>3, <2>3, <2>6, ExchangedTwice
    <2>9. out' \in Seq(Byte) /\ expect' \in Seq(Byte)
      BY <1>2, <1>3, <1>16
    <2>10. CASE d = << >>
      <3>1. obuf' = NoBlock
        <4>1. Len(d) = 0
          BY <2>10, Empty
        <4>2. HeadLen = Len(hb.data)
          BY <1>3, <2>4, <4>1
        <4>3. QED
          BY <1>16, <2>5, <4>2
      <3>2. obuf'.head = 0 /\ obuf'.data = << >>
        BY <3>1, NoBlockFields
      <3>3. OutStream'
        BY <1>1, <1>2, <1>13, <1>16, <2>3, <2>10, <3>2 DEF OutStream
      <3>4. events' = events
        BY <1>13, <1>16, <2>10
      <3>5. QED
        BY <1>2, <1>3, <1>16, <2>6, <2>7, <2>8, <2>9, <3>2, <3>3, <3>4, OutputIInv
    <2>11. CASE d # << >>
      <3>1. Len(d) > 0
        BY <2>4, <2>11, Empty
      <3>2. obuf' # NoBlock /\ obuf'.head # 0
        <4>1. HeadLen # Len(hb.data) /\ HeadLen <= Len(hb.data)
          BY <1>3, <2>4, <3>1
        <4>2. back = Pop(hb, hp, HeadLen)
          BY <1>9, <2>1, <2>2
        <4>3. back.buf # NoBlock
          BY <2>5, <4>1
        <4>4. back.end = "ok" /\ (back.buf # NoBlock => back.buf.head = hb.head + HeadLen)
          BY <1>3, <2>3, <2>5, <4>2, PopTakes, SMTT(30)
        <4>5. back.buf.head = 0 + HeadLen
          BY <2>3, <4>3, <4>4
        <4>6. QED
          BY <1>3, <1>16, <4>3, <4>5
      <3>3. OutStream'
        BY <1>1, <1>2, <1>16, <3>2 DEF OutStream
      <3>4. events' = events \cup {"rollback"}
        BY <1>13, <1>16, <2>11
      <3>5. QED
        BY <1>2, <1>3, <1>16, <2>6, <2>7, <2>8, <2>9, <3>3, <3>4, OutputIInv
    <2>12. QED
      BY <2>10, <2>11
  <1>17. CASE /\ (IF h.end = "ok" THEN b.end ELSE h.end) \in {"exit", "assert"}
              /\ dead' = (IF h.end = "ok" THEN b.end ELSE h.end)
              /\ UNCHANGED <<obuf, pool, expect, events>>
    <2>1. dead' \in {"exit", "assert"}
      BY <1>17
    <2>2. dead' = "assert" => "rollback" \in events
      BY <1>1, <1>11, <1>12, <1>17 DEF AtFront
    <2>3. QED
      BY <1>2, <1>17, <2>1, <2>2, DeadIInv
  <1>18. QED
    BY <1>10, <1>14, <1>15, <1>16, <1>17

(* The invariant holds when the connection is made ... *)
LEMMA InitIInv == Init => IInv
  <1>1. SUFFICES ASSUME Init PROVE IInv
    OBVIOUS
  <1>2. /\ conn = "open" /\ wire = << >> /\ ibuf = NoBlock /\ obuf = NoBlock /\ pool = MakePool
        /\ role \in {"tcp_conn", "tcp_client"} /\ at = "idle" /\ msglen = 0
        /\ held = [c \in Caps |-> 0] /\ dead = "no" /\ nin = 0 /\ nout = 0
        /\ due = 1 /\ out = << >> /\ start = 0 /\ expect = << >> /\ events = {}
    BY <1>1 DEF Init
  <1>3. Num \in Nat /\ MemLimit \in Nat
    BY CapsFinite
  <1>4. PICK first, counted, one : /\ first = [c \in Caps |-> Num + 1]
                                   /\ counted = [c \in Caps |-> Num]
                                   /\ one = [c \in Caps |-> 1]
    OBVIOUS
  <1>5. first \in [Caps -> Nat] /\ counted \in [Caps -> Nat] /\ one \in [Caps -> Nat]
    BY <1>3, <1>4
  <1>6. pool.idle = first /\ pool.made = first /\ pool._total_mem = Total(counted)
    BY <1>2, <1>4 DEF MakePool
  <1>7. pool \in Pools
    <2>1. Total(counted) \in Nat
      BY <1>5, TotalOfMore
    <2>2. pool = [idle |-> first, made |-> first, _total_mem |-> Total(counted)]
      BY <1>2, <1>4 DEF MakePool
    <2>3. QED
      BY <1>5, <2>1, <2>2 DEF Pools
  <1>8. Sized(pool)
    <2>1. Total(first) = Total(counted) + Total(one)
      BY <1>4, TotalOfOneMore
    <2>2. Total(counted) < MemLimit
      BY <1>4, PoolFits
    <2>3. QED
      BY <1>4, <1>6, <2>1, <2>2 DEF Sized, Ones
  <1>9. Types
    BY <1>2, <1>7, <1>8, NoBlockFields, Empty DEF Types
  <1>10. BlocksAccounted
    BY <1>2, <1>3, <1>4, <1>6, NoBlockFields DEF BlocksAccounted
  <1>11. ClosedIsEmpty /\ AtFront /\ AssertsOnlyIf /\ DispatchedAsSent
    BY <1>2, NoBlockFields DEF ClosedIsEmpty, AtFront, AssertsOnlyIf, DispatchedAsSent
  <1>12. OutStream
    <2>1. IsPrefix(<< >>, << >>) /\ << >> \o << >> = << >> /\ Framed(<< >>)
      BY Empty, PrefixOfConcat, NothingFramed
    <2>2. QED
      BY <1>2, <2>1, NoBlockFields DEF OutStream
  <1>13. InStream
    <2>1. Rest = << >>
      BY <1>2, NoBlockFields, Empty DEF Rest
    <2>2. Whole(<< >>, nin)
      BY Empty DEF Whole
    <2>3. Begins(<< >>, due, nin)
      BY <1>2 DEF Begins
    <2>4. QED
      BY <1>2, <2>1, <2>2, <2>3 DEF InStream
  <1>14. QED
    BY <1>9, <1>10, <1>11, <1>12, <1>13 DEF IInv

(* ... and every step preserves it. *)
LEMMA NextIInv == IInv /\ [Next]_vars => IInv'
  <1>1. SUFFICES ASSUME IInv, [Next]_vars PROVE IInv'
    OBVIOUS
  <1>2. CASE \E len \in InLens : PeerSends(len)
    BY <1>1, <1>2, PeerSendsIInv
  <1>3. CASE PeerCloses
    BY <1>1, <1>3, PeerClosesIInv
  <1>4. CASE \E c \in Caps : OtherTakes(c)
    BY <1>1, <1>4, OtherTakesIInv
  <1>5. CASE \E c \in Caps : OtherReturns(c)
    BY <1>1, <1>5, OtherReturnsIInv
  <1>6. CASE Accepted
    BY <1>1, <1>6, AcceptedIInv
  <1>7. CASE \E k \in 1..Len(wire) : DoRead(k)
    BY <1>1, <1>7, DoReadIInv
  <1>8. CASE DoReadEof
    BY <1>1, <1>8, DoReadEofIInv
  <1>9. CASE ParseStops
    BY <1>1, <1>9, ParseStopsIInv
  <1>10. CASE ParseError \/ DoWriteError
    BY <1>1, <1>10, CleanUpIInv
  <1>11. CASE Dispatch
    BY <1>1, <1>11, DispatchIInv
  <1>12. CASE PopBody
    BY <1>1, <1>12, PopBodyIInv
  <1>13. CASE \E len \in OutLens : SendMessage(len)
    BY <1>1, <1>13, SendMessageIInv
  <1>14. CASE DoWrite
    BY <1>1, <1>14, DoWriteIInv
  <1>15. CASE DoWriteAsserts
    BY <1>1, <1>15, DoWriteAssertsIInv
  <1>16. CASE UNCHANGED vars
    <2>1. UNCHANGED <<role, conn, wire, ibuf, obuf, pool, at, msglen, due, armed, out, start, expect,
                      held, dead, nin, nout, events>>
      BY <1>16 DEF vars, bufVars, readVars, writeVars, bounds
    <2>2. /\ Types /\ BlocksAccounted /\ ClosedIsEmpty /\ AtFront /\ OutStream /\ InStream
          /\ AssertsOnlyIf /\ DispatchedAsSent
      BY <1>1 DEF IInv
    <2>3. Sized(pool)' /\ (Open' => Open)
      BY <2>1, <2>2 DEF Types, Sized, Open, Running
    <2>4. Types'
      BY <2>1, <2>2, <2>3 DEF Types
    <2>5. InStream' /\ OutStream'
      BY <2>1, <2>2, <2>3, SameIn, SameOut
    <2>6. BlocksAccounted' /\ ClosedIsEmpty'
      BY <2>1, <2>2 DEF BlocksAccounted, ClosedIsEmpty, Own
    <2>7. AtFront' /\ AssertsOnlyIf' /\ DispatchedAsSent'
      BY <2>1, <2>2 DEF AtFront, AssertsOnlyIf, DispatchedAsSent
    <2>8. QED
      BY <2>4, <2>5, <2>6, <2>7 DEF IInv
  <1>17. QED
    BY <1>1, <1>2, <1>3, <1>4, <1>5, <1>6, <1>7, <1>8, <1>9, <1>10, <1>11, <1>12, <1>13,
       <1>14, <1>15, <1>16 DEF Next, Reading, Writing

-----------------------------------------------------------------------------
(* What follows of the invariant. *)

(* The invariant of the stream holds in every reachable state. *)
THEOREM StreamInvariant == Spec => []IInv
  BY InitIInv, NextIInv, PTL DEF Spec

(***************************************************************************)
(* do_read hands to the router what the peer sent, message by message, in  *)
(* whatever pieces read() finds it, unless a reconnected tcp_client kept   *)
(* a part of a message of an earlier connection.                           *)
(***************************************************************************)
THEOREM MessagesAreWhole == Spec => []DispatchedAsSent
  <1>1. IInv => DispatchedAsSent
    BY DEF IInv
  <1>2. QED
    BY <1>1, StreamInvariant, PTL

(***************************************************************************)
(* do_write writes the messages that send_message accepted, and the output *)
(* buffer holds the rest, unless a head was rolled back.  A connection     *)
(* begins with a message, unless the one before it, of the same            *)
(* tcp_client, was lost inside a message.                                  *)
(***************************************************************************)
THEOREM OutputIsAccepted == Spec => []StreamAsAccepted
  <1>1. IInv => StreamAsAccepted
    <2>1. SUFFICES ASSUME IInv PROVE StreamAsAccepted
      OBVIOUS
    <2>2. Types /\ AtFront /\ OutStream
      BY <2>1 DEF IInv
    <2>3. ASSUME start < Len(out), out[start + 1][2] # 1
          PROVE  start > 0 /\ Inside(out[start])
      <3>1. out \in Seq(Byte) /\ expect \in Seq(Byte) /\ start \in Nat
        BY <2>2 DEF Types
      <3>2. Len(out) <= Len(expect) /\ \A i \in 1..Len(out) : expect[i] = out[i]
        BY <2>2, <3>1, PrefixElements DEF OutStream
      <3>3. PICK i \in 1..Len(out) : i = start + 1
        BY <2>3, <3>1
      <3>4. expect[i] = out[i] /\ i \in 1..Len(expect)
        BY <3>1, <3>2
      <3>5. i > 1 /\ Inside(expect[i - 1])
        BY <2>2, <2>3, <3>3, <3>4 DEF OutStream, Framed
      <3>6. i - 1 = start /\ start \in 1..Len(out)
        BY <3>1, <3>3, <3>5
      <3>7. QED
        BY <3>2, <3>5, <3>6
    <2>4. QED
      BY <2>2, <2>3 DEF AtFront, OutStream, StreamAsAccepted
  <1>2. QED
    BY <1>1, StreamInvariant, PTL

(***************************************************************************)
(* The buffers and the pool are sound: no block is lost or in two places,  *)
(* what a buffer holds fits its block, and the pool keeps its limit.       *)
(***************************************************************************)
THEOREM BlocksAreSound == Spec => []PoolSound
  <1>1. IInv => PoolSound
    <2>1. SUFFICES ASSUME IInv PROVE PoolSound
      OBVIOUS
    <2>2. Types /\ BlocksAccounted
      BY <2>1 DEF IInv
    <2>3. TypeOK
      <3>1. \A b \in {ibuf, obuf} :
               b = NoBlock \/ (b.cap \in Caps /\ b.head + Len(b.data) <= b.cap)
        BY <2>2 DEF Types, Bufs
      <3>2. pool._total_mem \in Nat /\ \A c \in Caps : pool.idle[c] \in Nat
        BY <2>2, PoolFields, Parts
      <3>3. QED
        BY <2>2, <3>1, <3>2 DEF Types, TypeOK
    <2>4. Accounted(pool, <<ibuf, obuf>>, held)
      <3>1. ASSUME NEW c \in Caps
            PROVE  pool.idle[c] + held[c]
                      + Cardinality({i \in DOMAIN <<ibuf, obuf>> : <<ibuf, obuf>>[i].cap = c})
                     = pool.made[c]
        <4> DEFINE S == {i \in DOMAIN <<ibuf, obuf>> : <<ibuf, obuf>>[i].cap = c}
        <4>1. /\ pool.idle[c] \in Nat /\ pool.made[c] \in Nat /\ held[c] \in Nat
              /\ pool.idle[c] + held[c] + Own(ibuf, c) + Own(obuf, c) = pool.made[c]
          BY <2>2, PoolFields, Parts DEF Types, BlocksAccounted
        <4>2. Cardinality(S) = Own(ibuf, c) + Own(obuf, c)
          <5>1. S = {i \in {1, 2} : IF i = 1 THEN ibuf.cap = c ELSE obuf.cap = c}
            OBVIOUS
          <5>2. CASE ibuf.cap = c /\ obuf.cap = c
            <6>1. S = 1..2
              BY <5>1, <5>2
            <6>2. Cardinality(S) = 2
              BY <6>1, Intervals
            <6>3. QED
              BY <5>2, <6>2 DEF Own
          <5>3. CASE ibuf.cap = c /\ obuf.cap # c
            <6>1. S = {1}
              BY <5>1, <5>3
            <6>2. Cardinality(S) = 1
              BY <6>1, FS_Singleton
            <6>3. QED
              BY <5>3, <6>2 DEF Own
          <5>4. CASE ibuf.cap # c /\ obuf.cap = c
            <6>1. S = {2}
              BY <5>1, <5>4
            <6>2. Cardinality(S) = 1
              BY <6>1, FS_Singleton
            <6>3. QED
              BY <5>4, <6>2 DEF Own
          <5>5. CASE ibuf.cap # c /\ obuf.cap # c
            <6>1. S = {}
              BY <5>1, <5>5
            <6>2. Cardinality(S) = 0
              BY <6>1, FS_EmptySet
            <6>3. QED
              BY <5>5, <6>2 DEF Own
          <5>6. QED
            BY <5>2, <5>3, <5>4, <5>5
        <4>3. Own(ibuf, c) \in Nat /\ Own(obuf, c) \in Nat
          BY DEF Own
        <4> HIDE DEF S
        <4>4. pool.idle[c] + held[c] + Cardinality(S) = pool.made[c]
          BY <4>1, <4>2, <4>3
        <4>5. QED
          BY <4>4 DEF S
      <3>2. QED
        BY <3>1 DEF Accounted
    <2>5. WithinLimit(pool)
      <3>1. /\ Total(pool.made) = pool._total_mem + Total(Ones) /\ pool._total_mem < MemLimit
            /\ pool._total_mem \in Nat
        BY <2>2, PoolFields, Parts DEF Sized
      <3>2. Total(Ones) \in Nat
        <4>1. Ones \in [Caps -> Nat]
          BY DEF Ones
        <4>2. QED
          BY <4>1, TotalOfMore
      <3>3. Total(pool.made) < MemLimit + Total(Ones)
        BY <3>1, <3>2, CapsFinite
      <3>4. QED
        BY <3>3 DEF WithinLimit, Ones
    <2>6. QED
      BY <2>3, <2>4, <2>5 DEF PoolSound
  <1>2. QED
    BY <1>1, StreamInvariant, PTL

(***************************************************************************)
(* The assertions of reactor_buf fail for two reasons only: the pop of an  *)
(* empty body from a block that is gone, and the rollback of send_message  *)
(* behind other data.                                                      *)
(***************************************************************************)
THEOREM AssertionCauses == Spec => []AssertsOnlyIf
  <1>1. IInv => AssertsOnlyIf
    BY DEF IInv
  <1>2. QED
    BY <1>1, StreamInvariant, PTL
=============================================================================
