------------------------ MODULE RtpVideoQueueProofs ------------------------
(***************************************************************************)
(* Proofs about RtpVideoQueue, for any frames and blocks, any number of    *)
(* packets lost and overtaken, and any width of the sequence numbers that  *)
(* is twice the size of a block.                                           *)
(***************************************************************************)
EXTENDS RtpVideoQueue, FiniteSetTheorems, TLAPS

(* Indices of packets, and places between them, in a block.                *)
Places == 0..(Size + Extra)

(* The sequence number at a place of the block that begins at low.         *)
At(low, n) == U16(low + n)

-----------------------------------------------------------------------------
(* Sequence numbers.                                                       *)

LEMMA Modulus ==
  /\ SeqModulus \in Nat \ {0, 1} /\ Data \in Nat \ {0} /\ Parity \in Nat /\ Extra \in Nat
  /\ Size \in Nat \ {0} /\ Places \subseteq Nat
  /\ 2 * (Size + Extra) <= SeqModulus /\ Size + Extra <= SeqModulus \div 2
  /\ SeqModulus \div 2 \in Nat /\ 2 * (SeqModulus \div 2) <= SeqModulus
BY QueueAssumption DEF Size, Places

LEMMA U16Type == \A a \in Int : U16(a) \in 0..(SeqModulus - 1)
BY Modulus DEF U16

LEMMA U16Small == \A n \in 0..(SeqModulus - 1) : U16(n) = n
BY Modulus DEF U16

LEMMA U16Quotient == \A a \in Int : a \div SeqModulus \in Int /\ a = (a \div SeqModulus) * SeqModulus + U16(a)
BY Modulus, SMTT(30) DEF U16

LEMMA ModUnique ==
  ASSUME NEW m \in Nat \ {0}, NEW q \in Int, NEW r \in 0..(m - 1)
  PROVE  (q * m + r) % m = r
BY SMTT(30)

LEMMA U16Unique == \A q \in Int, r \in 0..(SeqModulus - 1) : U16(q * SeqModulus + r) = r
<1>1. SeqModulus \in Nat \ {0}
  BY Modulus
<1> QED
  BY <1>1, ModUnique DEF U16

LEMMA U16Shift == \A a, q \in Int : U16(a + q * SeqModulus) = U16(a)
<1> SUFFICES ASSUME NEW a \in Int, NEW q \in Int PROVE U16(a + q * SeqModulus) = U16(a)
  OBVIOUS
<1> DEFINE d == a \div SeqModulus
<1>1. d \in Int /\ a = d * SeqModulus + U16(a) /\ U16(a) \in 0..(SeqModulus - 1)
  BY U16Quotient, U16Type
<1> HIDE DEF d
<1>2. U16((d + q) * SeqModulus + U16(a)) = U16(a)
  BY <1>1, U16Unique
<1>3. a + q * SeqModulus = (d + q) * SeqModulus + U16(a)
  BY <1>1, Modulus
<1> QED
  BY <1>2, <1>3

LEMMA U16Sum ==
  \A a, b \in Int : /\ U16(U16(a) + b) = U16(a + b)
                    /\ U16(b - U16(a)) = U16(b - a)
<1> SUFFICES ASSUME NEW a \in Int, NEW b \in Int
             PROVE  U16(U16(a) + b) = U16(a + b) /\ U16(b - U16(a)) = U16(b - a)
  OBVIOUS
<1> DEFINE d == a \div SeqModulus
<1>1. d \in Int /\ a = d * SeqModulus + U16(a) /\ U16(a) \in 0..(SeqModulus - 1)
  BY U16Quotient, U16Type
<1> HIDE DEF d
<1>2. U16(a) + b = (a + b) + (0 - d) * SeqModulus
  BY <1>1, Modulus
<1>3. b - U16(a) = (b - a) + d * SeqModulus
  BY <1>1, Modulus
<1>4. U16((a + b) + (0 - d) * SeqModulus) = U16(a + b)
  BY <1>1, U16Shift
<1>5. U16((b - a) + d * SeqModulus) = U16(b - a)
  BY <1>1, U16Shift
<1> QED
  BY <1>2, <1>3, <1>4, <1>5

LEMMA U16Negative == \A n \in 1..SeqModulus : U16(0 - n) = SeqModulus - n
<1> SUFFICES ASSUME NEW n \in 1..SeqModulus PROVE U16(0 - n) = SeqModulus - n
  OBVIOUS
<1>1. U16((0 - n) + 1 * SeqModulus) = U16(0 - n)
  <2>1. \A q \in Int : U16((0 - n) + q * SeqModulus) = U16(0 - n)
    BY U16Shift, Modulus
  <2> QED
    BY <2>1
<1>2. (0 - n) + 1 * SeqModulus = SeqModulus - n /\ SeqModulus - n \in 0..(SeqModulus - 1)
  BY Modulus
<1> QED
  BY <1>1, <1>2, U16Small

(* Within a block sequence numbers are ordered as the places are.          *)
LEMMA Distance ==
  ASSUME NEW low \in Int, NEW i \in Places, NEW j \in Places
  PROVE  /\ At(low, i) \in 0..(SeqModulus - 1)
         /\ U16(At(low, i) - low) = i
         /\ U16(At(low, i) - At(low, j)) = U16(i - j)
         /\ U16(At(low, i) - At(low, j) - 1) = U16(i - j - 1)
         /\ U16(At(low, i) + 1) = At(low, i + 1)
<1>1. i \in Int /\ j \in Int /\ i \in 0..(SeqModulus - 1) /\ low + i \in Int /\ low + j \in Int
  BY Modulus DEF Places
<1>2. At(low, i) \in 0..(SeqModulus - 1) /\ At(low, j) \in 0..(SeqModulus - 1)
  BY <1>1, U16Type DEF At
<1>3. \A c \in Int : U16(At(low, i) + c) = U16((low + i) + c)
  BY <1>1, U16Sum DEF At
<1>4. \A c \in Int : U16(c - At(low, j)) = U16(c - (low + j))
  BY <1>1, U16Sum DEF At
<1>5. (0 - low) \in Int /\ (0 - At(low, j)) \in Int /\ (0 - At(low, j) - 1) \in Int
  BY <1>1, <1>2
<1>6. U16((low + i) - At(low, j)) = U16((low + i) - (low + j))
  BY <1>1, <1>4
<1>7. U16((low + i - 1) - At(low, j)) = U16((low + i - 1) - (low + j))
  BY <1>1, <1>4
<1>8. U16(At(low, i) + 1) = U16((low + i) + 1)
  BY <1>3
<1>9. U16(At(low, i) - low) = i
  <2>1. At(low, i) + (0 - low) = At(low, i) - low /\ (low + i) + (0 - low) = i
    BY <1>1, <1>2
  <2> QED
    BY <1>1, <1>3, <1>5, <2>1, U16Small
<1>10. U16(At(low, i) - At(low, j)) = U16(i - j)
  <2>1. /\ At(low, i) + (0 - At(low, j)) = At(low, i) - At(low, j)
        /\ (low + i) + (0 - At(low, j)) = (low + i) - At(low, j)
        /\ (low + i) - (low + j) = i - j
    BY <1>1, <1>2
  <2> QED
    BY <1>3, <1>5, <1>6, <2>1
<1>11. U16(At(low, i) - At(low, j) - 1) = U16(i - j - 1)
  <2>1. /\ At(low, i) + (0 - At(low, j) - 1) = At(low, i) - At(low, j) - 1
        /\ (low + i) + (0 - At(low, j) - 1) = (low + i - 1) - At(low, j)
        /\ (low + i - 1) - (low + j) = i - j - 1
    BY <1>1, <1>2
  <2> QED
    BY <1>3, <1>5, <1>7, <2>1
<1>12. (low + i) + 1 = low + (i + 1)
  BY <1>1
<1> QED
  BY <1>2, <1>8, <1>9, <1>10, <1>11, <1>12 DEF At

LEMMA Order ==
  ASSUME NEW low \in Int, NEW i \in 0..(Size + Extra - 1), NEW j \in Places
  PROVE  /\ IsBefore16(At(low, i), At(low, j)) <=> i < j
         /\ At(low, i) = At(low, j) <=> i = j
         /\ j < i => U16(At(low, i) - At(low, j) - 1) = i - j - 1
<1>1. i \in Nat /\ j \in Nat /\ i < Size + Extra /\ j <= Size + Extra /\ i \in Places
  BY Modulus DEF Places
<1>2. /\ At(low, i) \in Int /\ At(low, j) \in Int
      /\ U16(At(low, i) - At(low, j)) = U16(i - j)
      /\ U16(At(low, i) - At(low, j) - 1) = U16(i - j - 1)
  <2>1. At(low, i) \in 0..(SeqModulus - 1) /\ At(low, j) \in 0..(SeqModulus - 1)
    BY <1>1, Distance
  <2> QED
    BY <1>1, <2>1, Distance, Modulus
<1>3. CASE i < j
  <2>1. j - i \in 1..SeqModulus /\ i - j = 0 - (j - i)
    BY <1>1, <1>3, Modulus
  <2>2. U16(i - j) = SeqModulus - (j - i)
    BY <2>1, U16Negative
  <2>3. SeqModulus - (j - i) >= SeqModulus \div 2
    BY <1>1, Modulus
  <2>4. IsBefore16(At(low, i), At(low, j))
    BY <1>2, <2>2, <2>3 DEF IsBefore16
  <2>5. At(low, i) # At(low, j)
    BY <1>1, <1>3, Distance
  <2> QED
    BY <1>1, <1>3, <2>4, <2>5
<1>4. CASE ~(i < j)
  <2>1. i - j \in 0..(SeqModulus - 1) /\ i - j < Size + Extra
    BY <1>1, <1>4, Modulus
  <2>2. U16(i - j) = i - j
    BY <2>1, U16Small
  <2>3. At(low, i) = At(low, j) <=> i = j
    <3>1. U16(At(low, j) - At(low, j)) = 0
      <4>1. At(low, j) - At(low, j) = 0 /\ U16(0) = 0
        BY <1>2, U16Small, Modulus
      <4> QED
        BY <4>1
    <3> QED
      BY <1>1, <1>2, <2>2, <3>1
  <2>4. j < i => U16(At(low, i) - At(low, j) - 1) = i - j - 1
    <3>1. j < i => i - j - 1 \in 0..(SeqModulus - 1)
      BY <1>1, <2>1, Modulus
    <3> QED
      BY <1>2, <3>1, U16Small
  <2>5. ~IsBefore16(At(low, i), At(low, j))
    <3>1. ~(i - j >= SeqModulus \div 2)
      BY <1>1, <2>1, Modulus
    <3> QED
      BY <1>2, <2>2, <3>1 DEF IsBefore16
  <2> QED
    BY <1>4, <2>3, <2>4, <2>5
<1> QED
  BY <1>3, <1>4

-----------------------------------------------------------------------------
(* Counting the holes of a block.                                          *)

LEMMA Holes ==
  ASSUME NEW top \in Nat, NEW S \in SUBSET (0..top)
  PROVE  /\ IsFiniteSet(S) /\ Cardinality(S) \in Nat
         /\ IsFiniteSet((0..top) \ S) /\ Cardinality((0..top) \ S) \in Nat
         /\ Cardinality((0..top) \ S) + Cardinality(S) = top + 1
<1>1. IsFiniteSet(0..top) /\ Cardinality(0..top) = top + 1
  BY FS_Interval
<1>2. IsFiniteSet(S) /\ (0..top) \cap S = S
  BY <1>1, FS_Subset
<1>3. /\ IsFiniteSet((0..top) \ S)
      /\ Cardinality((0..top) \ S) = Cardinality(0..top) - Cardinality((0..top) \cap S)
  BY <1>1, FS_Difference
<1>4. Cardinality(S) \in Nat /\ Cardinality((0..top) \ S) \in Nat
  BY <1>2, <1>3, FS_CardinalityType
<1>5. Cardinality((0..top) \ S) = (top + 1) - Cardinality(S)
  BY <1>1, <1>2, <1>3
<1> QED
  BY <1>2, <1>3, <1>4, <1>5

(* A packet beyond the highest one leaves holes between the two.           *)
LEMMA HolesAbove ==
  ASSUME NEW top \in Nat, NEW S \in SUBSET (0..top), NEW x \in Nat, x > top
  PROVE  /\ Cardinality((0..x) \ (S \cup {x})) = Cardinality((0..top) \ S) + (x - top - 1)
         /\ Cardinality(S \cup {x}) = Cardinality(S) + 1
<1>1. S \in SUBSET (0..x) /\ S \cup {x} \in SUBSET (0..x) /\ x \notin S
  OBVIOUS
<1>2. /\ Cardinality((0..top) \ S) \in Nat /\ Cardinality(S) \in Nat /\ IsFiniteSet(S)
      /\ Cardinality((0..top) \ S) + Cardinality(S) = top + 1
  BY Holes
<1>3. /\ Cardinality((0..x) \ (S \cup {x})) \in Nat
      /\ Cardinality((0..x) \ (S \cup {x})) + Cardinality(S \cup {x}) = x + 1
  BY <1>1, Holes
<1>4. Cardinality(S \cup {x}) = Cardinality(S) + 1
  BY <1>1, <1>2, FS_AddElement
<1> QED
  BY <1>2, <1>3, <1>4

(* A packet below it fills one.                                            *)
LEMMA HolesBelow ==
  ASSUME NEW top \in Nat, NEW S \in SUBSET (0..top), NEW x \in 0..top, x \notin S
  PROVE  /\ Cardinality((0..top) \ (S \cup {x})) = Cardinality((0..top) \ S) - 1
         /\ Cardinality(S \cup {x}) = Cardinality(S) + 1
<1>1. S \cup {x} \in SUBSET (0..top)
  OBVIOUS
<1>2. /\ Cardinality((0..top) \ S) \in Nat /\ Cardinality(S) \in Nat /\ IsFiniteSet(S)
      /\ Cardinality((0..top) \ S) + Cardinality(S) = top + 1
  BY Holes
<1>3. /\ Cardinality((0..top) \ (S \cup {x})) \in Nat
      /\ Cardinality((0..top) \ (S \cup {x})) + Cardinality(S \cup {x}) = top + 1
  BY <1>1, Holes
<1>4. Cardinality(S \cup {x}) = Cardinality(S) + 1
  BY <1>2, FS_AddElement
<1> QED
  BY <1>2, <1>3, <1>4

(* Data and parity packets.                                                *)
LEMMA Kinds ==
  ASSUME NEW S, IsFiniteSet(S), NEW x \in Nat, x \notin S
  PROVE  /\ Cardinality({i \in S \cup {x} : i < Data}) =
              Cardinality({i \in S : i < Data}) + (IF x < Data THEN 1 ELSE 0)
         /\ Cardinality({i \in S \cup {x} : i >= Data}) =
              Cardinality({i \in S : i >= Data}) + (IF x < Data THEN 0 ELSE 1)
<1> DEFINE D(T) == {i \in T : i < Data}
           P(T) == {i \in T : i >= Data}
           U == S \cup {x}
<1>1. IsFiniteSet(D(S)) /\ IsFiniteSet(P(S)) /\ x \notin D(S) /\ x \notin P(S)
  BY FS_Subset
<1>2. Cardinality(D(S)) \in Nat /\ Cardinality(P(S)) \in Nat
  BY <1>1, FS_CardinalityType
<1>3. CASE x < Data
  <2>1. D(U) = D(S) \cup {x} /\ P(U) = P(S)
    BY <1>3, Modulus
  <2>2. Cardinality(D(S) \cup {x}) = Cardinality(D(S)) + 1
    BY <1>1, FS_AddElement
  <2> HIDE DEF D, P, U
  <2>3. /\ Cardinality(D(U)) = Cardinality(D(S)) + (IF x < Data THEN 1 ELSE 0)
        /\ Cardinality(P(U)) = Cardinality(P(S)) + (IF x < Data THEN 0 ELSE 1)
    BY <1>2, <1>3, <2>1, <2>2
  <2> QED
    BY <2>3 DEF D, P, U
<1>4. CASE ~(x < Data)
  <2>1. D(U) = D(S) /\ P(U) = P(S) \cup {x}
    BY <1>4, Modulus
  <2>2. Cardinality(P(S) \cup {x}) = Cardinality(P(S)) + 1
    BY <1>1, FS_AddElement
  <2> HIDE DEF D, P, U
  <2>3. /\ Cardinality(D(U)) = Cardinality(D(S)) + (IF x < Data THEN 1 ELSE 0)
        /\ Cardinality(P(U)) = Cardinality(P(S)) + (IF x < Data THEN 0 ELSE 1)
    BY <1>2, <1>4, <2>1, <2>2
  <2> QED
    BY <2>3 DEF D, P, U
<1> QED
  BY <1>3, <1>4

-----------------------------------------------------------------------------
(* A block whose counters agree with its packets.                          *)

Seqnums == 0..(SeqModulus - 1)
BlockRecord ==
  [lowest : Seqnums, next : Seqnums, highest : Seqnums, missing : Int, data : Int,
   parity : Int, lastBlock : Int, reported : BOOLEAN, pending : Seq(Packet)]

Indices(b) == {b.pending[i].index : i \in 1..Len(b.pending)}

InPlace(b) == \A i \in 1..Len(b.pending) : Seqnum(b.pending[i]) = At(b.lowest, b.pending[i].index)

Counts(b) ==
  \E top \in Indices(b), n \in Places :
    /\ b.highest = At(b.lowest, top) /\ \A i \in Indices(b) : i <= top
    /\ b.next = At(b.lowest, n) /\ \A i \in 0..(n - 1) : i \in Indices(b)
    /\ b.missing = Cardinality((0..top) \ Indices(b))
    /\ b.data = Cardinality({i \in Indices(b) : i < Data})
    /\ b.parity = Cardinality({i \in Indices(b) : i >= Data})
    /\ Len(b.pending) = Cardinality(Indices(b))

Agrees(b) == InPlace(b) /\ Counts(b)

LEMMA PacketFacts ==
  ASSUME NEW p \in Packet
  PROVE  /\ p.index \in 0..(Size + Extra - 1) /\ p.index \in Places /\ p.index \in Nat
         /\ p.id \in Nat /\ p.frame \in Nat /\ p.block \in Nat
         /\ Seqnum(p) \in Seqnums
<1>1. p.index \in 0..(Size + Extra - 1) /\ p.id \in Nat /\ p.frame \in Nat /\ p.block \in 0..3
  BY DEF Packet
<1> QED
  BY <1>1, Modulus, U16Type DEF Places, Seqnum, Seqnums

LEMMA IndicesType ==
  ASSUME NEW b \in BlockRecord
  PROVE  Indices(b) \subseteq 0..(Size + Extra - 1) /\ Indices(b) \subseteq Nat
<1>1. \A i \in 1..Len(b.pending) : b.pending[i] \in Packet
  BY DEF BlockRecord
<1> QED
  BY <1>1, PacketFacts DEF Indices

LEMMA QueuedFacts ==
  ASSUME NEW b \in BlockRecord, NEW p \in Packet
  PROVE  /\ Queued(b, p) \in BlockRecord
         /\ Queued(b, p).pending = Append(b.pending, p)
         /\ Len(Queued(b, p).pending) = Len(b.pending) + 1
         /\ \A i \in 1..Len(b.pending) : Queued(b, p).pending[i] = b.pending[i]
         /\ Queued(b, p).pending[Len(b.pending) + 1] = p
         /\ Indices(Queued(b, p)) = Indices(b) \cup {p.index}
         /\ Queued(b, p).next = IF Seqnum(p) = b.next THEN U16(Seqnum(p) + 1) ELSE b.next
         /\ Queued(b, p).lowest = b.lowest /\ Queued(b, p).highest = b.highest
         /\ Queued(b, p).missing = b.missing /\ Queued(b, p).data = b.data
         /\ Queued(b, p).parity = b.parity /\ Queued(b, p).reported = b.reported
         /\ Queued(b, p).lastBlock = b.lastBlock
<1> DEFINE c == Queued(b, p)
           nx == IF Seqnum(p) = b.next THEN U16(Seqnum(p) + 1) ELSE b.next
           s == Append(b.pending, p)
<1>1. nx \in Seqnums
  <2>1. b.next \in Seqnums
    BY DEF BlockRecord
  <2>2. U16(Seqnum(p) + 1) \in Seqnums
    BY PacketFacts, U16Type, Modulus DEF Seqnums
  <2> QED
    BY <2>1, <2>2
<1>2. /\ s \in Seq(Packet) /\ Len(s) = Len(b.pending) + 1 /\ Len(b.pending) \in Nat
      /\ \A i \in 1..Len(b.pending) : s[i] = b.pending[i]
      /\ s[Len(b.pending) + 1] = p
  <2>1. b.pending \in Seq(Packet)
    BY DEF BlockRecord
  <2> QED
    BY <2>1
<1>3. c = [b EXCEPT !.next = nx, !.pending = s]
  BY DEF Queued, Contiguous
<1> HIDE DEF c, nx, s
<1>4. /\ c \in BlockRecord /\ c.pending = s /\ c.next = nx
      /\ c.lowest = b.lowest /\ c.highest = b.highest /\ c.missing = b.missing
      /\ c.data = b.data /\ c.parity = b.parity /\ c.reported = b.reported
      /\ c.lastBlock = b.lastBlock
  BY <1>1, <1>2, <1>3 DEF BlockRecord
<1>5. Indices(c) = Indices(b) \cup {p.index}
  <2>1. 1..Len(s) = 1..Len(b.pending) \cup {Len(b.pending) + 1}
    BY <1>2
  <2> QED
    BY <1>2, <1>4, <2>1, SMTT(30) DEF Indices
<1> QED
  BY <1>2, <1>4, <1>5 DEF c, nx, s

LEMMA CountedFacts ==
  ASSUME NEW b \in BlockRecord, NEW p \in Packet, NEW above \in BOOLEAN,
         above <=> Len(b.pending) = 1 \/ IsBefore16(b.highest, Seqnum(p))
  PROVE  /\ Counted(b, p) \in BlockRecord
         /\ Counted(b, p).missing = IF above THEN b.missing + NewlyMissing(b, p) ELSE b.missing - 1
         /\ Counted(b, p).highest = IF above THEN Seqnum(p) ELSE b.highest
         /\ Counted(b, p).data = b.data + (IF IsData(b, p) THEN 1 ELSE 0)
         /\ Counted(b, p).parity = b.parity + (IF IsData(b, p) THEN 0 ELSE 1)
         /\ Counted(b, p).lowest = b.lowest /\ Counted(b, p).next = b.next
         /\ Counted(b, p).pending = b.pending /\ Counted(b, p).reported = b.reported
         /\ Counted(b, p).lastBlock = b.lastBlock
<1> DEFINE c == Counted(b, p)
           mi == IF above THEN b.missing + NewlyMissing(b, p) ELSE b.missing - 1
           hi == IF above THEN Seqnum(p) ELSE b.highest
           da == IF IsData(b, p) THEN b.data + 1 ELSE b.data
           pa == IF IsData(b, p) THEN b.parity ELSE b.parity + 1
<1>1. b.missing \in Int /\ b.data \in Int /\ b.parity \in Int /\ b.highest \in Seqnums /\ b.lowest \in Seqnums
  BY DEF BlockRecord
<1>2. NewlyMissing(b, p) \in Int
  <2>1. (Seqnum(p) - b.lowest) \in Int /\ (Seqnum(p) - b.highest - 1) \in Int
    BY <1>1, PacketFacts DEF Seqnums
  <2> QED
    BY <2>1, U16Type DEF NewlyMissing
<1>3. mi \in Int /\ hi \in Seqnums /\ da \in Int /\ pa \in Int
  BY <1>1, <1>2, PacketFacts
<1>4. c = [b EXCEPT !.missing = mi, !.highest = hi, !.data = da, !.parity = pa]
  BY DEF Counted
<1>5. /\ da = b.data + (IF IsData(b, p) THEN 1 ELSE 0)
      /\ pa = b.parity + (IF IsData(b, p) THEN 0 ELSE 1)
  BY <1>1
<1> HIDE DEF c, mi, hi, da, pa
<1>6. /\ c \in BlockRecord /\ c.missing = mi /\ c.highest = hi /\ c.data = da /\ c.parity = pa
      /\ c.lowest = b.lowest /\ c.next = b.next /\ c.pending = b.pending
      /\ c.reported = b.reported /\ c.lastBlock = b.lastBlock
  BY <1>3, <1>4 DEF BlockRecord
<1> QED
  BY <1>5, <1>6 DEF c, mi, hi

(* What is said of a packet by comparing sequence numbers.                 *)
LEMMA Compared ==
  ASSUME NEW b \in BlockRecord, NEW p \in Packet, Seqnum(p) = At(b.lowest, p.index),
         NEW n \in Places, NEW top \in 0..(Size + Extra - 1)
  PROVE  /\ IsData(b, p) <=> p.index < Data
         /\ Seqnum(p) = At(b.lowest, n) <=> p.index = n
         /\ IsBefore16(At(b.lowest, top), Seqnum(p)) <=> top < p.index
         /\ top < p.index => U16(Seqnum(p) - At(b.lowest, top) - 1) = p.index - top - 1
         /\ U16(At(b.lowest, n) + 1) = At(b.lowest, n + 1)
         /\ U16(Seqnum(p) - b.lowest) = p.index
<1>1. /\ b.lowest \in Int /\ p.index \in 0..(Size + Extra - 1) /\ p.index \in Places
      /\ top \in Places /\ Data \in Places
  BY PacketFacts, Modulus DEF BlockRecord, Seqnums, Places, Size
<1>2. IsBefore16(At(b.lowest, p.index), At(b.lowest, Data)) <=> p.index < Data
  BY <1>1, Order
<1>3. At(b.lowest, p.index) = At(b.lowest, n) <=> p.index = n
  BY <1>1, Order
<1>4. IsBefore16(At(b.lowest, top), At(b.lowest, p.index)) <=> top < p.index
  BY <1>1, Order
<1>5. top < p.index => U16(At(b.lowest, p.index) - At(b.lowest, top) - 1) = p.index - top - 1
  BY <1>1, Order
<1>6. U16(At(b.lowest, n) + 1) = At(b.lowest, n + 1)
  BY <1>1, Distance
<1>7. U16(At(b.lowest, p.index) - b.lowest) = p.index
  BY <1>1, Distance
<1>8. FirstParity(b) = At(b.lowest, Data)
  BY DEF FirstParity, At
<1> QED
  BY <1>2, <1>3, <1>4, <1>5, <1>6, <1>7, <1>8 DEF IsData

LEMMA InPlaceQueued ==
  ASSUME NEW b \in BlockRecord, InPlace(b), NEW p \in Packet, Seqnum(p) = At(b.lowest, p.index),
         NEW c, c.pending = Queued(b, p).pending, c.lowest = b.lowest
  PROVE  InPlace(c)
<1>1. /\ c.pending = Append(b.pending, p) /\ Len(c.pending) = Len(b.pending) + 1
      /\ \A i \in 1..Len(b.pending) : c.pending[i] = b.pending[i]
      /\ c.pending[Len(b.pending) + 1] = p
  BY QueuedFacts
<1>2. Len(b.pending) \in Nat
  BY DEF BlockRecord
<1>3. \A i \in 1..Len(c.pending) : i \in 1..Len(b.pending) \/ i = Len(b.pending) + 1
  BY <1>1, <1>2
<1> QED
  BY <1>1, <1>3 DEF InPlace

(* One more packet.                                                        *)
LEMMA GrowAgrees ==
  ASSUME NEW b \in BlockRecord, b.pending # <<>>, Agrees(b),
         NEW p \in Packet, Seqnum(p) = At(b.lowest, p.index), p.index \notin Indices(b),
         NEW c, c = Counted(Queued(b, p), p)
  PROVE  /\ c \in BlockRecord /\ Agrees(c)
         /\ c.pending = Append(b.pending, p)
         /\ c.lowest = b.lowest /\ c.reported = b.reported /\ c.lastBlock = b.lastBlock
         /\ (\A i \in Indices(b) : i < p.index) =>
              /\ c.missing >= b.missing
              /\ c.missing + Len(c.pending) = p.index + 1
<1> DEFINE q == Queued(b, p)
           k == p.index
<1>1. /\ q \in BlockRecord /\ q.pending = Append(b.pending, p)
      /\ Len(q.pending) = Len(b.pending) + 1 /\ Indices(q) = Indices(b) \cup {k}
      /\ q.next = IF Seqnum(p) = b.next THEN U16(Seqnum(p) + 1) ELSE b.next
      /\ q.lowest = b.lowest /\ q.highest = b.highest /\ q.missing = b.missing
      /\ q.data = b.data /\ q.parity = b.parity /\ q.reported = b.reported
      /\ q.lastBlock = b.lastBlock
  BY QueuedFacts
<1>2. PICK top \in Indices(b), n \in Places :
        /\ b.highest = At(b.lowest, top) /\ \A i \in Indices(b) : i <= top
        /\ b.next = At(b.lowest, n) /\ \A i \in 0..(n - 1) : i \in Indices(b)
        /\ b.missing = Cardinality((0..top) \ Indices(b))
        /\ b.data = Cardinality({i \in Indices(b) : i < Data})
        /\ b.parity = Cardinality({i \in Indices(b) : i >= Data})
        /\ Len(b.pending) = Cardinality(Indices(b))
  BY DEF Agrees, Counts
<1>3. /\ k \in 0..(Size + Extra - 1) /\ k \in Nat /\ n \in Nat
      /\ Indices(b) \subseteq 0..(Size + Extra - 1) /\ top \in 0..(Size + Extra - 1) /\ top \in Nat
      /\ Indices(b) \in SUBSET (0..top)
  BY <1>2, PacketFacts, IndicesType, Modulus DEF Places
<1>4. /\ IsData(q, p) <=> k < Data
      /\ Seqnum(p) = At(b.lowest, n) <=> k = n
      /\ IsBefore16(At(b.lowest, top), Seqnum(p)) <=> top < k
      /\ top < k => U16(Seqnum(p) - At(b.lowest, top) - 1) = k - top - 1
      /\ U16(At(b.lowest, n) + 1) = At(b.lowest, n + 1)
  <2>1. IsData(q, p) <=> k < Data
    BY <1>1, <1>3, Compared
  <2> QED
    BY <1>3, <2>1, Compared
<1>5. Len(q.pending) # 1 /\ Len(b.pending) \in Nat /\ Len(b.pending) >= 1
  BY <1>1 DEF BlockRecord
<1> DEFINE above == Len(q.pending) = 1 \/ IsBefore16(q.highest, Seqnum(p))
<1>6. above \in BOOLEAN /\ (above <=> top < k)
  BY <1>1, <1>2, <1>4, <1>5
<1>7. /\ c \in BlockRecord
      /\ c.missing = IF above THEN q.missing + NewlyMissing(q, p) ELSE q.missing - 1
      /\ c.highest = IF above THEN Seqnum(p) ELSE q.highest
      /\ c.data = q.data + (IF IsData(q, p) THEN 1 ELSE 0)
      /\ c.parity = q.parity + (IF IsData(q, p) THEN 0 ELSE 1)
      /\ c.lowest = q.lowest /\ c.next = q.next /\ c.pending = q.pending
      /\ c.reported = q.reported /\ c.lastBlock = q.lastBlock
  BY <1>1, <1>6, CountedFacts
<1>8. Indices(c) = Indices(b) \cup {k}
  BY <1>1, <1>7 DEF Indices
<1>9. NewlyMissing(q, p) = U16(Seqnum(p) - q.highest - 1)
  BY <1>5 DEF NewlyMissing
<1> HIDE DEF q, k, above
<1>10. InPlace(c)
  BY <1>1, <1>7, InPlaceQueued DEF Agrees, q
<1>11. /\ IsFiniteSet(Indices(b)) /\ Cardinality(Indices(b)) \in Nat
       /\ Cardinality((0..top) \ Indices(b)) \in Nat
  BY <1>3, Holes
<1>12. /\ c.data = Cardinality({i \in Indices(c) : i < Data})
       /\ c.parity = Cardinality({i \in Indices(c) : i >= Data})
  <2>1. k \notin Indices(b)
    BY DEF k
  <2>2. /\ Cardinality({i \in Indices(b) \cup {k} : i < Data}) =
             Cardinality({i \in Indices(b) : i < Data}) + (IF k < Data THEN 1 ELSE 0)
        /\ Cardinality({i \in Indices(b) \cup {k} : i >= Data}) =
             Cardinality({i \in Indices(b) : i >= Data}) + (IF k < Data THEN 0 ELSE 1)
    BY <1>3, <1>11, <2>1, Kinds
  <2> QED
    BY <1>1, <1>2, <1>4, <1>7, <1>8, <2>2
<1>13. PICK m \in Places : c.next = At(c.lowest, m) /\ \A i \in 0..(m - 1) : i \in Indices(c)
  <2>1. CASE k = n
    <3>1. n + 1 \in Places /\ c.next = At(c.lowest, n + 1)
      BY <1>1, <1>2, <1>3, <1>4, <1>7, <2>1, Modulus DEF Places
    <3>2. \A i \in 0..((n + 1) - 1) : i \in Indices(c)
      BY <1>2, <1>3, <1>8, <2>1
    <3> QED
      BY <3>1, <3>2
  <2>2. CASE k # n
    BY <1>1, <1>2, <1>4, <1>7, <1>8, <2>2
  <2> QED
    BY <2>1, <2>2
<1>14. CASE top < k
  <2>1. /\ Cardinality((0..k) \ Indices(c)) = Cardinality((0..top) \ Indices(b)) + (k - top - 1)
        /\ Cardinality(Indices(c)) = Cardinality(Indices(b)) + 1
    <3>1. /\ Cardinality((0..k) \ (Indices(b) \cup {k})) =
               Cardinality((0..top) \ Indices(b)) + (k - top - 1)
          /\ Cardinality(Indices(b) \cup {k}) = Cardinality(Indices(b)) + 1
      BY <1>3, <1>14, HolesAbove
    <3> QED
      BY <1>8, <3>1
  <2>2. c.missing = Cardinality((0..k) \ Indices(c))
    BY <1>1, <1>2, <1>4, <1>6, <1>7, <1>9, <1>14, <2>1
  <2>3. c.highest = At(c.lowest, k) /\ k \in Indices(c)
    BY <1>1, <1>6, <1>7, <1>8, <1>14 DEF k
  <2>4. \A i \in Indices(c) : i <= k
    BY <1>2, <1>3, <1>8, <1>14
  <2>5. Len(c.pending) = Cardinality(Indices(c))
    BY <1>1, <1>2, <1>7, <2>1
  <2>6. Agrees(c)
    BY <1>10, <1>12, <1>13, <2>2, <2>3, <2>4, <2>5 DEF Agrees, Counts
  <2>7. c.missing >= b.missing /\ c.missing + Len(c.pending) = k + 1
    <3>1. Cardinality((0..top) \ Indices(b)) + Cardinality(Indices(b)) = top + 1
      BY <1>3, Holes
    <3>2. /\ b.missing \in Nat /\ b.missing + Cardinality(Indices(b)) = top + 1
          /\ c.missing = b.missing + (k - top - 1)
          /\ Len(c.pending) = Cardinality(Indices(b)) + 1
      BY <1>2, <1>11, <2>1, <2>2, <2>5, <3>1
    <3>3. ASSUME NEW h \in Nat, NEW x \in Nat, h + x = top + 1
          PROVE  /\ h + (k - top - 1) >= h
                 /\ (h + (k - top - 1)) + (x + 1) = k + 1
      <4>1. k \in Nat /\ top \in Nat /\ top < k
        BY <1>3, <1>14
      <4> QED
        BY <3>3, <4>1, SMTT(30)
    <3>4. /\ b.missing + (k - top - 1) >= b.missing
          /\ (b.missing + (k - top - 1)) + (Cardinality(Indices(b)) + 1) = k + 1
      BY <1>11, <3>2, <3>3
    <3> QED
      BY <3>2, <3>4
  <2> QED
    BY <1>1, <1>7, <2>6, <2>7 DEF k
<1>15. CASE ~(top < k)
  <2>1. k \in 0..top /\ k \notin Indices(b)
    BY <1>3, <1>15 DEF k
  <2>2. /\ Cardinality((0..top) \ Indices(c)) = Cardinality((0..top) \ Indices(b)) - 1
        /\ Cardinality(Indices(c)) = Cardinality(Indices(b)) + 1
    <3>1. /\ Cardinality((0..top) \ (Indices(b) \cup {k})) =
               Cardinality((0..top) \ Indices(b)) - 1
          /\ Cardinality(Indices(b) \cup {k}) = Cardinality(Indices(b)) + 1
      BY <1>3, <2>1, HolesBelow
    <3> QED
      BY <1>8, <3>1
  <2>3. c.missing = Cardinality((0..top) \ Indices(c))
    BY <1>1, <1>2, <1>6, <1>7, <1>15, <2>2
  <2>4. c.highest = At(c.lowest, top) /\ top \in Indices(c)
    BY <1>1, <1>2, <1>6, <1>7, <1>8, <1>15
  <2>5. \A i \in Indices(c) : i <= top
    BY <1>2, <1>3, <1>8, <1>15
  <2>6. Len(c.pending) = Cardinality(Indices(c))
    BY <1>1, <1>2, <1>7, <2>2
  <2>7. Agrees(c)
    BY <1>10, <1>12, <1>13, <2>3, <2>4, <2>5, <2>6 DEF Agrees, Counts
  <2>8. ~(\A i \in Indices(b) : i < k)
    BY <1>3, <1>15
  <2> QED
    BY <1>1, <1>7, <2>7, <2>8 DEF k
<1> QED
  BY <1>14, <1>15

(* The first packet of a block.                                            *)
LEMMA FirstAgrees ==
  ASSUME NEW p \in Packet, NEW last \in Int,
         NEW c, c = Counted(Queued(Block(FecLowest(p), last), p), p)
  PROVE  /\ c \in BlockRecord /\ Agrees(c)
         /\ c.pending = <<p>> /\ c.reported = FALSE /\ c.lastBlock = last
         /\ c.missing + Len(c.pending) = p.index + 1
<1> DEFINE low == FecLowest(p)
           b == Block(low, last)
           q == Queued(b, p)
           k == p.index
<1>1. /\ k \in 0..(Size + Extra - 1) /\ k \in Nat /\ k \in Places
      /\ Seqnum(p) \in Seqnums /\ Seqnum(p) \in Int /\ SeqModulus \in Nat \ {0, 1}
  BY PacketFacts, Modulus DEF Seqnums
<1>2. low \in Seqnums /\ low \in Int /\ 0 \in Seqnums
  <2>1. Seqnum(p) - k \in Int
    BY <1>1
  <2>2. low \in 0..(SeqModulus - 1)
    BY <2>1, U16Type DEF FecLowest
  <2> QED
    BY <1>1, <2>2 DEF Seqnums
<1>3. /\ b \in BlockRecord /\ b.lowest = low /\ b.next = low /\ b.highest = 0 /\ b.missing = 0
      /\ b.data = 0 /\ b.parity = 0 /\ b.reported = FALSE /\ b.lastBlock = last
      /\ b.pending = <<>>
  <2>1. <<>> \in Seq(Packet)
    OBVIOUS
  <2> HIDE DEF low
  <2> QED
    BY <1>2, <2>1 DEF BlockRecord, Block
<1>4. Len(b.pending) = 0 /\ Indices(b) = {}
  BY <1>3 DEF Indices
<1>5. Seqnum(p) = At(low, k)
  <2>1. U16(U16(Seqnum(p) - k) + k) = U16((Seqnum(p) - k) + k)
    <3>1. \A a, d \in Int : U16(U16(a) + d) = U16(a + d)
      BY U16Sum
    <3>2. Seqnum(p) - k \in Int /\ k \in Int
      BY <1>1
    <3> QED
      BY <3>1, <3>2
  <2>2. (Seqnum(p) - k) + k = Seqnum(p)
    BY <1>1
  <2>3. U16(Seqnum(p)) = Seqnum(p)
    BY <1>1, U16Small DEF Seqnums
  <2> QED
    BY <2>1, <2>2, <2>3 DEF At, FecLowest
<1>6. low = At(low, 0)
  BY <1>2, U16Small DEF At, Seqnums
<1> HIDE DEF low, b
<1>7. /\ q \in BlockRecord /\ q.pending = Append(b.pending, p)
      /\ Len(q.pending) = 1 /\ Indices(q) = {} \cup {k}
      /\ q.next = IF Seqnum(p) = b.next THEN U16(Seqnum(p) + 1) ELSE b.next
      /\ q.lowest = low /\ q.missing = 0 /\ q.data = 0 /\ q.parity = 0
      /\ q.reported = FALSE /\ q.lastBlock = last
  <2>1. /\ q \in BlockRecord /\ q.pending = Append(b.pending, p)
        /\ Len(q.pending) = Len(b.pending) + 1 /\ Indices(q) = Indices(b) \cup {k}
        /\ q.next = IF Seqnum(p) = b.next THEN U16(Seqnum(p) + 1) ELSE b.next
        /\ q.lowest = b.lowest /\ q.missing = b.missing /\ q.data = b.data
        /\ q.parity = b.parity /\ q.reported = b.reported /\ q.lastBlock = b.lastBlock
    BY <1>3, QueuedFacts
  <2> QED
    BY <1>3, <1>4, <2>1
<1>8. q.pending = <<p>>
  BY <1>3, <1>7
<1>9. /\ IsData(q, p) <=> k < Data
      /\ Seqnum(p) = At(low, 0) <=> k = 0
      /\ U16(At(low, 0) + 1) = At(low, 0 + 1)
      /\ U16(Seqnum(p) - low) = k
  <2>1. Seqnum(p) = At(q.lowest, p.index) /\ 0 \in Places /\ 0 \in 0..(Size + Extra - 1)
    BY <1>1, <1>5, <1>7, Modulus DEF Places
  <2> QED
    BY <1>7, <2>1, Compared
<1>10. /\ c \in BlockRecord
       /\ c.missing = q.missing + NewlyMissing(q, p)
       /\ c.highest = Seqnum(p)
       /\ c.data = q.data + (IF IsData(q, p) THEN 1 ELSE 0)
       /\ c.parity = q.parity + (IF IsData(q, p) THEN 0 ELSE 1)
       /\ c.lowest = q.lowest /\ c.next = q.next /\ c.pending = q.pending
       /\ c.reported = q.reported /\ c.lastBlock = q.lastBlock
  <2> DEFINE above == Len(q.pending) = 1 \/ IsBefore16(q.highest, Seqnum(p))
  <2>1. above \in BOOLEAN /\ above
    BY <1>7
  <2>2. c = Counted(q, p)
    BY DEF b, low
  <2>3. /\ Counted(q, p) \in BlockRecord
        /\ Counted(q, p).missing = IF above THEN q.missing + NewlyMissing(q, p) ELSE q.missing - 1
        /\ Counted(q, p).highest = IF above THEN Seqnum(p) ELSE q.highest
        /\ Counted(q, p).data = q.data + (IF IsData(q, p) THEN 1 ELSE 0)
        /\ Counted(q, p).parity = q.parity + (IF IsData(q, p) THEN 0 ELSE 1)
        /\ Counted(q, p).lowest = q.lowest /\ Counted(q, p).next = q.next
        /\ Counted(q, p).pending = q.pending /\ Counted(q, p).reported = q.reported
        /\ Counted(q, p).lastBlock = q.lastBlock
    BY <1>7, <2>1, CountedFacts
  <2> HIDE DEF above
  <2> QED
    BY <2>1, <2>2, <2>3
<1>11. NewlyMissing(q, p) = k
  BY <1>7, <1>9 DEF NewlyMissing
<1>12. Indices(c) = {k} /\ Len(c.pending) = 1 /\ c.pending = <<p>>
  BY <1>7, <1>8, <1>10 DEF Indices
<1>13. InPlace(c)
  BY <1>5, <1>7, <1>10, <1>12 DEF InPlace
<1> HIDE DEF q, k
<1>14. /\ c.data = Cardinality({i \in Indices(c) : i < Data})
       /\ c.parity = Cardinality({i \in Indices(c) : i >= Data})
  <2>1. {i \in {} : i < Data} = {} /\ {i \in {} : i >= Data} = {} /\ k \notin {}
    OBVIOUS
  <2>2. IsFiniteSet({}) /\ Cardinality({}) = 0
    BY FS_EmptySet
  <2>3. /\ Cardinality({i \in {} \cup {k} : i < Data}) =
             Cardinality({i \in {} : i < Data}) + (IF k < Data THEN 1 ELSE 0)
        /\ Cardinality({i \in {} \cup {k} : i >= Data}) =
             Cardinality({i \in {} : i >= Data}) + (IF k < Data THEN 0 ELSE 1)
    BY <1>1, <2>1, <2>2, Kinds
  <2>4. {} \cup {k} = Indices(c)
    BY <1>12
  <2>5. /\ Cardinality({i \in Indices(c) : i < Data}) = 0 + (IF k < Data THEN 1 ELSE 0)
        /\ Cardinality({i \in Indices(c) : i >= Data}) = 0 + (IF k < Data THEN 0 ELSE 1)
    BY <2>1, <2>2, <2>3, <2>4
  <2> QED
    BY <1>7, <1>9, <1>10, <2>5
<1>15. /\ Cardinality((0..k) \ Indices(c)) = k /\ Cardinality(Indices(c)) = 1
  <2>1. {k} \in SUBSET (0..k) /\ Cardinality({k}) = 1
    <3>1. {k} \in SUBSET (0..k)
      BY <1>1
    <3>2. Cardinality({k}) = 1
      BY FS_Singleton
    <3> QED
      BY <3>1, <3>2
  <2>2. /\ Cardinality((0..k) \ {k}) \in Nat
        /\ Cardinality((0..k) \ {k}) + Cardinality({k}) = k + 1
    BY <1>1, <2>1, Holes
  <2>3. Cardinality((0..k) \ {k}) = k
    BY <1>1, <2>1, <2>2
  <2> QED
    BY <1>12, <2>1, <2>3
<1>16. PICK m \in Places : c.next = At(c.lowest, m) /\ \A i \in 0..(m - 1) : i \in Indices(c)
  <2>0. 0 \in Places /\ 1 \in Places
    BY Modulus DEF Places
  <2>1. CASE k = 0
    <3>1. c.next = At(c.lowest, 0 + 1)
      BY <1>3, <1>6, <1>7, <1>9, <1>10, <2>1
    <3>2. \A i \in 0..(1 - 1) : i \in Indices(c)
      BY <1>12, <2>1
    <3> QED
      BY <2>0, <3>1, <3>2
  <2>2. CASE k # 0
    <3>1. c.next = At(c.lowest, 0)
      BY <1>3, <1>6, <1>7, <1>9, <1>10, <2>2
    <3>2. \A i \in 0..(0 - 1) : i \in Indices(c)
      OBVIOUS
    <3> QED
      BY <2>0, <3>1, <3>2
  <2> QED
    BY <2>1, <2>2
<1>17. c.missing = k
  BY <1>1, <1>7, <1>10, <1>11
<1>18. Counts(c)
  <2>1. k \in Indices(c) /\ \A i \in Indices(c) : i <= k
    BY <1>1, <1>12
  <2>2. c.highest = At(c.lowest, k)
    BY <1>5, <1>7, <1>10 DEF k
  <2> QED
    BY <1>12, <1>14, <1>15, <1>16, <1>17, <2>1, <2>2 DEF Counts
<1>19. c.missing + Len(c.pending) = k + 1
  BY <1>12, <1>17
<1> QED
  BY <1>7, <1>10, <1>12, <1>13, <1>18, <1>19 DEF Agrees, k

-----------------------------------------------------------------------------
(* The inductive invariant.                                                *)

Held == {buf.pending[i] : i \in 1..Len(buf.pending)}

(* The packets that may still matter, and the one to come.                 *)
Sent == net \cup echo \cup Held

SameBlock(p, q) == p.frame = q.frame /\ p.block = q.block
NotAfter(p, q) == p.frame < q.frame \/ (p.frame = q.frame /\ p.block <= q.block)

StateType ==
  /\ currentFrameNumber \in Nat \ {0} /\ multiFecCurrentBlockNumber \in Nat
  /\ buf \in BlockRecord /\ receivedOosData \in BOOLEAN
  /\ net \subseteq Packet /\ echo \subseteq Packet /\ lost \subseteq Packet /\ toSend \in Packet
  /\ faults \in [reorder : Nat, dup : Nat]

FromBlocks ==
  /\ toSend.frame \in 1..(Len(Blocks) + 1)
  /\ toSend.frame \in Frames => toSend.block < Blocks[toSend.frame]
  /\ \A p \in Sent : /\ p.frame \in Frames /\ p.block < Blocks[p.frame]
                     /\ NotAfter(p, toSend) /\ p.id < toSend.id

(* A block's packets are numbered one after the other.                     *)
Aligned == \A p, q \in Sent \cup {toSend} : SameBlock(p, q) => p.id - p.index = q.id - q.index

OfCurrentBlock ==
  /\ \A p \in Held : p.frame = currentFrameNumber /\ p.block = multiFecCurrentBlockNumber
  /\ buf.pending # <<>> =>
       /\ currentFrameNumber \in Frames /\ multiFecCurrentBlockNumber <= buf.lastBlock
       /\ buf.lastBlock = Blocks[currentFrameNumber] - 1

Once ==
  /\ echo = {}
  /\ \A p, q \in net : p.id = q.id => p = q
  /\ \A p \in net, q \in Held : p.id # q.id

(* The counters are right as long as nothing was repeated.                 *)
QueueInv ==
  /\ StateType /\ FromBlocks /\ Aligned /\ OfCurrentBlock
  /\ faults.dup = 0 => Once /\ (buf.pending # <<>> => Agrees(buf))

LEMMA BlocksType ==
  /\ Frames = 1..Len(Blocks) /\ Len(Blocks) \in Nat
  /\ \A f \in Frames : Blocks[f] \in 1..4
BY QueueAssumption DEF Frames

LEMMA HeldFacts ==
  ASSUME StateType
  PROVE  /\ Held \subseteq Packet /\ Len(buf.pending) \in Nat
         /\ buf.pending # <<>> <=> Len(buf.pending) >= 1
         /\ buf.pending # <<>> => buf.pending[1] \in Held
         /\ buf.pending = <<>> => Held = {}
<1>1. buf.pending \in Seq(Packet)
  BY DEF StateType, BlockRecord
<1>2. /\ Len(buf.pending) \in Nat
      /\ \A i \in 1..Len(buf.pending) : buf.pending[i] \in Packet
  BY <1>1
<1>3. buf.pending # <<>> <=> Len(buf.pending) >= 1
  BY <1>1
<1> QED
  BY <1>2, <1>3 DEF Held

(* Packets of one block are at their places, or all are not.               *)
LEMMA SamePlace ==
  ASSUME NEW low \in Int, NEW p \in Packet, NEW q \in Packet,
         Seqnum(q) = At(low, q.index), p.id - p.index = q.id - q.index
  PROVE  Seqnum(p) = At(low, p.index)
<1> DEFINE d == p.index - q.index
<1>1. /\ p.id \in Int /\ q.id \in Int /\ p.index \in Int /\ q.index \in Int /\ d \in Int
  BY PacketFacts
<1>2. \A a, e \in Int : U16(U16(a) + e) = U16(a + e)
  BY U16Sum
<1>3. U16(U16(q.id) + d) = U16(q.id + d)
  BY <1>1, <1>2
<1>4. U16(U16(low + q.index) + d) = U16((low + q.index) + d)
  <2>1. low + q.index \in Int
    BY <1>1
  <2> QED
    BY <1>1, <1>2, <2>1
<1>5. U16(q.id) = U16(low + q.index)
  BY DEF Seqnum, At
<1>6. q.id + d = p.id /\ (low + q.index) + d = low + p.index
  <2> DEFINE a == p.id
             b == q.id
             i == p.index
             j == q.index
  <2>1. a \in Int /\ b \in Int /\ i \in Int /\ j \in Int /\ a - i = b - j /\ d = i - j
    BY <1>1
  <2> HIDE DEF a, b, i, j, d
  <2>2. b + d = a /\ (low + j) + d = low + i
    BY <2>1
  <2> QED
    BY <2>2 DEF a, b, i, j
<1>7. U16(q.id + d) = U16((low + q.index) + d)
  BY <1>3, <1>4, <1>5
<1> HIDE DEF d
<1>8. U16(p.id) = U16(low + p.index)
  BY <1>6, <1>7
<1> QED
  BY <1>8 DEF Seqnum, At

LEMMA WithinBlock ==
  ASSUME NEW b \in BlockRecord, NEW p \in Packet, Seqnum(p) = At(b.lowest, p.index),
         ~IsBefore16(HighestSeqnum(b), Seqnum(p))
  PROVE  p.index + 1 <= Size
<1> DEFINE t == Size - 1
<1>1. t \in 0..(Size + Extra - 1) /\ 0 \in Places /\ p.index \in Nat /\ Size \in Nat
  BY PacketFacts, Modulus DEF Places
<1>2. HighestSeqnum(b) = At(b.lowest, t)
  <2>1. b.lowest + Size - 1 = b.lowest + t
    BY <1>1 DEF BlockRecord, Seqnums
  <2> QED
    BY <2>1 DEF HighestSeqnum, At
<1>3. IsBefore16(At(b.lowest, t), Seqnum(p)) <=> t < p.index
  <2> HIDE DEF t
  <2> QED
    BY <1>1, Compared
<1> QED
  BY <1>1, <1>2, <1>3

LEMMA RecoveredNextType == \A b \in BlockRecord : RecoveredNext(b) \in Seqnums
<1> SUFFICES ASSUME NEW b \in BlockRecord PROVE RecoveredNext(b) \in Seqnums
  OBVIOUS
<1> DEFINE recovered == {Seqnum(Recovered(b)[i]) : i \in DOMAIN Recovered(b)}
           run == {n \in 0..(Data - 1) : \A m \in 0..n : U16(b.next + m) \in recovered}
<1>1. IsFiniteSet(run)
  <2>1. IsFiniteSet(0..(Data - 1))
    BY FS_Interval, Modulus
  <2> QED
    BY <2>1, FS_Subset
<1>2. Cardinality(run) \in Nat
  BY <1>1, FS_CardinalityType
<1>3. RecoveredNext(b) = U16(b.next + Cardinality(run))
  BY DEF RecoveredNext
<1> HIDE DEF run, recovered
<1>4. b.next + Cardinality(run) \in Int
  BY <1>2 DEF BlockRecord, Seqnums
<1> QED
  BY <1>3, <1>4, U16Type DEF Seqnums

(* An accepted packet begins a block or joins the one being collected.     *)
LEMMA CollectedFacts ==
  ASSUME StateType, OfCurrentBlock,
         NEW p \in Packet, p.frame \in Frames, p.block < Blocks[p.frame], Accepted(p),
         NEW c, c = Collected(p)
  PROVE  /\ c \in BlockRecord
         /\ c.pending = Append(IF BlockStarts(p) THEN <<>> ELSE buf.pending, p)
         /\ c.lastBlock = Blocks[p.frame] - 1 /\ p.block <= c.lastBlock
         /\ c.reported = IF BlockStarts(p) THEN FALSE ELSE buf.reported
         /\ Collected(p) = IF BlockStarts(p)
                           THEN Counted(Queued(Block(FecLowest(p), Blocks[p.frame] - 1), p), p)
                           ELSE Counted(Queued(buf, p), p)
<1>1. /\ Blocks[p.frame] - 1 \in Int /\ p.block \in Nat /\ buf \in BlockRecord
      /\ p.block <= Blocks[p.frame] - 1
  <2>1. Blocks[p.frame] \in 1..4
    BY BlocksType
  <2>2. p.block \in Nat
    BY PacketFacts
  <2> QED
    BY <2>1, <2>2 DEF StateType
<1>2. CASE BlockStarts(p)
  <2> DEFINE last == Blocks[p.frame] - 1
  <2>1. c = Counted(Queued(Block(FecLowest(p), last), p), p)
    BY <1>2 DEF Collected, BlockOf
  <2>2. /\ c \in BlockRecord /\ c.pending = <<p>> /\ c.reported = FALSE
        /\ c.lastBlock = last
    <3>1. last \in Int
      BY <1>1
    <3> HIDE DEF last
    <3> QED
      BY <2>1, <3>1, FirstAgrees, ZenonT(30)
  <2>3. <<p>> = Append(<<>>, p)
    OBVIOUS
  <2> QED
    BY <1>1, <1>2, <2>1, <2>2, <2>3
<1>3. CASE ~BlockStarts(p)
  <2>1. c = Counted(Queued(buf, p), p)
    BY <1>3 DEF Collected, BlockOf
  <2> DEFINE q == Queued(buf, p)
             above == Len(q.pending) = 1 \/ IsBefore16(q.highest, Seqnum(p))
  <2>2. /\ q \in BlockRecord /\ q.pending = Append(buf.pending, p)
        /\ q.reported = buf.reported /\ q.lastBlock = buf.lastBlock
    BY <1>1, QueuedFacts
  <2>3. above \in BOOLEAN
    OBVIOUS
  <2>4. /\ c \in BlockRecord /\ c.pending = q.pending
        /\ c.reported = q.reported /\ c.lastBlock = q.lastBlock
    <3>1. q \in BlockRecord /\ c = Counted(q, p)
      BY <2>1, <2>2
    <3>2. above <=> Len(q.pending) = 1 \/ IsBefore16(q.highest, Seqnum(p))
      OBVIOUS
    <3> HIDE DEF q, above
    <3>3. /\ Counted(q, p) \in BlockRecord
          /\ Counted(q, p).missing = IF above THEN q.missing + NewlyMissing(q, p) ELSE q.missing - 1
          /\ Counted(q, p).pending = q.pending
          /\ Counted(q, p).reported = q.reported /\ Counted(q, p).lastBlock = q.lastBlock
      BY <2>3, <3>1, <3>2, CountedFacts
    <3> QED
      BY <3>1, <3>3
  <2>5. buf.lastBlock = Blocks[p.frame] - 1
    BY <1>3 DEF BlockStarts, OfCurrentBlock
  <2> HIDE DEF q, above
  <2> QED
    BY <1>1, <1>3, <2>1, <2>2, <2>4, <2>5 DEF q
<1> QED
  BY <1>2, <1>3

LEMMA CollectedAgrees ==
  ASSUME StateType, OfCurrentBlock, buf.pending # <<>> => Agrees(buf),
         NEW p \in Packet, p.frame \in Frames, p.block < Blocks[p.frame], Accepted(p),
         \A q \in Held : SameBlock(p, q) => p.id - p.index = q.id - q.index,
         \A q \in Held : p.id # q.id,
         NEW c, c = Collected(p)
  PROVE  /\ Agrees(c)
         /\ ~BlockStarts(p) /\ (\A q \in Held : q.id < p.id) =>
              /\ c.missing >= buf.missing
              /\ c.missing + Len(c.pending) <= Size
<1>1. Blocks[p.frame] - 1 \in Int /\ buf \in BlockRecord
  <2>1. Blocks[p.frame] \in 1..4
    BY BlocksType
  <2> QED
    BY <2>1 DEF StateType
<1>2. CASE BlockStarts(p)
  <2>1. c = Counted(Queued(Block(FecLowest(p), Blocks[p.frame] - 1), p), p)
    BY <1>2 DEF Collected, BlockOf
  <2> QED
    BY <1>1, <1>2, <2>1, FirstAgrees
<1>3. CASE ~BlockStarts(p)
  <2>1. c = Counted(Queued(buf, p), p)
    BY <1>3 DEF Collected, BlockOf
  <2>2. /\ buf.pending # <<>> /\ Agrees(buf)
        /\ p.frame = currentFrameNumber /\ p.block = multiFecCurrentBlockNumber
    BY <1>3 DEF BlockStarts
  <2>3. /\ Held \subseteq Packet /\ Len(buf.pending) \in Nat
        /\ 1 \in 1..Len(buf.pending) /\ buf.pending[1] \in Held
    BY <2>2, HeldFacts
  <2>4. \A q \in Held : p.id - p.index = q.id - q.index
    BY <2>2 DEF OfCurrentBlock, SameBlock
  <2>5. Seqnum(p) = At(buf.lowest, p.index)
    <3>1. Seqnum(buf.pending[1]) = At(buf.lowest, buf.pending[1].index)
      BY <2>2, <2>3 DEF Agrees, InPlace
    <3>2. buf.lowest \in Int
      BY <1>1 DEF BlockRecord, Seqnums
    <3>3. buf.pending[1] \in Packet /\ p.id - p.index = buf.pending[1].id - buf.pending[1].index
      BY <2>3, <2>4
    <3> QED
      BY <3>1, <3>2, <3>3, SamePlace
  <2>6. \A i \in Indices(buf) : \E q \in Held : q.index = i /\ q \in Packet
    BY <2>3 DEF Indices, Held
  <2>7. p.index \notin Indices(buf)
    <3>1. \A q \in Held : q.index # p.index
      <4>1. \A q \in Held : /\ p.id \in Nat /\ q.id \in Nat /\ p.index \in Nat /\ q.index \in Nat
        BY <2>3, PacketFacts
      <4> QED
        BY <2>4, <4>1
    <3> QED
      BY <2>6, <3>1
  <2>8. /\ Agrees(c)
        /\ (\A i \in Indices(buf) : i < p.index) =>
             /\ c.missing >= buf.missing
             /\ c.missing + Len(c.pending) = p.index + 1
    BY <1>1, <2>1, <2>2, <2>5, <2>7, GrowAgrees
  <2>9. ASSUME \A q \in Held : q.id < p.id
        PROVE  \A i \in Indices(buf) : i < p.index
    <3>1. \A q \in Held : q.index < p.index
      <4>1. \A q \in Held : /\ p.id \in Nat /\ q.id \in Nat /\ p.index \in Nat /\ q.index \in Nat
        BY <2>3, PacketFacts
      <4> QED
        BY <2>4, <2>9, <4>1
    <3> QED
      BY <2>6, <3>1
  <2>10. p.index + 1 <= Size
    <3>1. ~IsBefore16(HighestSeqnum(buf), Seqnum(p))
      BY <1>3 DEF Accepted
    <3> QED
      BY <1>1, <2>5, <3>1, WithinBlock
  <2> QED
    BY <2>8, <2>9, <2>10
<1> QED
  BY <1>2, <1>3

(* What RtpvAddPacket() does to the block being collected.                 *)
LEMMA Outcomes ==
  ASSUME StateType, FromBlocks, OfCurrentBlock,
         NEW p \in Packet, p.frame \in Frames, p.block < Blocks[p.frame], AddPacket(p)
  PROVE  /\ currentFrameNumber' \in Nat \ {0} /\ multiFecCurrentBlockNumber' \in Nat
         /\ buf' \in BlockRecord /\ receivedOosData' \in BOOLEAN
         /\ currentFrameNumber' >= currentFrameNumber
         /\ \/ UNCHANGED <<currentFrameNumber, multiFecCurrentBlockNumber, buf>>
            \/ buf'.pending = <<>>
            \/ /\ Accepted(p) /\ currentFrameNumber' = p.frame
               /\ multiFecCurrentBlockNumber' = p.block
               /\ \E r \in BOOLEAN : buf' = [Collected(p) EXCEPT !.reported = r]
<1>1. /\ currentFrameNumber \in Nat \ {0} /\ multiFecCurrentBlockNumber \in Nat
      /\ buf \in BlockRecord /\ receivedOosData \in BOOLEAN
  BY DEF StateType
<1>2. p.frame \in Nat \ {0} /\ p.block \in Nat /\ p.frame + 1 \in Nat \ {0} /\ p.block + 1 \in Nat
  BY PacketFacts, BlocksType
<1>3. Considered(p) => p.frame >= currentFrameNumber
  BY <1>1, <1>2 DEF Considered, Outdated
<1>4. CASE UNCHANGED <<queueVars, submitted, notes>>
  BY <1>1, <1>4 DEF queueVars
<1>5. ASSUME NEW f \in Nat, f >= currentFrameNumber, AbandonFrame(f)
      PROVE  /\ currentFrameNumber' \in Nat \ {0} /\ multiFecCurrentBlockNumber' \in Nat
             /\ buf' \in BlockRecord /\ receivedOosData' \in BOOLEAN
             /\ currentFrameNumber' >= currentFrameNumber
             /\ buf'.pending = <<>>
  <2>1. <<>> \in Seq(Packet)
    OBVIOUS
  <2>2. buf' = [buf EXCEPT !.pending = <<>>, !.reported = TRUE]
    BY <1>5 DEF AbandonFrame
  <2>3. buf' \in BlockRecord /\ buf'.pending = <<>>
    BY <1>1, <2>1, <2>2 DEF BlockRecord
  <2> QED
    BY <1>1, <1>5, <2>3 DEF AbandonFrame
<1>6. CASE RejectUnfinished(p)
  BY <1>1, <1>5, <1>6 DEF RejectUnfinished
<1>7. CASE RejectSkipped(p)
  <2>1. ~Outdated(p) /\ AbandonFrame(p.frame)
    BY <1>7 DEF RejectSkipped, BlocksSkipped
  <2>2. p.frame >= currentFrameNumber /\ p.frame \in Nat
    BY <1>1, <1>2, <2>1 DEF Outdated
  <2> QED
    BY <1>5, <2>1, <2>2
<1> DEFINE c == Collected(p)
<1>8. Accepted(p) => c \in BlockRecord /\ p.frame >= currentFrameNumber
  BY <1>3, CollectedFacts DEF Accepted
<1>9. OosAfter(p) \in BOOLEAN
  BY DEF OosAfter
<1>10. CASE AwaitMore(p)
  <2>1. /\ Accepted(p) /\ currentFrameNumber' = p.frame /\ multiFecCurrentBlockNumber' = p.block
        /\ receivedOosData' \in BOOLEAN
    BY <1>9, <1>10 DEF AwaitMore
  <2> DEFINE r == c.reported \/ (~c.reported /\ ~OosAfter(p) /\ Hopeless(c))
  <2>2. buf' = [c EXCEPT !.reported = r] /\ r \in BOOLEAN
    BY <1>10 DEF AwaitMore
  <2> HIDE DEF c, r
  <2>3. buf' \in BlockRecord
    BY <1>8, <2>1, <2>2 DEF BlockRecord
  <2> QED
    BY <1>2, <1>8, <2>1, <2>2, <2>3 DEF c
<1>11. CASE CompleteBlock(p)
  <2>1. Accepted(p) /\ receivedOosData' \in BOOLEAN
    <3>1. receivedOosData' = (OosAfter(p) \/ c.reported)
      BY <1>11 DEF CompleteBlock
    <3>2. Accepted(p)
      BY <1>11 DEF CompleteBlock
    <3> QED
      BY <3>1, <3>2
  <2>2. \/ multiFecCurrentBlockNumber' = p.block + 1 /\ currentFrameNumber' = p.frame
        \/ multiFecCurrentBlockNumber' = 0 /\ currentFrameNumber' = p.frame + 1
    BY <1>11 DEF CompleteBlock
  <2>3. buf' = [c EXCEPT !.pending = <<>>, !.next = RecoveredNext(c)]
    BY <1>11 DEF CompleteBlock
  <2>4. c \in BlockRecord /\ RecoveredNext(c) \in Seqnums
    BY <1>8, <2>1, RecoveredNextType
  <2>5. <<>> \in Seq(Packet)
    OBVIOUS
  <2> HIDE DEF c
  <2>6. buf' \in BlockRecord /\ buf'.pending = <<>>
    BY <2>3, <2>4, <2>5 DEF BlockRecord
  <2> QED
    BY <1>1, <1>2, <1>8, <2>1, <2>2, <2>6
<1> QED
  BY <1>4, <1>6, <1>7, <1>10, <1>11 DEF AddPacket, RejectOutdated, RejectExtraParity, RejectDuplicate

LEMMA AgreesReported ==
  ASSUME NEW c \in BlockRecord, Agrees(c), NEW r \in BOOLEAN,
         NEW d, d = [c EXCEPT !.reported = r]
  PROVE  /\ Agrees(d) /\ d.pending = c.pending /\ d.lastBlock = c.lastBlock
         /\ d.missing = c.missing
<1>1. /\ d.pending = c.pending /\ d.lowest = c.lowest /\ d.next = c.next
      /\ d.highest = c.highest /\ d.missing = c.missing /\ d.data = c.data
      /\ d.parity = c.parity /\ d.lastBlock = c.lastBlock
  BY DEF BlockRecord
<1>2. Indices(d) = Indices(c)
  BY <1>1 DEF Indices
<1>3. InPlace(d)
  BY <1>1 DEF Agrees, InPlace
<1>4. Counts(d)
  BY <1>1, <1>2 DEF Agrees, Counts
<1> QED
  BY <1>1, <1>3, <1>4 DEF Agrees

LEMMA HeldStep ==
  ASSUME StateType, FromBlocks, OfCurrentBlock,
         NEW p \in Packet, p.frame \in Frames, p.block < Blocks[p.frame], AddPacket(p)
  PROVE  /\ Held' \subseteq Held \cup {p}
         /\ \/ UNCHANGED <<currentFrameNumber, multiFecCurrentBlockNumber, buf, Held>>
            \/ buf'.pending = <<>> /\ Held' = {}
            \/ /\ Accepted(p) /\ currentFrameNumber' = p.frame
               /\ multiFecCurrentBlockNumber' = p.block
               /\ \E r \in BOOLEAN : buf' = [Collected(p) EXCEPT !.reported = r]
               /\ Held' = (IF BlockStarts(p) THEN {} ELSE Held) \cup {p}
               /\ buf'.lastBlock = Blocks[p.frame] - 1 /\ p.block <= buf'.lastBlock
<1>1. CASE UNCHANGED <<currentFrameNumber, multiFecCurrentBlockNumber, buf>>
  BY <1>1 DEF Held
<1>2. CASE buf'.pending = <<>>
  <2>1. 1..Len(buf'.pending) = {}
    BY <1>2
  <2>2. Held' = {}
    BY <2>1 DEF Held
  <2> QED
    BY <1>2, <2>2
<1>3. ASSUME Accepted(p), currentFrameNumber' = p.frame, multiFecCurrentBlockNumber' = p.block,
             NEW r \in BOOLEAN, buf' = [Collected(p) EXCEPT !.reported = r]
      PROVE  /\ Held' = (IF BlockStarts(p) THEN {} ELSE Held) \cup {p}
             /\ buf'.lastBlock = Blocks[p.frame] - 1 /\ p.block <= buf'.lastBlock
  <2> DEFINE c == Collected(p)
             s == IF BlockStarts(p) THEN <<>> ELSE buf.pending
  <2>1. /\ c \in BlockRecord /\ c.pending = Append(s, p)
        /\ c.lastBlock = Blocks[p.frame] - 1 /\ p.block <= c.lastBlock
    BY <1>3, CollectedFacts
  <2>2. buf'.pending = Append(s, p) /\ buf'.lastBlock = c.lastBlock
    <3>1. buf' = [c EXCEPT !.reported = r]
      BY <1>3
    <3> HIDE DEF c, s
    <3> QED
      BY <2>1, <3>1 DEF BlockRecord
  <2>3. s \in Seq(Packet)
    <3>1. <<>> \in Seq(Packet) /\ buf.pending \in Seq(Packet)
      BY DEF StateType, BlockRecord
    <3> QED
      BY <3>1
  <2>4. {s[i] : i \in 1..Len(s)} = IF BlockStarts(p) THEN {} ELSE Held
    <3>1. CASE BlockStarts(p)
      BY <3>1
    <3>2. CASE ~BlockStarts(p)
      BY <3>2 DEF Held
    <3> QED
      BY <3>1, <3>2
  <2> HIDE DEF s, c
  <2>5. {Append(s, p)[i] : i \in 1..Len(Append(s, p))} = {s[i] : i \in 1..Len(s)} \cup {p}
    <3>1. /\ Len(Append(s, p)) = Len(s) + 1 /\ Len(s) \in Nat
          /\ \A i \in 1..Len(s) : Append(s, p)[i] = s[i]
          /\ Append(s, p)[Len(s) + 1] = p
      BY <2>3
    <3>2. 1..(Len(s) + 1) = 1..Len(s) \cup {Len(s) + 1}
      BY <3>1
    <3> QED
      BY <3>1, <3>2
  <2>6. Held' = {Append(s, p)[i] : i \in 1..Len(Append(s, p))}
    BY <2>2 DEF Held
  <2> QED
    BY <2>1, <2>2, <2>4, <2>5, <2>6
<1>4. \/ UNCHANGED <<currentFrameNumber, multiFecCurrentBlockNumber, buf>>
      \/ buf'.pending = <<>>
      \/ /\ Accepted(p) /\ currentFrameNumber' = p.frame
         /\ multiFecCurrentBlockNumber' = p.block
         /\ \E r \in BOOLEAN : buf' = [Collected(p) EXCEPT !.reported = r]
  BY Outcomes
<1>5. CASE /\ Accepted(p) /\ currentFrameNumber' = p.frame
           /\ multiFecCurrentBlockNumber' = p.block
           /\ \E r \in BOOLEAN : buf' = [Collected(p) EXCEPT !.reported = r]
  <2>1. /\ Held' = (IF BlockStarts(p) THEN {} ELSE Held) \cup {p}
        /\ buf'.lastBlock = Blocks[p.frame] - 1 /\ p.block <= buf'.lastBlock
    BY <1>3, <1>5
  <2>2. Held' \subseteq Held \cup {p}
    BY <2>1
  <2> QED
    BY <1>5, <2>1, <2>2
<1> QED
  BY <1>1, <1>2, <1>4, <1>5

LEMMA NotAfterTransitive ==
  \A p, q, r \in Packet : NotAfter(p, q) /\ NotAfter(q, r) =>
     /\ NotAfter(p, r)
     /\ SameBlock(p, r) => SameBlock(p, q) /\ SameBlock(q, r)
<1> SUFFICES ASSUME NEW p \in Packet, NEW q \in Packet, NEW r \in Packet,
                    NotAfter(p, q), NotAfter(q, r)
             PROVE  /\ NotAfter(p, r)
                    /\ SameBlock(p, r) => SameBlock(p, q) /\ SameBlock(q, r)
  OBVIOUS
<1>1. /\ p.frame \in Nat /\ q.frame \in Nat /\ r.frame \in Nat
      /\ p.block \in Nat /\ q.block \in Nat /\ r.block \in Nat
  BY PacketFacts
<1> QED
  BY <1>1 DEF NotAfter, SameBlock

(* The packet after p: of the same block, or the first of a later one.     *)
LEMMA NextPacketFacts ==
  ASSUME NEW p \in Packet, p.frame \in Frames, p.block < Blocks[p.frame],
         NEW n, n = NextPacket(p)
  PROVE  /\ n \in Packet /\ n.id = p.id + 1
         /\ n.frame \in 1..(Len(Blocks) + 1)
         /\ n.frame \in Frames => n.block < Blocks[n.frame]
         /\ NotAfter(p, n)
         /\ SameBlock(p, n) => p.id - p.index = n.id - n.index
<1> DEFINE S == Size + Extra
<1>1. /\ p.index \in 0..(S - 1) /\ p.id \in Nat /\ p.frame \in Nat /\ p.frame \in 1..Len(Blocks)
      /\ p.block \in Nat /\ Blocks[p.frame] \in 1..4 /\ S \in Nat \ {0} /\ Len(Blocks) \in Nat
  BY PacketFacts, BlocksType, Modulus
<1>2. n.id = p.id + 1 /\ n.index = (p.index + 1) % S
  BY DEF NextPacket
<1>5. ASSUME n.frame \in Nat, n.block \in 0..3, n.index \in 0..(S - 1)
      PROVE  n \in Packet
  <2>1. n.id \in Nat
    BY <1>1, <1>2
  <2>2. n = [frame |-> n.frame, block |-> n.block, index |-> n.index, id |-> n.id]
    BY DEF NextPacket
  <2>3. S - 1 = Size + Extra - 1
    BY Modulus
  <2>4. n.index \in 0..(Size + Extra - 1)
    BY <1>5, <2>3
  <2> QED
    BY <1>5, <2>1, <2>2, <2>4 DEF Packet
<1>3. CASE p.index + 1 < S
  <2>1. n.frame = p.frame /\ n.block = p.block
    BY <1>3 DEF NextPacket
  <2> HIDE DEF S
  <2>2. n.index = p.index + 1
    <3>1. ASSUME NEW m \in Nat \ {0}, NEW i \in 0..(m - 1) PROVE i % m = i
      BY <3>1
    <3>2. p.index + 1 \in 0..(S - 1)
      BY <1>1, <1>3
    <3> QED
      BY <1>1, <1>2, <3>1, <3>2
  <2>3. p.id - p.index = n.id - n.index
    <3>1. p.id \in Int /\ p.index \in Int
      BY <1>1
    <3> QED
      BY <1>2, <2>2, <3>1
  <2>4. n \in Packet
    <3>1. n.frame \in Nat
      BY <1>1, <2>1
    <3>2. n.block \in 0..3
      <4>1. p.block \in 0..3
        BY DEF Packet
      <4> QED
        BY <2>1, <4>1
    <3>3. n.index \in 0..(S - 1)
      BY <1>1, <1>3, <2>2
    <3> QED
      BY <1>5, <3>1, <3>2, <3>3
  <2> QED
    BY <1>1, <1>2, <2>1, <2>3, <2>4 DEF NotAfter
<1>4. CASE ~(p.index + 1 < S)
  <2>4. 0 \in 0..(S - 1)
    BY <1>1
  <2>1. n.index = 0
    <3> HIDE DEF S
    <3>1. ASSUME NEW m \in Nat \ {0} PROVE m % m = 0
      BY <3>1
    <3>2. p.index + 1 = S
      BY <1>1, <1>4
    <3> QED
      BY <1>1, <1>2, <3>1, <3>2
  <2>2. CASE p.block + 1 < Blocks[p.frame]
    <3>1. n.frame = p.frame /\ n.block = p.block + 1
      BY <1>4, <2>2 DEF NextPacket
    <3>2. n \in Packet
      <4>1. n.frame \in Nat /\ n.block \in 0..3
        <5>1. n.frame \in Nat
          BY <1>1, <3>1
        <5>2. p.block + 1 \in 0..3
          BY <1>1, <2>2, SMTT(30)
        <5> QED
          BY <3>1, <5>1, <5>2
      <4> HIDE DEF S
      <4> QED
        BY <1>5, <2>1, <2>4, <4>1
    <3>3. n.frame \in 1..(Len(Blocks) + 1) /\ n.block < Blocks[n.frame]
      BY <1>1, <2>2, <3>1
    <3>4. NotAfter(p, n) /\ ~SameBlock(p, n)
      BY <1>1, <3>1 DEF NotAfter, SameBlock
    <3> QED
      BY <1>2, <3>2, <3>3, <3>4
  <2>3. CASE ~(p.block + 1 < Blocks[p.frame])
    <3>1. n.frame = p.frame + 1 /\ n.block = 0
      BY <1>4, <2>3 DEF NextPacket
    <3>2. n \in Packet
      BY <1>1, <1>5, <2>1, <2>4, <3>1
    <3>3. n.frame \in Frames => n.block < Blocks[n.frame]
      BY <3>1, BlocksType
    <3>4. n.frame \in 1..(Len(Blocks) + 1)
      BY <1>1, <3>1
    <3>5. NotAfter(p, n) /\ ~SameBlock(p, n)
      BY <1>1, <3>1 DEF NotAfter, SameBlock
    <3> QED
      BY <1>2, <3>2, <3>3, <3>4, <3>5
  <2> QED
    BY <2>2, <2>3
<1> QED
  BY <1>3, <1>4

LEMMA QueueInit == Init => QueueInv
<1> SUFFICES ASSUME Init PROVE QueueInv
  OBVIOUS
<1>1. /\ currentFrameNumber = 1 /\ multiFecCurrentBlockNumber = 0 /\ buf = Block(0, 0)
      /\ receivedOosData = FALSE /\ net = {} /\ echo = {} /\ lost = {}
      /\ toSend = [frame |-> 1, block |-> 0, index |-> 0, id |-> FirstSeq]
      /\ faults = [reorder |-> 0, dup |-> 0]
  BY DEF Init
<1>2. 0 \in Seqnums /\ 0 \in 0..(Size + Extra - 1) /\ FirstSeq \in Nat
  BY QueueAssumption, Modulus DEF Seqnums
<1>3. buf \in BlockRecord /\ buf.pending = <<>>
  <2>1. <<>> \in Seq(Packet)
    OBVIOUS
  <2> QED
    BY <1>1, <1>2, <2>1 DEF Block, BlockRecord
<1>4. Held = {} /\ Sent = {}
  <2>1. 1..Len(buf.pending) = {}
    BY <1>3
  <2> QED
    BY <1>1, <2>1 DEF Held, Sent
<1>5. StateType
  <2>1. toSend \in Packet
    BY <1>1, <1>2 DEF Packet
  <2>2. faults \in [reorder : Nat, dup : Nat]
    BY <1>1
  <2>3. net \subseteq Packet /\ echo \subseteq Packet /\ lost \subseteq Packet
    BY <1>1
  <2>4. currentFrameNumber \in Nat \ {0} /\ multiFecCurrentBlockNumber \in Nat
    BY <1>1
  <2>5. receivedOosData \in BOOLEAN
    BY <1>1
  <2> QED
    BY <1>3, <2>1, <2>2, <2>3, <2>4, <2>5 DEF StateType
<1>6. FromBlocks
  BY <1>1, <1>4, BlocksType DEF FromBlocks
<1>7. Aligned
  BY <1>4 DEF Aligned
<1>8. OfCurrentBlock
  BY <1>3, <1>4 DEF OfCurrentBlock
<1>9. Once
  BY <1>1, <1>4 DEF Once
<1> QED
  BY <1>3, <1>5, <1>6, <1>7, <1>8, <1>9 DEF QueueInv

(* The host sends a packet.                                                *)
LEMMA SendKeeps == QueueInv /\ Send => QueueInv'
<1> SUFFICES ASSUME QueueInv, Send PROVE QueueInv'
  OBVIOUS
<1>1. /\ StateType /\ FromBlocks /\ Aligned /\ OfCurrentBlock
      /\ faults.dup = 0 => Once /\ (buf.pending # <<>> => Agrees(buf))
  BY DEF QueueInv
<1>2. /\ toSend.frame \in Frames /\ net' = net \cup {toSend} /\ toSend' = NextPacket(toSend)
      /\ UNCHANGED <<currentFrameNumber, multiFecCurrentBlockNumber, buf, receivedOosData,
                     echo, lost, faults>>
  BY DEF Send, queueVars
<1>3. Held' = Held /\ Sent' = Sent \cup {toSend}
  BY <1>2 DEF Held, Sent
<1>4. /\ toSend \in Packet /\ Sent \subseteq Packet
  BY <1>1, HeldFacts DEF StateType, Sent
<1>5. /\ toSend' \in Packet /\ toSend'.id = toSend.id + 1
      /\ toSend'.frame \in 1..(Len(Blocks) + 1)
      /\ toSend'.frame \in Frames => toSend'.block < Blocks[toSend'.frame]
      /\ NotAfter(toSend, toSend')
      /\ SameBlock(toSend, toSend') => toSend.id - toSend.index = toSend'.id - toSend'.index
  BY <1>1, <1>2, <1>4, NextPacketFacts DEF FromBlocks
<1>6. \A p \in Sent : NotAfter(p, toSend) /\ p.id < toSend.id
  BY <1>1 DEF FromBlocks
<1>7. \A p \in Packet : p.id \in Nat /\ p.frame \in Nat /\ p.block \in Nat /\ p.index \in Nat
  BY PacketFacts
<1>8. \A p \in Sent : NotAfter(p, toSend') /\ p.id < toSend'.id
  <2>1. \A p \in Sent : NotAfter(p, toSend')
    BY <1>4, <1>5, <1>6, NotAfterTransitive
  <2>2. \A p \in Sent : p.id < toSend'.id
    BY <1>4, <1>5, <1>6, <1>7
  <2> QED
    BY <2>1, <2>2
<1>9. StateType'
  BY <1>1, <1>2, <1>4, <1>5 DEF StateType
<1>10. FromBlocks'
  <2>1. toSend.id < toSend'.id /\ toSend.block < Blocks[toSend.frame]
    BY <1>1, <1>2, <1>4, <1>5, <1>7 DEF FromBlocks
  <2>2. \A p \in Sent' : /\ p.frame \in Frames /\ p.block < Blocks[p.frame]
                         /\ NotAfter(p, toSend') /\ p.id < toSend'.id
    BY <1>1, <1>2, <1>3, <1>5, <1>8, <2>1 DEF FromBlocks
  <2> QED
    BY <1>5, <2>2 DEF FromBlocks
<1>11. Aligned'
  <2>1. \A p \in Sent \cup {toSend} : SameBlock(p, toSend') => p.id - p.index = toSend'.id - toSend'.index
    <3>1. \A p \in Sent : SameBlock(p, toSend') => SameBlock(p, toSend) /\ SameBlock(toSend, toSend')
      BY <1>4, <1>5, <1>6, NotAfterTransitive
    <3>2. \A p \in Sent : SameBlock(p, toSend) => p.id - p.index = toSend.id - toSend.index
      BY <1>1 DEF Aligned
    <3> QED
      BY <1>5, <3>1, <3>2
  <2>2. \A p, q \in Sent \cup {toSend} : SameBlock(p, q) => p.id - p.index = q.id - q.index
    BY <1>1 DEF Aligned
  <2>3. \A p, q \in Sent \cup {toSend} \cup {toSend'} :
          SameBlock(p, q) => p.id - p.index = q.id - q.index
    BY <2>1, <2>2 DEF SameBlock
  <2> QED
    BY <1>3, <2>3 DEF Aligned
<1>12. OfCurrentBlock'
  BY <1>1, <1>2, <1>3 DEF OfCurrentBlock
<1>13. ASSUME faults'.dup = 0 PROVE Once' /\ (buf'.pending # <<>> => Agrees(buf'))
  <2>1. Once /\ (buf.pending # <<>> => Agrees(buf))
    BY <1>1, <1>2, <1>13
  <2>2. \A p \in Sent : p.id # toSend.id
    BY <1>4, <1>6, <1>7
  <2>3. Once'
    BY <1>2, <1>3, <2>1, <2>2 DEF Once, Sent
  <2> QED
    BY <1>2, <2>1, <2>3
<1> QED
  BY <1>2, <1>9, <1>10, <1>11, <1>12, <1>13 DEF QueueInv

(* The network loses one.                                                  *)
LEMMA LoseKeeps == ASSUME QueueInv, NEW p \in net, Lose(p) PROVE QueueInv'
<1>1. /\ StateType /\ FromBlocks /\ Aligned /\ OfCurrentBlock
      /\ faults.dup = 0 => Once /\ (buf.pending # <<>> => Agrees(buf))
  BY DEF QueueInv
<1>2. /\ net' = net \ {p} /\ lost' = lost \cup {p}
      /\ UNCHANGED <<currentFrameNumber, multiFecCurrentBlockNumber, buf, receivedOosData,
                     echo, toSend, faults>>
  BY DEF Lose, queueVars
<1>3. Held' = Held /\ Sent' \subseteq Sent
  BY <1>2 DEF Held, Sent
<1>4. StateType'
  BY <1>1, <1>2 DEF StateType
<1>5. FromBlocks'
  BY <1>1, <1>2, <1>3 DEF FromBlocks
<1>6. Aligned'
  BY <1>1, <1>2, <1>3 DEF Aligned
<1>7. OfCurrentBlock'
  BY <1>1, <1>2, <1>3 DEF OfCurrentBlock
<1>8. Once => Once'
  BY <1>2, <1>3 DEF Once
<1> QED
  BY <1>1, <1>2, <1>4, <1>5, <1>6, <1>7, <1>8 DEF QueueInv

(* A packet arrives, for the first time or again.                          *)
LEMMA AddKeeps ==
  ASSUME QueueInv, NEW p \in Sent, AddPacket(p), net' \subseteq net,
         echo' \subseteq echo \cup {p}, UNCHANGED <<toSend, lost>>,
         faults' \in [reorder : Nat, dup : Nat],
         faults'.dup = 0 => /\ faults.dup = 0 /\ echo' = {}
                            /\ p \in net /\ net' = net \ {p}
  PROVE  QueueInv'
<1>1. /\ StateType /\ FromBlocks /\ Aligned /\ OfCurrentBlock
      /\ faults.dup = 0 => Once /\ (buf.pending # <<>> => Agrees(buf))
  BY DEF QueueInv
<1>2. p \in Packet /\ p.frame \in Frames /\ p.block < Blocks[p.frame]
  <2>1. Sent \subseteq Packet
    BY <1>1, HeldFacts DEF StateType, Sent
  <2> QED
    BY <1>1, <2>1 DEF FromBlocks
<1>3. /\ currentFrameNumber' \in Nat \ {0} /\ multiFecCurrentBlockNumber' \in Nat
      /\ buf' \in BlockRecord /\ receivedOosData' \in BOOLEAN
  BY <1>1, <1>2, Outcomes
<1>4. /\ Held' \subseteq Held \cup {p}
      /\ \/ UNCHANGED <<currentFrameNumber, multiFecCurrentBlockNumber, buf, Held>>
         \/ buf'.pending = <<>> /\ Held' = {}
         \/ /\ Accepted(p) /\ currentFrameNumber' = p.frame
            /\ multiFecCurrentBlockNumber' = p.block
            /\ \E r \in BOOLEAN : buf' = [Collected(p) EXCEPT !.reported = r]
            /\ Held' = (IF BlockStarts(p) THEN {} ELSE Held) \cup {p}
            /\ buf'.lastBlock = Blocks[p.frame] - 1 /\ p.block <= buf'.lastBlock
  BY <1>1, <1>2, HeldStep
<1>5. Sent' \subseteq Sent
  BY <1>4 DEF Sent
<1>6. StateType'
  <2>1. echo \cup {p} \subseteq Packet
    BY <1>1, <1>2 DEF StateType
  <2> QED
    BY <1>1, <1>3, <2>1 DEF StateType
<1>7. FromBlocks'
  BY <1>1, <1>5 DEF FromBlocks
<1>8. Aligned'
  BY <1>1, <1>5 DEF Aligned
<1>9. OfCurrentBlock'
  <2>1. CASE UNCHANGED <<currentFrameNumber, multiFecCurrentBlockNumber, buf, Held>>
    BY <1>1, <2>1 DEF OfCurrentBlock
  <2>2. CASE buf'.pending = <<>> /\ Held' = {}
    BY <2>2 DEF OfCurrentBlock
  <2>3. CASE /\ currentFrameNumber' = p.frame /\ multiFecCurrentBlockNumber' = p.block
             /\ Held' = (IF BlockStarts(p) THEN {} ELSE Held) \cup {p}
             /\ buf'.lastBlock = Blocks[p.frame] - 1 /\ p.block <= buf'.lastBlock
    <3>1. CASE BlockStarts(p)
      BY <1>2, <2>3, <3>1 DEF OfCurrentBlock
    <3>2. CASE ~BlockStarts(p)
      <4>1. currentFrameNumber = p.frame /\ multiFecCurrentBlockNumber = p.block
        BY <3>2 DEF BlockStarts
      <4> QED
        BY <1>1, <1>2, <2>3, <3>2, <4>1 DEF OfCurrentBlock
    <3> QED
      BY <3>1, <3>2
  <2> QED
    BY <1>4, <2>1, <2>2, <2>3
<1>10. ASSUME faults'.dup = 0 PROVE Once' /\ (buf'.pending # <<>> => Agrees(buf'))
  <2>1. /\ Once /\ (buf.pending # <<>> => Agrees(buf))
        /\ echo' = {} /\ p \in net /\ net' = net \ {p}
    BY <1>1, <1>10
  <2>2. Once'
    BY <1>4, <2>1 DEF Once
  <2>3. /\ \A q \in Held : SameBlock(p, q) => p.id - p.index = q.id - q.index
        /\ \A q \in Held : p.id # q.id
    BY <1>1, <2>1 DEF Aligned, Sent, Once
  <2>4. CASE UNCHANGED <<currentFrameNumber, multiFecCurrentBlockNumber, buf, Held>>
    BY <2>1, <2>2, <2>4
  <2>5. CASE buf'.pending = <<>> /\ Held' = {}
    BY <2>2, <2>5
  <2>6. CASE Accepted(p) /\ \E r \in BOOLEAN : buf' = [Collected(p) EXCEPT !.reported = r]
    <3> DEFINE c == Collected(p)
    <3>1. c \in BlockRecord
      BY <1>1, <1>2, <2>6, CollectedFacts
    <3>2. Agrees(c)
      BY <1>1, <1>2, <2>1, <2>3, <2>6, CollectedAgrees
    <3>3. PICK r \in BOOLEAN : buf' = [c EXCEPT !.reported = r]
      BY <2>6
    <3> HIDE DEF c
    <3>4. Agrees(buf')
      BY <3>1, <3>2, <3>3, AgreesReported
    <3> QED
      BY <2>2, <3>4
  <2> QED
    BY <1>4, <2>4, <2>5, <2>6
<1> QED
  BY <1>6, <1>7, <1>8, <1>9, <1>10 DEF QueueInv

LEMMA ReceiveKeeps == ASSUME QueueInv, NEW p \in net, Receive(p) PROVE QueueInv'
<1>1. PICK again \in BOOLEAN :
        /\ echo' = IF again THEN echo \cup {p} ELSE echo
        /\ faults' = [reorder |-> faults.reorder + IF Overtakes(p) THEN 1 ELSE 0,
                      dup     |-> faults.dup + IF again THEN 1 ELSE 0]
  BY DEF Receive
<1>2. AddPacket(p) /\ net' = net \ {p} /\ UNCHANGED <<toSend, lost>> /\ p \in Sent
  BY DEF Receive, Sent
<1>3. faults.reorder \in Nat /\ faults.dup \in Nat
  BY DEF QueueInv, StateType
<1>4. /\ faults' \in [reorder : Nat, dup : Nat]
      /\ faults'.dup = 0 => faults.dup = 0 /\ ~again
  <2>1. CASE again
    BY <1>1, <1>3, <2>1
  <2>2. CASE ~again
    BY <1>1, <1>3, <2>2
  <2> QED
    BY <2>1, <2>2
<1>5. faults'.dup = 0 => faults.dup = 0 /\ echo' = {}
  BY <1>1, <1>4 DEF QueueInv, Once
<1>6. echo' \subseteq echo \cup {p}
  BY <1>1
<1> QED
  BY <1>2, <1>4, <1>5, <1>6, AddKeeps

LEMMA ReceiveAgainKeeps == ASSUME QueueInv, NEW p \in echo, ReceiveAgain(p) PROVE QueueInv'
<1>1. /\ AddPacket(p) /\ echo' = echo \ {p} /\ p \in Sent
      /\ UNCHANGED <<toSend, net, lost, faults>>
  BY DEF ReceiveAgain, Sent
<1>2. faults \in [reorder : Nat, dup : Nat] /\ faults.dup # 0
  BY DEF QueueInv, StateType, Once
<1> QED
  BY <1>1, <1>2, AddKeeps

LEMMA QueueStutters == ASSUME QueueInv, UNCHANGED vars PROVE QueueInv'
<1>1. /\ UNCHANGED <<currentFrameNumber, multiFecCurrentBlockNumber, buf, receivedOosData>>
      /\ UNCHANGED <<toSend, net, echo, lost, faults>>
  BY DEF vars, queueVars, netVars
<1>2. Held' = Held /\ Sent' = Sent
  BY <1>1 DEF Held, Sent
<1>3. StateType' /\ FromBlocks' /\ Aligned' /\ OfCurrentBlock'
  BY <1>1, <1>2 DEF QueueInv, StateType, FromBlocks, Aligned, OfCurrentBlock
<1>4. Once => Once'
  BY <1>1, <1>2 DEF Once
<1> QED
  BY <1>1, <1>3, <1>4 DEF QueueInv

LEMMA QueueStep == QueueInv /\ [Next]_vars => QueueInv'
<1> SUFFICES ASSUME QueueInv, [Next]_vars PROVE QueueInv'
  OBVIOUS
<1>1. CASE Send
  BY <1>1, SendKeeps
<1>2. ASSUME NEW p \in net, Lose(p) PROVE QueueInv'
  BY <1>2, LoseKeeps
<1>3. ASSUME NEW p \in net, Receive(p) PROVE QueueInv'
  BY <1>3, ReceiveKeeps
<1>4. ASSUME NEW p \in echo, ReceiveAgain(p) PROVE QueueInv'
  BY <1>4, ReceiveAgainKeeps
<1>5. CASE UNCHANGED vars
  BY <1>5, QueueStutters
<1> QED
  BY <1>1, <1>2, <1>3, <1>4, <1>5 DEF Next

LEMMA Typed == QueueInv => TypeOK
<1> SUFFICES ASSUME QueueInv PROVE TypeOK
  OBVIOUS
<1>1. StateType /\ OfCurrentBlock
  BY DEF QueueInv
<1>2. /\ buf \in BlockRecord /\ buf.pending \in Seq(Packet) /\ buf.lowest \in Seqnums
      /\ buf.next \in Seqnums /\ buf.highest \in Seqnums /\ buf.reported \in BOOLEAN
  BY <1>1 DEF StateType, BlockRecord
<1> QED
  BY <1>1, <1>2 DEF TypeOK, StateType, OfCurrentBlock, Seqnums

(* Whatever the network does, every variable has its type and the block    *)
(* being collected is one that the current frame has.                      *)
THEOREM TypeCorrect == Spec => []TypeOK
BY QueueInit, QueueStep, Typed, PTL DEF Spec

(* As long as nothing was repeated, the counters agree with the packets    *)
(* of the block being collected, whatever was lost or overtaken: those of  *)
(* RtpvAddPacket() and what it asserts of them (RtpVideoQueue.c 713-740).  *)
THEOREM Counters == Spec => [](faults.dup = 0 => CountersAgree)
<1>1. ASSUME QueueInv, faults.dup = 0 PROVE CountersAgree
  <2>1. /\ StateType /\ OfCurrentBlock /\ (buf.pending # <<>> => Agrees(buf))
    BY <1>1 DEF QueueInv
  <2>2. /\ buf \in BlockRecord /\ buf.pending \in Seq(Packet) /\ buf.lowest \in Seqnums
    BY <2>1 DEF StateType, BlockRecord
  <2>3. TypeOK
    BY <1>1, Typed
  <2>4. ASSUME buf.pending # <<>>
        PROVE  /\ \A i \in DOMAIN buf.pending :
                    /\ buf.pending[i].frame = currentFrameNumber
                    /\ buf.pending[i].block = multiFecCurrentBlockNumber
               /\ Cardinality(Offsets) = Len(buf.pending)
               /\ buf.missing = Cardinality((0..Offset(buf.highest)) \ Offsets)
               /\ buf.data = Cardinality({o \in Offsets : o < Data})
               /\ buf.parity = Cardinality({o \in Offsets : o >= Data})
               /\ \A o \in 0..(Offset(buf.next) - 1) : o \in Offsets
    <3>1. DOMAIN buf.pending = 1..Len(buf.pending)
      BY <2>2
    <3>2. \A i \in DOMAIN buf.pending : buf.pending[i] \in Held
      BY <3>1 DEF Held
    <3>3. PICK top \in Indices(buf), n \in Places :
            /\ buf.highest = At(buf.lowest, top) /\ \A i \in Indices(buf) : i <= top
            /\ buf.next = At(buf.lowest, n) /\ \A i \in 0..(n - 1) : i \in Indices(buf)
            /\ buf.missing = Cardinality((0..top) \ Indices(buf))
            /\ buf.data = Cardinality({i \in Indices(buf) : i < Data})
            /\ buf.parity = Cardinality({i \in Indices(buf) : i >= Data})
            /\ Len(buf.pending) = Cardinality(Indices(buf))
      BY <2>1, <2>4 DEF Agrees, Counts
    <3>4. \A i \in Places : Offset(At(buf.lowest, i)) = i
      <4>1. buf.lowest \in Int
        BY <2>2 DEF Seqnums
      <4> QED
        BY <4>1, Distance DEF Offset
    <3>5. Indices(buf) \subseteq Places
      BY <2>2, IndicesType, Modulus DEF Places
    <3>6. Offset(buf.highest) = top /\ Offset(buf.next) = n
      BY <3>3, <3>4, <3>5
    <3>7. Offsets = Indices(buf)
      <4>1. \A i \in 1..Len(buf.pending) :
              /\ Seqnum(buf.pending[i]) = At(buf.lowest, buf.pending[i].index)
              /\ buf.pending[i].index \in Places
        BY <2>1, <2>4, <3>5 DEF Agrees, InPlace, Indices
      <4>2. \A i \in 1..Len(buf.pending) : Offset(Seqnum(buf.pending[i])) = buf.pending[i].index
        BY <3>4, <4>1
      <4>3. Offsets = {Offset(Seqnum(buf.pending[i])) : i \in 1..Len(buf.pending)}
        BY <3>1 DEF Offsets, Pending
      <4> QED
        BY <4>2, <4>3 DEF Indices
    <3> QED
      BY <2>1, <3>2, <3>3, <3>6, <3>7 DEF OfCurrentBlock
  <2> QED
    BY <2>3, <2>4 DEF CountersAgree
<1>2. QueueInv => (faults.dup = 0 => CountersAgree)
  BY <1>1
<1> QED
  BY <1>2, QueueInit, QueueStep, PTL DEF Spec

-----------------------------------------------------------------------------
(* Reports of lost frames.                                                 *)

NoteRecord == [frame : Nat, speculative : BOOLEAN, after : Nat]
FramesOf(s) == {s[i].frame : i \in 1..Len(s)}

(* What is true of the reports ns and the submitted frames sub while frame *)
(* cur is collected: nothing later was told, and of cur only predictions.  *)
Reports(ns, sub, cur) ==
  /\ ns \in Seq(NoteRecord) /\ cur \in Nat /\ \E S : sub \in Seq(S)
  /\ \A i \in 1..Len(sub) : sub[i].frame \in Nat /\ sub[i].frame < cur
  /\ \A i \in 1..Len(ns) :
       /\ ns[i].frame < cur \/ (ns[i].frame = cur /\ ns[i].speculative)
       /\ ns[i].after <= Len(sub)
       /\ ns[i].after # 0 => sub[ns[i].after].frame < ns[i].frame
       /\ ~ns[i].speculative => ns[i].frame \notin FramesOf(sub)
  /\ \A i, j \in 1..Len(ns) : i < j =>
       \/ ns[i].frame < ns[j].frame
       \/ ns[i].frame = ns[j].frame /\ ns[i].speculative

LEMMA Appended ==
  ASSUME NEW S, NEW s \in Seq(S), NEW x
  PROVE  /\ Len(Append(s, x)) = Len(s) + 1 /\ Len(s) \in Nat
         /\ \A i \in 1..Len(s) : Append(s, x)[i] = s[i]
         /\ Append(s, x)[Len(s) + 1] = x
         /\ \A i \in 1..Len(Append(s, x)) : i \in 1..Len(s) \/ i = Len(s) + 1
         /\ FramesOf(Append(s, x)) = FramesOf(s) \cup {x.frame}
         /\ \E T : Append(s, x) \in Seq(T)
<1>1. s \in Seq(S \cup {x})
  OBVIOUS
<1>2. /\ Len(Append(s, x)) = Len(s) + 1 /\ Len(s) \in Nat
      /\ \A i \in 1..Len(s) : Append(s, x)[i] = s[i]
      /\ Append(s, x)[Len(s) + 1] = x
  BY <1>1
<1>3. Append(s, x) \in Seq(S \cup {x})
  BY <1>1
<1>4. 1..(Len(s) + 1) = 1..Len(s) \cup {Len(s) + 1}
  BY <1>2
<1>5. FramesOf(Append(s, x)) = FramesOf(s) \cup {x.frame}
  BY <1>2, <1>4 DEF FramesOf
<1> QED
  BY <1>2, <1>3, <1>4, <1>5

LEMMA NoteTypes ==
  \A ns \in Seq(NoteRecord) : \A i \in 1..Len(ns) : ns[i].frame \in Nat /\ ns[i].after \in Nat
<1>1. \A ns \in Seq(NoteRecord) : \A i \in 1..Len(ns) : ns[i] \in NoteRecord
  OBVIOUS
<1>2. \A n \in NoteRecord : n.frame \in Nat /\ n.after \in Nat
  BY DEF NoteRecord
<1> QED
  BY <1>1, <1>2

(* The current frame moves on.                                             *)
LEMMA Advance ==
  ASSUME NEW ns, NEW sub, NEW cur, Reports(ns, sub, cur), NEW next \in Nat, next >= cur
  PROVE  Reports(ns, sub, next)
<1>1. /\ ns \in Seq(NoteRecord) /\ cur \in Nat /\ \E S : sub \in Seq(S)
      /\ \A i, j \in 1..Len(ns) : i < j =>
           \/ ns[i].frame < ns[j].frame
           \/ ns[i].frame = ns[j].frame /\ ns[i].speculative
      /\ \A i \in 1..Len(ns) :
           /\ ns[i].after <= Len(sub)
           /\ ns[i].after # 0 => sub[ns[i].after].frame < ns[i].frame
           /\ ~ns[i].speculative => ns[i].frame \notin FramesOf(sub)
  BY DEF Reports
<1>2. \A i \in 1..Len(sub) : sub[i].frame \in Nat /\ sub[i].frame < next
  BY DEF Reports
<1>3. \A i \in 1..Len(ns) : ns[i].frame < next \/ (ns[i].frame = next /\ ns[i].speculative)
  <2>1. \A i \in 1..Len(ns) : ns[i].frame \in Nat
    BY <1>1, NoteTypes
  <2>2. \A i \in 1..Len(ns) : ns[i].frame < cur \/ (ns[i].frame = cur /\ ns[i].speculative)
    BY DEF Reports
  <2>3. next > cur \/ next = cur
    BY <1>1
  <2> QED
    BY <1>1, <2>1, <2>2, <2>3
<1> QED
  BY <1>1, <1>2, <1>3 DEF Reports

(* A frame is told that is not before the current one.                     *)
LEMMA Tell ==
  ASSUME NEW ns, NEW sub, NEW cur, Reports(ns, sub, cur),
         NEW f \in Nat, f >= cur,
         NEW n, n.frame = f, n.after = Len(sub), Len(sub) \in Nat => n \in NoteRecord,
         NEW next \in Nat, next >= f, next = f => n.speculative
  PROVE  /\ Reports(Append(ns, n), sub, next)
         /\ FramesOf(Append(ns, n)) = FramesOf(ns) \cup {f}
<1> DEFINE m == Append(ns, n)
<1>1. /\ ns \in Seq(NoteRecord) /\ cur \in Nat /\ \E S : sub \in Seq(S)
      /\ \A i \in 1..Len(sub) : sub[i].frame \in Nat /\ sub[i].frame < cur
      /\ \A i \in 1..Len(ns) :
           /\ ns[i].frame < cur \/ (ns[i].frame = cur /\ ns[i].speculative)
           /\ ns[i].after <= Len(sub)
           /\ ns[i].after # 0 => sub[ns[i].after].frame < ns[i].frame
           /\ ~ns[i].speculative => ns[i].frame \notin FramesOf(sub)
      /\ \A i, j \in 1..Len(ns) : i < j =>
           \/ ns[i].frame < ns[j].frame
           \/ ns[i].frame = ns[j].frame /\ ns[i].speculative
  BY DEF Reports
<1>2. Len(sub) \in Nat
  <2>1. PICK S : sub \in Seq(S)
    BY <1>1
  <2> QED
    BY <2>1
<1>3. /\ n \in NoteRecord /\ n.frame = f /\ n.after = Len(sub)
  BY <1>2
<1>0. next > f \/ (next = f /\ n.speculative)
  OBVIOUS
<1>4. /\ Len(m) = Len(ns) + 1 /\ Len(ns) \in Nat
      /\ \A i \in 1..Len(ns) : m[i] = ns[i]
      /\ m[Len(ns) + 1] = n
      /\ \A i \in 1..Len(m) : i \in 1..Len(ns) \/ i = Len(ns) + 1
      /\ FramesOf(m) = FramesOf(ns) \cup {n.frame}
  BY <1>1, Appended
<1>5. m \in Seq(NoteRecord)
  BY <1>1, <1>3
<1>6. \A i \in 1..Len(ns) : ns[i].frame \in Nat
  BY <1>1, NoteTypes
<1> HIDE DEF m
<1>7. \A i \in 1..Len(sub) : sub[i].frame \in Nat /\ sub[i].frame < f /\ sub[i].frame < next
  BY <1>1
<1>8. \A i \in 1..Len(ns) : ns[i].frame < f \/ (ns[i].frame = f /\ ns[i].speculative)
  <2>1. f > cur \/ f = cur
    BY <1>1
  <2> QED
    BY <1>1, <1>6, <2>1
<1>9. \A i \in 1..Len(m) :
        /\ m[i].frame < next \/ (m[i].frame = next /\ m[i].speculative)
        /\ m[i].after <= Len(sub)
        /\ m[i].after # 0 => sub[m[i].after].frame < m[i].frame
        /\ ~m[i].speculative => m[i].frame \notin FramesOf(sub)
  <2>1. ASSUME NEW i \in 1..Len(ns)
        PROVE  /\ m[i].frame < next \/ (m[i].frame = next /\ m[i].speculative)
               /\ m[i].after <= Len(sub)
               /\ m[i].after # 0 => sub[m[i].after].frame < m[i].frame
               /\ ~m[i].speculative => m[i].frame \notin FramesOf(sub)
    <3>1. m[i].frame < next \/ (m[i].frame = next /\ m[i].speculative)
      BY <1>0, <1>4, <1>6, <1>8
    <3> QED
      BY <1>1, <1>4, <3>1
  <2>2. /\ n.frame < next \/ (n.frame = next /\ n.speculative)
        /\ n.after <= Len(sub)
        /\ n.after # 0 => sub[n.after].frame < n.frame
        /\ ~n.speculative => n.frame \notin FramesOf(sub)
    <3>1. n.frame \notin FramesOf(sub)
      BY <1>3, <1>7 DEF FramesOf
    <3>2. Len(sub) # 0 => Len(sub) \in 1..Len(sub)
      BY <1>2
    <3> QED
      BY <1>0, <1>2, <1>3, <1>7, <3>1, <3>2
  <2> QED
    BY <1>4, <2>1, <2>2
<1>10. \A i, j \in 1..Len(m) : i < j =>
         \/ m[i].frame < m[j].frame
         \/ m[i].frame = m[j].frame /\ m[i].speculative
  <2> SUFFICES ASSUME NEW i \in 1..Len(m), NEW j \in 1..Len(m), i < j
               PROVE  m[i].frame < m[j].frame \/ (m[i].frame = m[j].frame /\ m[i].speculative)
    OBVIOUS
  <2>1. i \in 1..Len(ns)
    BY <1>4
  <2>2. CASE j \in 1..Len(ns)
    BY <1>1, <1>4, <2>1, <2>2
  <2>3. CASE j = Len(ns) + 1
    BY <1>3, <1>4, <1>8, <2>1, <2>3
  <2> QED
    BY <1>4, <2>2, <2>3
<1>11. Reports(m, sub, next)
  BY <1>1, <1>5, <1>7, <1>9, <1>10 DEF Reports
<1> QED
  BY <1>3, <1>4, <1>11 DEF m

(* The current frame is submitted.                                         *)
LEMMA Submit ==
  ASSUME NEW ns, NEW sub, NEW cur, Reports(ns, sub, cur), NEW x, x.frame = cur
  PROVE  /\ Reports(ns, Append(sub, x), cur + 1)
         /\ FramesOf(Append(sub, x)) = FramesOf(sub) \cup {cur}
<1> DEFINE t == Append(sub, x)
<1>1. /\ ns \in Seq(NoteRecord) /\ cur \in Nat /\ \E S : sub \in Seq(S)
      /\ \A i \in 1..Len(sub) : sub[i].frame \in Nat /\ sub[i].frame < cur
      /\ \A i \in 1..Len(ns) :
           /\ ns[i].frame < cur \/ (ns[i].frame = cur /\ ns[i].speculative)
           /\ ns[i].after <= Len(sub)
           /\ ns[i].after # 0 => sub[ns[i].after].frame < ns[i].frame
           /\ ~ns[i].speculative => ns[i].frame \notin FramesOf(sub)
      /\ \A i, j \in 1..Len(ns) : i < j =>
           \/ ns[i].frame < ns[j].frame
           \/ ns[i].frame = ns[j].frame /\ ns[i].speculative
  BY DEF Reports
<1>2. PICK S : sub \in Seq(S)
  BY <1>1
<1>3. /\ Len(t) = Len(sub) + 1 /\ Len(sub) \in Nat
      /\ \A i \in 1..Len(sub) : t[i] = sub[i]
      /\ t[Len(sub) + 1] = x
      /\ \A i \in 1..Len(t) : i \in 1..Len(sub) \/ i = Len(sub) + 1
      /\ FramesOf(t) = FramesOf(sub) \cup {x.frame}
      /\ \E T : t \in Seq(T)
  BY <1>2, Appended
<1>4. \A i \in 1..Len(ns) : ns[i].frame \in Nat /\ ns[i].after \in Nat
  BY <1>1, NoteTypes
<1> HIDE DEF t
<1>5. \A i \in 1..Len(t) : t[i].frame \in Nat /\ t[i].frame < cur + 1
  BY <1>1, <1>3
<1>6. \A i \in 1..Len(ns) :
        /\ ns[i].frame < cur + 1
        /\ ns[i].after <= Len(t)
        /\ ns[i].after # 0 => t[ns[i].after].frame < ns[i].frame
        /\ ~ns[i].speculative => ns[i].frame \notin FramesOf(t)
  <2> SUFFICES ASSUME NEW i \in 1..Len(ns)
               PROVE  /\ ns[i].frame < cur + 1
                      /\ ns[i].after <= Len(t)
                      /\ ns[i].after # 0 => t[ns[i].after].frame < ns[i].frame
                      /\ ~ns[i].speculative => ns[i].frame \notin FramesOf(t)
    OBVIOUS
  <2>1. ns[i].frame < cur + 1 /\ ns[i].after <= Len(t)
    BY <1>1, <1>3, <1>4
  <2>2. ns[i].after # 0 => ns[i].after \in 1..Len(sub)
    BY <1>1, <1>3, <1>4
  <2>3. ~ns[i].speculative => ns[i].frame # cur
    BY <1>1, <1>4
  <2> QED
    BY <1>1, <1>3, <2>1, <2>2, <2>3
<1>7. cur + 1 \in Nat
  BY <1>1
<1>8. Reports(ns, t, cur + 1)
  BY <1>1, <1>3, <1>5, <1>6, <1>7 DEF Reports
<1> QED
  BY <1>3, <1>8 DEF t

LEMMA ReportedFrames ==
  ASSUME NEW ns, NEW sub, NEW cur, Reports(ns, sub, cur)
  PROVE  /\ \A f \in FramesOf(ns) : f \in Nat /\ f <= cur
         /\ \A f \in FramesOf(sub) : f \in Nat /\ f < cur
<1>1. ns \in Seq(NoteRecord) /\ cur \in Nat
  BY DEF Reports
<1>2. \A i \in 1..Len(ns) : ns[i].frame \in Nat /\ ns[i].frame <= cur
  BY <1>1, NoteTypes DEF Reports
<1> QED
  BY <1>2 DEF FramesOf, Reports

LEMMA NoteFacts ==
  \A f \in Nat, sp \in BOOLEAN :
    /\ Note(f, sp).frame = f /\ Note(f, sp).speculative = sp /\ Note(f, sp).after = Len(submitted)
    /\ Len(submitted) \in Nat => Note(f, sp) \in NoteRecord
BY DEF Note, NoteRecord

(* Reports, one for each part of RtpvAddPacket() that tells of a frame.    *)
LEMMA TellAbandoned ==
  ASSUME Reports(notes, submitted, currentFrameNumber),
         NEW f \in Nat, f >= currentFrameNumber, AbandonFrame(f)
  PROVE  /\ Reports(notes', submitted, f + 1)
         /\ FramesOf(notes') \subseteq FramesOf(notes) \cup {currentFrameNumber}
<1>1. f + 1 \in Nat /\ currentFrameNumber \in Nat /\ f + 1 > currentFrameNumber
  BY DEF Reports
<1>2. CASE buf.reported
  <2>1. notes' = notes
    BY <1>2 DEF AbandonFrame
  <2> QED
    BY <1>1, <2>1, Advance
<1>3. CASE ~buf.reported
  <2> DEFINE n == Note(currentFrameNumber, FALSE)
  <2>1. notes' = Append(notes, n)
    BY <1>3 DEF AbandonFrame
  <2>2. /\ n.frame = currentFrameNumber /\ n.speculative = FALSE /\ n.after = Len(submitted)
        /\ Len(submitted) \in Nat => n \in NoteRecord
    BY <1>1, NoteFacts
  <2> HIDE DEF n
  <2>3. /\ Reports(Append(notes, n), submitted, f + 1)
        /\ FramesOf(Append(notes, n)) = FramesOf(notes) \cup {currentFrameNumber}
    BY <1>1, <2>2, Tell
  <2> QED
    BY <2>1, <2>3
<1> QED
  BY <1>2, <1>3

LEMMA TellMissing ==
  ASSUME Reports(notes, submitted, currentFrameNumber),
         NEW p, p.frame \in Nat, p.frame >= currentFrameNumber
  PROVE  /\ Reports(notes \o LossTold(p), submitted, p.frame)
         /\ FramesOf(notes \o LossTold(p)) \subseteq FramesOf(notes) \cup {p.frame - 1}
         /\ p.frame = currentFrameNumber => notes \o LossTold(p) = notes
<1>1. notes \in Seq(NoteRecord) /\ currentFrameNumber \in Nat
  BY DEF Reports
<1> DEFINE n == Note(p.frame - 1, FALSE)
<1>2. CASE LossTold(p) = <<>>
  <2>1. notes \o LossTold(p) = notes
    BY <1>1, <1>2
  <2> QED
    BY <2>1, Advance
<1>3. CASE LossTold(p) = <<n>> /\ p.frame # currentFrameNumber
  <2>1. notes \o <<n>> = Append(notes, n)
    <3> HIDE DEF n
    <3> QED
      BY <1>1
  <2>3. p.frame - 1 \in Nat /\ p.frame - 1 >= currentFrameNumber /\ p.frame > p.frame - 1
    BY <1>1, <1>3
  <2>2. /\ n.frame = p.frame - 1 /\ n.speculative = FALSE /\ n.after = Len(submitted)
        /\ Len(submitted) \in Nat => n \in NoteRecord
    BY <2>3, NoteFacts
  <2> DEFINE g == p.frame - 1
             h == p.frame
  <2>4. /\ n.frame = g /\ n.speculative = FALSE /\ n.after = Len(submitted)
        /\ Len(submitted) \in Nat => n \in NoteRecord
        /\ g \in Nat /\ g >= currentFrameNumber /\ h > g /\ h \in Nat
    BY <2>2, <2>3
  <2> HIDE DEF n, g, h
  <2>5. Reports(Append(notes, n), submitted, h) /\ FramesOf(Append(notes, n)) = FramesOf(notes) \cup {g}
    BY <2>4, Tell
  <2> QED
    BY <1>3, <2>1, <2>5 DEF g, h
<1>4. \/ LossTold(p) = <<>>
      \/ LossTold(p) = <<n>> /\ p.frame # currentFrameNumber
  BY DEF LossTold
<1> QED
  BY <1>2, <1>3, <1>4

(* What a packet that is kept does to the reports: a prediction is told    *)
(* only when the block cannot be completed any more.                       *)
LEMMA TellAwaiting ==
  ASSUME Reports(notes, submitted, currentFrameNumber),
         NEW p, p.frame \in Nat, p.frame >= currentFrameNumber, AwaitMore(p)
  PROVE  /\ Reports(notes', submitted', p.frame) /\ submitted' = submitted
         /\ FramesOf(notes') \subseteq FramesOf(notes) \cup {p.frame - 1, p.frame}
         /\ p.frame = currentFrameNumber => FramesOf(notes') \subseteq FramesOf(notes) \cup {p.frame}
         /\ p.frame \in FramesOf(notes') => p.frame \in FramesOf(notes) \/ Hopeless(Collected(p))
<1> DEFINE ms == notes \o LossTold(p)
           b == Collected(p)
           predicted == ~b.reported /\ ~OosAfter(p) /\ Hopeless(b)
           n == Note(p.frame, TRUE)
<1>1. /\ Reports(ms, submitted, p.frame)
      /\ FramesOf(ms) \subseteq FramesOf(notes) \cup {p.frame - 1}
      /\ p.frame = currentFrameNumber => ms = notes
  BY TellMissing
<1>2. submitted' = submitted
  BY DEF AwaitMore
<1>3. notes' = ms \o (IF predicted THEN <<n>> ELSE <<>>)
  BY DEF AwaitMore
<1>4. ms \in Seq(NoteRecord)
  BY <1>1 DEF Reports
<1>5. CASE predicted
  <2>1. /\ n.frame = p.frame /\ n.speculative = TRUE /\ n.after = Len(submitted)
        /\ Len(submitted) \in Nat => n \in NoteRecord
    BY NoteFacts
  <2>2. Hopeless(b)
    BY <1>5
  <2> HIDE DEF ms, n, b, predicted
  <2>3. notes' = Append(ms, n)
    BY <1>3, <1>4, <1>5
  <2> DEFINE h == p.frame
  <2>4. h \in Nat /\ h >= h /\ h = h
    OBVIOUS
  <2>5. /\ Reports(ms, submitted, h)
        /\ n.frame = h /\ n.speculative = TRUE /\ n.after = Len(submitted)
        /\ Len(submitted) \in Nat => n \in NoteRecord
    BY <1>1, <2>1
  <2> HIDE DEF h
  <2>6. Reports(Append(ms, n), submitted, h) /\ FramesOf(Append(ms, n)) = FramesOf(ms) \cup {h}
    BY <2>4, <2>5, Tell
  <2> QED
    BY <1>1, <1>2, <2>2, <2>3, <2>6 DEF h, b
<1>6. CASE ~predicted
  <2> HIDE DEF ms, n, b, predicted
  <2>1. notes' = ms
    BY <1>3, <1>4, <1>6
  <2> QED
    BY <1>1, <1>2, <2>1
<1> QED
  BY <1>5, <1>6

LEMMA TellCompleting ==
  ASSUME Reports(notes, submitted, currentFrameNumber),
         NEW p, p.frame \in Nat, p.frame >= currentFrameNumber, CompleteBlock(p)
  PROVE  /\ Reports(notes', submitted', currentFrameNumber')
         /\ FramesOf(notes') \subseteq FramesOf(notes) \cup {p.frame - 1}
         /\ p.frame = currentFrameNumber => notes' = notes
         /\ FramesOf(submitted') \subseteq FramesOf(submitted) \cup {p.frame}
         /\ currentFrameNumber' \in {p.frame, p.frame + 1}
<1> DEFINE ms == notes \o LossTold(p)
<1>1. /\ Reports(ms, submitted, p.frame)
      /\ FramesOf(ms) \subseteq FramesOf(notes) \cup {p.frame - 1}
      /\ p.frame = currentFrameNumber => ms = notes
  BY TellMissing
<1>2. notes' = ms
  BY DEF CompleteBlock
<1>3. \/ currentFrameNumber' = p.frame /\ submitted' = submitted
      \/ /\ currentFrameNumber' = p.frame + 1
         /\ \E x : x.frame = p.frame /\ submitted' = Append(submitted, x)
  <2>1. \/ currentFrameNumber' = p.frame /\ submitted' = submitted
        \/ /\ currentFrameNumber' = p.frame + 1
           /\ \E q : submitted' = Append(submitted, [frame |-> p.frame, packets |-> q])
    BY DEF CompleteBlock
  <2>2. \A q : [frame |-> p.frame, packets |-> q].frame = p.frame
    OBVIOUS
  <2> QED
    BY <2>1, <2>2
<1> HIDE DEF ms
<1>4. CASE currentFrameNumber' = p.frame /\ submitted' = submitted
  BY <1>1, <1>2, <1>4
<1>5. CASE /\ currentFrameNumber' = p.frame + 1
           /\ \E x : x.frame = p.frame /\ submitted' = Append(submitted, x)
  <2>1. PICK x : x.frame = p.frame /\ submitted' = Append(submitted, x)
    BY <1>5
  <2>2. /\ Reports(ms, Append(submitted, x), p.frame + 1)
        /\ FramesOf(Append(submitted, x)) = FramesOf(submitted) \cup {p.frame}
    BY <1>1, <2>1, Submit
  <2> QED
    BY <1>1, <1>2, <1>5, <2>1, <2>2
<1> QED
  BY <1>3, <1>4, <1>5

(* In order, and without repetition: a frame is predicted to be lost only  *)
(* when the block being collected can not be completed, and is not then.   *)
Predicted ==
  /\ \A p \in Held, q \in net : p.id < q.id
  /\ currentFrameNumber \in FramesOf(notes) => buf.pending # <<>> /\ buf.missing > Parity
  /\ FramesOf(notes) \cap FramesOf(submitted) = {}

ReportInv ==
  /\ QueueInv
  /\ Reports(notes, submitted, currentFrameNumber)
  /\ faults.dup = 0 /\ faults.reorder = 0 => Predicted

(* A predicted frame gets no block but the one being collected, and no     *)
(* more of that than leaves it incomplete.                                 *)
LEMMA PredictedBlock ==
  ASSUME QueueInv, faults.dup = 0, Reports(notes, submitted, currentFrameNumber), Predicted,
         NEW p \in net, Accepted(p), p.frame \in FramesOf(notes), \A q \in Held : q.id < p.id,
         NEW c, c = Collected(p)
  PROVE  Hopeless(c) /\ ~Reconstructs(c)
<1>1. StateType /\ OfCurrentBlock /\ FromBlocks /\ Aligned /\ Once /\ (buf.pending # <<>> => Agrees(buf))
  BY DEF QueueInv
<1>2. p \in Packet /\ p.frame \in Frames /\ p.block < Blocks[p.frame] /\ p \in Sent
  BY <1>1 DEF StateType, FromBlocks, Sent
<1>3. p.frame = currentFrameNumber
  <2>1. p.frame <= currentFrameNumber /\ p.frame \in Nat
    BY ReportedFrames
  <2>2. p.frame >= currentFrameNumber
    BY <1>1, <2>1 DEF Accepted, Considered, Outdated, StateType
  <2> QED
    BY <1>1, <2>1, <2>2 DEF StateType
<1>4. buf.pending # <<>> /\ buf.missing > Parity
  BY <1>3 DEF Predicted
<1>5. ~BlockStarts(p)
  <2> SUFFICES ASSUME BlockStarts(p) PROVE FALSE
    OBVIOUS
  <2>1. buf.lastBlock = 0
    BY <1>3, <1>4 DEF Accepted, Considered, BlockUnfinished
  <2>2. Blocks[p.frame] - 1 = 0 /\ multiFecCurrentBlockNumber <= 0
    BY <1>1, <1>3, <1>4, <2>1 DEF OfCurrentBlock
  <2>3. p.block = multiFecCurrentBlockNumber
    BY <1>1, <1>2, <2>2, PacketFacts, BlocksType DEF StateType
  <2> QED
    BY <1>3, <1>4, <2>3 DEF BlockStarts
<1>6. /\ c.missing >= buf.missing
      /\ c.missing + Len(c.pending) <= Size
  <2>1. /\ \A q \in Held : SameBlock(p, q) => p.id - p.index = q.id - q.index
        /\ \A q \in Held : p.id # q.id
    BY <1>1, <1>2 DEF Aligned, Sent, Once
  <2> QED
    BY <1>1, <1>2, <1>5, <2>1, CollectedAgrees
<1>7. c \in BlockRecord
  BY <1>1, <1>2, CollectedFacts
<1>8. c.missing \in Int /\ Len(c.pending) \in Nat /\ buf.missing \in Int
  BY <1>1, <1>7 DEF StateType, BlockRecord
<1>9. Size = Data + Parity /\ Data \in Nat /\ Parity \in Nat
  BY Modulus DEF Size
<1> QED
  BY <1>4, <1>6, <1>8, <1>9 DEF Hopeless, Reconstructs

(* What RtpvAddPacket() tells is in order.                                 *)
LEMMA ReportsStep ==
  ASSUME QueueInv, Reports(notes, submitted, currentFrameNumber), NEW p \in Sent, AddPacket(p)
  PROVE  Reports(notes', submitted', currentFrameNumber')
<1>1. currentFrameNumber \in Nat /\ p.frame \in Nat
  <2>1. Sent \subseteq Packet
    BY HeldFacts DEF QueueInv, StateType, Sent
  <2> QED
    BY <2>1, PacketFacts DEF Reports
<1>2. ~Outdated(p) => p.frame >= currentFrameNumber
  BY <1>1 DEF Outdated
<1>3. CASE UNCHANGED <<queueVars, submitted, notes>>
  BY <1>3 DEF queueVars
<1>4. CASE RejectUnfinished(p)
  <2>1. AbandonFrame(currentFrameNumber) /\ currentFrameNumber >= currentFrameNumber
    BY <1>1, <1>4 DEF RejectUnfinished
  <2>2. Reports(notes', submitted, currentFrameNumber + 1)
    BY <1>1, <2>1, TellAbandoned
  <2> QED
    BY <2>1, <2>2 DEF AbandonFrame
<1>5. CASE RejectSkipped(p)
  <2>1. AbandonFrame(p.frame) /\ p.frame >= currentFrameNumber
    BY <1>2, <1>5 DEF RejectSkipped, BlocksSkipped
  <2>2. Reports(notes', submitted, p.frame + 1)
    BY <1>1, <2>1, TellAbandoned
  <2> QED
    BY <2>1, <2>2 DEF AbandonFrame
<1>6. CASE AwaitMore(p)
  <2>1. p.frame >= currentFrameNumber /\ currentFrameNumber' = p.frame
    BY <1>2, <1>6 DEF AwaitMore, Accepted, Considered
  <2> QED
    BY <1>1, <1>6, <2>1, TellAwaiting
<1>7. CASE CompleteBlock(p)
  <2>1. p.frame >= currentFrameNumber
    BY <1>2, <1>7 DEF CompleteBlock, Accepted, Considered
  <2> QED
    BY <1>1, <1>7, <2>1, TellCompleting
<1> QED
  BY <1>3, <1>4, <1>5, <1>6, <1>7 DEF AddPacket, RejectOutdated, RejectExtraParity, RejectDuplicate

(* And predictions come true.                                              *)
LEMMA PredictedStep ==
  ASSUME QueueInv, faults.dup = 0, Reports(notes, submitted, currentFrameNumber), Predicted,
         NEW p \in net, AddPacket(p), net' = net \ {p}, ~Overtakes(p)
  PROVE  Predicted'
<1>1. StateType /\ OfCurrentBlock /\ FromBlocks /\ Aligned /\ Once /\ (buf.pending # <<>> => Agrees(buf))
  BY DEF QueueInv
<1>2. /\ p \in Packet /\ p.frame \in Frames /\ p.block < Blocks[p.frame] /\ p \in Sent
      /\ p.frame \in Nat /\ currentFrameNumber \in Nat
  BY <1>1, PacketFacts DEF StateType, FromBlocks, Sent
<1>3. ~Outdated(p) => p.frame >= currentFrameNumber
  BY <1>2 DEF Outdated
<1>4. /\ \A f \in FramesOf(notes) : f \in Nat /\ f <= currentFrameNumber
      /\ \A f \in FramesOf(submitted) : f \in Nat /\ f < currentFrameNumber
  BY ReportedFrames
<1>5. \A q \in net' : p.id < q.id
  <2>1. \A q \in net : q.id \in Nat
    BY <1>1, PacketFacts DEF StateType
  <2> QED
    BY <1>1, <2>1 DEF Overtakes, Once
<1>6. Held' \subseteq Held \cup {p} /\ \A q \in Held : q.id < p.id
  BY <1>1, <1>2, HeldStep DEF Predicted
<1>7. (\A q \in Held, r \in net : q.id < r.id)'
  BY <1>5, <1>6 DEF Predicted
<1>8. CASE UNCHANGED <<queueVars, submitted, notes>>
  <2>1. UNCHANGED <<currentFrameNumber, buf, submitted, notes>>
    BY <1>8 DEF queueVars
  <2>2. FramesOf(notes') = FramesOf(notes) /\ FramesOf(submitted') = FramesOf(submitted)
    BY <2>1
  <2> QED
    BY <1>7, <2>1, <2>2 DEF Predicted
<1>9. ASSUME NEW f \in Nat, f >= currentFrameNumber, AbandonFrame(f) PROVE Predicted'
  <2>1. FramesOf(notes') \subseteq FramesOf(notes) \cup {currentFrameNumber}
    BY <1>9, TellAbandoned
  <2>2. currentFrameNumber' = f + 1 /\ submitted' = submitted
    BY <1>9 DEF AbandonFrame
  <2>3. currentFrameNumber' \notin FramesOf(notes')
    BY <1>2, <1>4, <1>9, <2>1, <2>2
  <2>4. FramesOf(notes') \cap FramesOf(submitted') = {}
    BY <1>2, <1>4, <2>1, <2>2 DEF Predicted
  <2> QED
    BY <1>7, <2>3, <2>4 DEF Predicted
<1>10. CASE RejectUnfinished(p)
  BY <1>2, <1>9, <1>10 DEF RejectUnfinished
<1>11. CASE RejectSkipped(p)
  BY <1>2, <1>3, <1>9, <1>11 DEF RejectSkipped, BlocksSkipped
<1> DEFINE c == Collected(p)
<1>12. CASE AwaitMore(p)
  <2>1. /\ Accepted(p) /\ p.frame >= currentFrameNumber /\ currentFrameNumber' = p.frame
        /\ submitted' = submitted
    BY <1>3, <1>12 DEF AwaitMore, Accepted, Considered
  <2>2. /\ FramesOf(notes') \subseteq FramesOf(notes) \cup {p.frame - 1, p.frame}
        /\ p.frame = currentFrameNumber => FramesOf(notes') \subseteq FramesOf(notes) \cup {p.frame}
        /\ p.frame \in FramesOf(notes') => p.frame \in FramesOf(notes) \/ Hopeless(c)
    BY <1>2, <1>12, <2>1, TellAwaiting
  <2>3. p.frame \in FramesOf(notes) => Hopeless(c)
    BY <1>2, <1>6, <2>1, PredictedBlock
  <2>4. c \in BlockRecord /\ c.pending = Append(IF BlockStarts(p) THEN <<>> ELSE buf.pending, p)
    BY <1>1, <1>2, <2>1, CollectedFacts
  <2>5. \E r : buf' = [c EXCEPT !.reported = r]
    BY <1>12 DEF AwaitMore
  <2>6. buf'.missing = c.missing /\ buf'.pending = c.pending
    <3> HIDE DEF c
    <3> QED
      BY <2>4, <2>5 DEF BlockRecord
  <2>7. buf'.pending # <<>>
    <3>1. <<>> \in Seq(Packet) /\ buf.pending \in Seq(Packet)
      BY <1>1 DEF StateType, BlockRecord
    <3>2. \A s \in Seq(Packet) : Append(s, p) # <<>>
      BY <1>2
    <3> QED
      BY <2>4, <2>6, <3>1, <3>2
  <2>8. currentFrameNumber' \in FramesOf(notes') => buf'.pending # <<>> /\ buf'.missing > Parity
    BY <2>1, <2>2, <2>3, <2>6, <2>7 DEF Hopeless
  <2>9. FramesOf(notes') \cap FramesOf(submitted') = {}
    <3>1. \A f \in FramesOf(notes') : f \in FramesOf(notes) \/ f >= currentFrameNumber
      BY <1>2, <2>1, <2>2
    <3> QED
      BY <1>2, <1>4, <2>1, <3>1 DEF Predicted
  <2> QED
    BY <1>7, <2>8, <2>9 DEF Predicted
<1>13. CASE CompleteBlock(p)
  <2>1. Accepted(p) /\ p.frame >= currentFrameNumber /\ Reconstructs(c)
    BY <1>3, <1>13 DEF CompleteBlock, Accepted, Considered
  <2>2. /\ FramesOf(notes') \subseteq FramesOf(notes) \cup {p.frame - 1}
        /\ p.frame = currentFrameNumber => notes' = notes
        /\ FramesOf(submitted') \subseteq FramesOf(submitted) \cup {p.frame}
        /\ currentFrameNumber' \in {p.frame, p.frame + 1}
    BY <1>2, <1>13, <2>1, TellCompleting
  <2>3. p.frame \notin FramesOf(notes)
    BY <1>2, <1>6, <2>1, PredictedBlock
  <2>4. \A f \in FramesOf(notes') : /\ f # p.frame /\ f # p.frame + 1
                                    /\ f \in FramesOf(notes) \/ f >= currentFrameNumber
    BY <1>2, <1>4, <2>1, <2>2, <2>3
  <2>5. currentFrameNumber' \notin FramesOf(notes')
    BY <2>2, <2>4
  <2>6. FramesOf(notes') \cap FramesOf(submitted') = {}
    BY <1>2, <1>4, <2>2, <2>4 DEF Predicted
  <2> QED
    BY <1>7, <2>5, <2>6 DEF Predicted
<1> QED
  BY <1>8, <1>10, <1>11, <1>12, <1>13 DEF AddPacket, RejectOutdated, RejectExtraParity, RejectDuplicate

LEMMA ReportInit == Init => ReportInv
<1> SUFFICES ASSUME Init PROVE ReportInv
  OBVIOUS
<1>1. QueueInv
  BY QueueInit
<1>2. currentFrameNumber = 1 /\ submitted = <<>> /\ notes = <<>> /\ net = {}
  BY DEF Init
<1>3. /\ <<>> \in Seq(NoteRecord) /\ <<>> \in Seq({}) /\ 1..Len(<<>>) = {}
  OBVIOUS
<1>4. Reports(notes, submitted, currentFrameNumber)
  BY <1>2, <1>3 DEF Reports
<1>5. FramesOf(notes) = {}
  BY <1>2, <1>3 DEF FramesOf
<1>6. Predicted
  BY <1>2, <1>5 DEF Predicted
<1> QED
  BY <1>1, <1>4, <1>6 DEF ReportInv

LEMMA ReportStep == ReportInv /\ [Next]_vars => ReportInv'
<1> SUFFICES ASSUME ReportInv, [Next]_vars PROVE ReportInv'
  OBVIOUS
<1>1. QueueInv'
  BY QueueStep DEF ReportInv
<1>2. /\ QueueInv /\ Reports(notes, submitted, currentFrameNumber)
      /\ faults.dup = 0 /\ faults.reorder = 0 => Predicted
  BY DEF ReportInv
<1>3. ASSUME UNCHANGED <<currentFrameNumber, buf, notes, submitted, faults>>,
             \A q \in net' : q \in net \/ \A r \in Held : r.id < q.id
      PROVE  ReportInv'
  <2>1. Held' = Held
    BY <1>3 DEF Held
  <2>3. FramesOf(notes') = FramesOf(notes) /\ FramesOf(submitted') = FramesOf(submitted)
    BY <1>3
  <2>2. Predicted => Predicted'
    BY <1>3, <2>1, <2>3 DEF Predicted
  <2> QED
    BY <1>1, <1>2, <1>3, <2>2 DEF ReportInv
<1>4. CASE Send
  <2>1. /\ UNCHANGED <<currentFrameNumber, buf, notes, submitted, faults>>
        /\ net' = net \cup {toSend}
    BY <1>4 DEF Send, queueVars
  <2>2. \A r \in Held : r.id < toSend.id
    BY <1>2 DEF QueueInv, FromBlocks, Sent
  <2> QED
    BY <1>3, <2>1, <2>2
<1>5. ASSUME NEW p \in net, Lose(p) PROVE ReportInv'
  BY <1>3, <1>5 DEF Lose, queueVars
<1>6. ASSUME NEW p \in net, Receive(p) PROVE ReportInv'
  <2>1. AddPacket(p) /\ net' = net \ {p} /\ p \in Sent
    BY <1>6 DEF Receive, Sent
  <2>2. Reports(notes', submitted', currentFrameNumber')
    BY <1>2, <2>1, ReportsStep
  <2>3. ASSUME faults'.dup = 0, faults'.reorder = 0
        PROVE  faults.dup = 0 /\ faults.reorder = 0 /\ ~Overtakes(p)
    <3>1. PICK again \in BOOLEAN :
            faults' = [reorder |-> faults.reorder + IF Overtakes(p) THEN 1 ELSE 0,
                       dup     |-> faults.dup + IF again THEN 1 ELSE 0]
      BY <1>6 DEF Receive
    <3>2. faults.reorder \in Nat /\ faults.dup \in Nat
      BY <1>2 DEF QueueInv, StateType
    <3>3. CASE Overtakes(p)
      BY <2>3, <3>1, <3>2, <3>3
    <3>4. CASE ~Overtakes(p) /\ again
      BY <2>3, <3>1, <3>2, <3>4
    <3>5. CASE ~Overtakes(p) /\ ~again
      BY <2>3, <3>1, <3>2, <3>5
    <3> QED
      BY <3>3, <3>4, <3>5
  <2>4. faults'.dup = 0 /\ faults'.reorder = 0 => Predicted'
    BY <1>2, <2>1, <2>3, PredictedStep
  <2> QED
    BY <1>1, <2>2, <2>4 DEF ReportInv
<1>7. ASSUME NEW p \in echo, ReceiveAgain(p) PROVE ReportInv'
  <2>1. AddPacket(p) /\ p \in Sent /\ faults' = faults
    BY <1>7 DEF ReceiveAgain, Sent
  <2>2. Reports(notes', submitted', currentFrameNumber')
    BY <1>2, <2>1, ReportsStep
  <2>3. faults.dup # 0
    BY <1>2, <1>7 DEF QueueInv, Once
  <2> QED
    BY <1>1, <2>1, <2>2, <2>3 DEF ReportInv
<1>8. CASE UNCHANGED vars
  BY <1>3, <1>8 DEF vars, queueVars, netVars
<1> QED
  BY <1>4, <1>5, <1>6, <1>7, <1>8 DEF Next

LEMMA ReportsDomain ==
  Reports(notes, submitted, currentFrameNumber) =>
    /\ DOMAIN notes = 1..Len(notes) /\ DOMAIN submitted = 1..Len(submitted)
    /\ SubmittedFrames = FramesOf(submitted)
<1> SUFFICES ASSUME Reports(notes, submitted, currentFrameNumber)
             PROVE  /\ DOMAIN notes = 1..Len(notes) /\ DOMAIN submitted = 1..Len(submitted)
                    /\ SubmittedFrames = FramesOf(submitted)
  OBVIOUS
<1>1. notes \in Seq(NoteRecord) /\ \E S : submitted \in Seq(S)
  BY DEF Reports
<1>2. DOMAIN notes = 1..Len(notes)
  BY <1>1
<1>3. DOMAIN submitted = 1..Len(submitted)
  <2>1. PICK S : submitted \in Seq(S)
    BY <1>1
  <2> QED
    BY <2>1
<1> QED
  BY <1>2, <1>3 DEF SubmittedFrames, FramesOf

(* Whatever the network does, frames are reported lost in order, after     *)
(* every frame submitted before, and are not submitted once they were      *)
(* reported for certain (RtpVideoQueue.c 646-671).                         *)
THEOREM InOrder == Spec => []ReportsOrdered
<1>1. ReportInv => ReportsOrdered
  BY ReportsDomain DEF ReportInv, Reports, ReportsOrdered
<1> QED
  BY <1>1, ReportInit, ReportStep, PTL DEF Spec

(* As long as nothing was repeated the reports are sound: also what is     *)
(* predicted comes true when nothing was overtaken either.                 *)
THEOREM Sound == Spec => [](faults.dup = 0 => ReportsSound)
<1>1. ASSUME ReportInv, faults.dup = 0 PROVE PredictionsTrue
  <2>1. \A i \in DOMAIN notes : notes[i].frame \in FramesOf(notes)
    BY <1>1, ReportsDomain DEF ReportInv, FramesOf
  <2> QED
    BY <1>1, <2>1, ReportsDomain DEF ReportInv, Predicted, PredictionsTrue
<1>2. ReportInv => ReportsOrdered
  BY ReportsDomain DEF ReportInv, Reports, ReportsOrdered
<1>3. ReportInv => (faults.dup = 0 => ReportsSound)
  BY <1>1, <1>2 DEF ReportsSound
<1> QED
  BY <1>3, ReportInit, ReportStep, PTL DEF Spec

=============================================================================
