------------------------- MODULE AudioStreamProofs -------------------------
(***************************************************************************)
(* Proofs about AudioStream and RtpAudioQueue, for any size of the blocks, *)
(* any loss, delay and repetition, any queue to the decoder and any width  *)
(* of the sequence numbers, as long as what is under way is less than half *)
(* their range away (Unambiguous).                                         *)
(***************************************************************************)
EXTENDS AudioStream, FiniteSetTheorems, TLAPS

Half == SeqModulus \div 2

-----------------------------------------------------------------------------
(* Numbers: sequence numbers and multiples of DataShards.                  *)

LEMMA ModUnique ==
  ASSUME NEW m \in Nat \ {0}, NEW q \in Int, NEW r \in 0..(m - 1)
  PROVE  (q * m + r) % m = r
BY SMTT(30)

LEMMA Division ==
  ASSUME NEW m \in Nat \ {0}, NEW a \in Int
  PROVE  a \div m \in Int /\ a % m \in 0..(m - 1) /\ a = (a \div m) * m + (a % m)
BY SMTT(30)

LEMMA ModShift ==
  ASSUME NEW m \in Nat \ {0}, NEW a \in Int, NEW q \in Int
  PROVE  (a + q * m) % m = a % m
<1> DEFINE d == a \div m
           r == a % m
<1>1. d \in Int /\ r \in 0..(m - 1) /\ a = d * m + r
  BY Division
<1> HIDE DEF d, r
<1>2. ((d + q) * m + r) % m = r
  BY <1>1, ModUnique
<1>3. a + q * m = (d + q) * m + r
  BY <1>1
<1> QED
  BY <1>2, <1>3 DEF r

(* The range of sequence numbers is two halves, each of whole blocks.      *)
LEMMA Modulus ==
  /\ DataShards \in Nat \ {0, 1} /\ FecShards \in Nat /\ SeqModulus \in Nat \ {0}
  /\ Half \in Nat \ {0} /\ SeqModulus = 2 * Half
  /\ \E q \in Nat \ {0} : Half = q * DataShards
<1> DEFINE q == SeqModulus \div (2 * DataShards)
<1>1. DataShards \in Nat \ {0, 1} /\ FecShards \in Nat /\ SeqModulus \in Nat \ {0}
  BY ShardsAssumption
<1>2. 2 * DataShards \in Nat \ {0} /\ SeqModulus % (2 * DataShards) = 0
  BY <1>1, ShardsAssumption
<1>3. q \in Int /\ SeqModulus = q * (2 * DataShards)
  <2> DEFINE m == 2 * DataShards
  <2>1. m \in Nat \ {0} /\ SeqModulus \in Int /\ SeqModulus % m = 0
    BY <1>1, <1>2
  <2> HIDE DEF m
  <2>2. SeqModulus \div m \in Int /\ SeqModulus = (SeqModulus \div m) * m + (SeqModulus % m)
    BY <2>1, Division
  <2>3. SeqModulus = (SeqModulus \div m) * m
    BY <2>1, <2>2
  <2>4. QED
    BY <2>2, <2>3 DEF m
<1> HIDE DEF q
<1>4. q \in Nat \ {0}
  <2>1. CASE q <= 0
    BY <1>1, <1>3, <2>1
  <2>2. QED
    BY <1>3, <2>1
<1>5. SeqModulus = 2 * (q * DataShards) /\ q * DataShards \in Nat
  BY <1>1, <1>3, <1>4
<1>6. Half = q * DataShards
  BY <1>5 DEF Half
<1>7. q * DataShards \in Nat \ {0}
  BY <1>1, <1>5
<1> QED
  BY <1>1, <1>4, <1>5, <1>6, <1>7

(* Multiples of DataShards lie at least that far apart.                    *)
LEMMA Multiples ==
  ASSUME NEW a \in Int, NEW b \in Int, a % DataShards = 0, b % DataShards = 0
  PROVE  /\ a < b => a + DataShards <= b
         /\ (a + DataShards) % DataShards = 0 /\ (b - a) % DataShards = 0
<1>1. DataShards \in Nat \ {0}
  BY Modulus
<1>2. PICK x \in Int : a = x * DataShards
  BY <1>1, Division
<1>3. PICK y \in Int : b = y * DataShards
  BY <1>1, Division
<1>4. a < b => a + DataShards <= b
  <2> SUFFICES ASSUME a < b PROVE a + DataShards <= b
    OBVIOUS
  <2>1. x < y
    <3>1. CASE y <= x
      <4>1. x - y \in Nat /\ b = a - (x - y) * DataShards
        BY <1>1, <1>2, <1>3, <3>1
      <4>2. (x - y) * DataShards >= 0 /\ (x - y) * DataShards \in Int
        BY <1>1, <4>1
      <4>3. QED
        BY <4>1, <4>2
    <3>2. QED
      BY <3>1
  <2>2. y - x - 1 \in Nat /\ b = a + DataShards + (y - x - 1) * DataShards
    BY <1>1, <1>2, <1>3, <2>1
  <2>3. (y - x - 1) * DataShards >= 0
    BY <1>1, <2>2
  <2>4. QED
    BY <1>1, <2>2, <2>3
<1>5. (a + DataShards) % DataShards = 0
  <2>1. \A q \in Int : (a + q * DataShards) % DataShards = 0
    BY <1>1, ModShift
  <2>2. (a + 1 * DataShards) % DataShards = 0 /\ 1 * DataShards = DataShards
    BY <1>1, <2>1
  <2>3. QED
    BY <2>2
<1>6. ((b - a) % DataShards) = 0
  <2>1. (0 + (y - x) * DataShards) % DataShards = 0 % DataShards
    BY <1>1, ModShift
  <2>2. 0 + (y - x) * DataShards = b - a /\ 0 % DataShards = 0
    BY <1>1, <1>2, <1>3
  <2>3. QED
    BY <2>1, <2>2
<1> QED
  BY <1>1, <1>4, <1>5, <1>6

(* The block a position is in.                                             *)
Floor(n) == n - (n % DataShards)

LEMMA FloorFacts ==
  ASSUME NEW n \in Int
  PROVE  /\ Floor(n) \in Int /\ Floor(n) % DataShards = 0
         /\ Floor(n) <= n /\ n < Floor(n) + DataShards
         /\ n % DataShards \in 0..(DataShards - 1) /\ n % DataShards = n - Floor(n)
<1> DEFINE q == n \div DataShards
           r == n % DataShards
<1>1. DataShards \in Nat \ {0}
  BY Modulus
<1>2. q \in Int /\ r \in 0..(DataShards - 1) /\ n = q * DataShards + r
  BY <1>1, Division
<1>3. Floor(n) = n - r
  BY DEF Floor
<1> HIDE DEF q, r
<1>4. Floor(n) = q * DataShards + 0
  BY <1>1, <1>2, <1>3
<1>5. (q * DataShards + 0) % DataShards = 0
  BY <1>1, <1>2, ModUnique
<1> QED
  BY <1>1, <1>2, <1>3, <1>4, <1>5 DEF r

LEMMA FloorAt ==
  ASSUME NEW a \in Int, a % DataShards = 0, NEW k \in 0..(DataShards - 1)
  PROVE  (a + k) % DataShards = k /\ Floor(a + k) = a
<1>1. DataShards \in Nat \ {0}
  BY Modulus
<1>2. PICK x \in Int : a = x * DataShards
  BY <1>1, Division
<1>3. (x * DataShards + k) % DataShards = k
  BY <1>1, ModUnique
<1> QED
  BY <1>1, <1>2, <1>3 DEF Floor

(* A block in sight of the one being played is within a half of whole      *)
(* blocks.                                                                 *)
LEMMA WithinHalf ==
  ASSUME NEW a \in Int, NEW b \in Int, a % DataShards = 0, b % DataShards = 0, b - a < Half
  PROVE  b + DataShards <= a + Half
<1>1. DataShards \in Nat \ {0}
  BY Modulus
<1>2. PICK q \in Nat \ {0} : Half = q * DataShards
  BY Modulus
<1>3. (a + q * DataShards) % DataShards = a % DataShards
  <2>1. \A c \in Int : (a + c * DataShards) % DataShards = a % DataShards
    BY <1>1, ModShift
  <2>2. QED
    BY <2>1
<1>4. (a + Half) % DataShards = 0 /\ a + Half \in Int
  BY <1>1, <1>2, <1>3
<1>5. b < a + Half
  <2>1. Half \in Int
    BY Modulus
  <2>2. QED
    BY <2>1
<1> QED
  BY <1>4, <1>5, Multiples

LEMMA U16Type == \A a \in Int : U16(a) \in 0..(SeqModulus - 1)
BY Modulus, Division DEF U16

LEMMA U16Quotient ==
  ASSUME NEW a \in Int
  PROVE  \E q \in Int : U16(a) = a + q * SeqModulus
<1> DEFINE d == a \div SeqModulus
<1>1. SeqModulus \in Nat \ {0}
  BY Modulus
<1>2. d \in Int /\ a = d * SeqModulus + U16(a) /\ U16(a) \in Int
  BY <1>1, Division DEF U16
<1> HIDE DEF d
<1>3. U16(a) = a + (0 - d) * SeqModulus /\ 0 - d \in Int
  BY <1>1, <1>2
<1> QED
  BY <1>3

LEMMA U16Sum ==
  ASSUME NEW a \in Int, NEW b \in Int
  PROVE  /\ U16(U16(a) + b) = U16(a + b)
         /\ U16(U16(a) - U16(b)) = U16(a - b)
<1>1. SeqModulus \in Nat \ {0} /\ U16(a) \in Int /\ U16(b) \in Int
  BY Modulus, U16Type
<1>2. PICK x \in Int : U16(a) = a + x * SeqModulus
  BY U16Quotient
<1>3. PICK y \in Int : U16(b) = b + y * SeqModulus
  BY U16Quotient
<1> DEFINE s == a + b
           d == a - b
           z == x - y
<1>0. s \in Int /\ d \in Int /\ z \in Int
  OBVIOUS
<1> HIDE DEF s, d, z
<1>4. U16(s + x * SeqModulus) = U16(s)
  BY <1>0, <1>1, ModShift DEF U16
<1>5. U16(d + z * SeqModulus) = U16(d)
  BY <1>0, <1>1, ModShift DEF U16
<1> USE DEF s, d, z
<1>6. U16(a) + b = (a + b) + x * SeqModulus
  BY <1>1, <1>2
<1>7. U16(a) - U16(b) = (a - b) + (x - y) * SeqModulus
  BY <1>1, <1>2, <1>3
<1> QED
  BY <1>4, <1>5, <1>6, <1>7

(* Within half the range sequence numbers tell positions apart and which   *)
(* of them is earlier.                                                     *)
LEMMA U16Difference ==
  ASSUME NEW n \in -Half .. Half - 1
  PROVE  U16(n) = IF n < 0 THEN n + SeqModulus ELSE n
<1>1. SeqModulus \in Nat \ {0} /\ Half \in Nat \ {0} /\ SeqModulus = 2 * Half
  BY Modulus
<1>2. CASE n < 0
  <2>1. (0 - 1) * SeqModulus + (n + SeqModulus) = n /\ n + SeqModulus \in 0..(SeqModulus - 1)
    BY <1>1, <1>2
  <2>2. ((0 - 1) * SeqModulus + (n + SeqModulus)) % SeqModulus = n + SeqModulus
    BY <1>1, <2>1, ModUnique
  <2>3. QED
    BY <1>2, <2>1, <2>2 DEF U16
<1>3. CASE ~(n < 0)
  <2>1. 0 * SeqModulus + n = n /\ n \in 0..(SeqModulus - 1)
    BY <1>1, <1>3
  <2>2. (0 * SeqModulus + n) % SeqModulus = n
    BY <1>1, <2>1, ModUnique
  <2>3. QED
    BY <1>3, <2>1, <2>2 DEF U16
<1> QED
  BY <1>2, <1>3

LEMMA Order ==
  ASSUME NEW a \in Int, NEW b \in Int, a - b \in -Half .. Half - 1
  PROVE  /\ IsBefore16(U16(a), U16(b)) <=> a < b
         /\ U16(a) = U16(b) => a = b
<1>1. SeqModulus \in Nat \ {0} /\ Half \in Nat \ {0} /\ SeqModulus = 2 * Half
  BY Modulus
<1>2. U16(U16(a) - U16(b)) = IF a - b < 0 THEN a - b + SeqModulus ELSE a - b
  BY U16Sum, U16Difference
<1>3. IsBefore16(U16(a), U16(b)) <=> a < b
  BY <1>1, <1>2 DEF IsBefore16, Half
<1>4. U16(a) = U16(b) => a = b
  <2>1. 0 \in -Half .. Half - 1 /\ U16(a) \in Int
    BY <1>1, U16Type
  <2>2. U16(0) = 0
    BY <2>1, U16Difference
  <2>3. U16(a) = U16(b) => U16(a) - U16(b) = 0
    BY <2>1
  <2>4. QED
    BY <1>1, <1>2, <2>2, <2>3
<1> QED
  BY <1>3, <1>4

(* The low bits of a position show where it is in its block.               *)
LEMMA U16Rest ==
  ASSUME NEW a \in Int
  PROVE  U16(a) % DataShards = a % DataShards
<1>1. DataShards \in Nat \ {0} /\ SeqModulus = 2 * Half
  BY Modulus
<1>2. PICK x \in Int : U16(a) = a + x * SeqModulus
  BY U16Quotient
<1>3. PICK q \in Nat \ {0} : Half = q * DataShards
  BY Modulus
<1>4. (a + (2 * x * q) * DataShards) % DataShards = a % DataShards
  <2>1. \A c \in Int : (a + c * DataShards) % DataShards = a % DataShards
    BY <1>1, ModShift
  <2>2. 2 * x * q \in Int
    OBVIOUS
  <2>3. QED
    BY <2>1, <2>2
<1>5. a + (2 * x * q) * DataShards = a + x * SeqModulus
  BY <1>1, <1>3
<1> QED
  BY <1>2, <1>4, <1>5

-----------------------------------------------------------------------------
(* The packets of the host.                                                *)

LEMMA Totals ==
  /\ Total \in Nat \ {0} /\ DataShards <= Total /\ FirstPosition \in Nat
  /\ FirstPosition % DataShards = 0 /\ LastPacket \in Nat
BY Modulus, StreamAssumption DEF Total

LEMMA BlockFacts ==
  ASSUME NEW n \in Nat
  PROVE  /\ BlockOf(n) \in Nat /\ BlockOf(n) % DataShards = 0 /\ BlockOf(n) >= FirstPosition
         /\ n % Total \in 0 .. Total - 1
         /\ \E q \in Nat : n = q * Total + (n % Total) /\ BlockOf(n) = FirstPosition + DataShards * q
<1> DEFINE q == n \div Total
<1>1. DataShards \in Nat \ {0} /\ Total \in Nat \ {0} /\ FirstPosition \in Nat
  BY Modulus, Totals
<1>2. q \in Int /\ n % Total \in 0..(Total - 1) /\ n = q * Total + (n % Total)
  BY <1>1, Division
<1>3. BlockOf(n) = FirstPosition + DataShards * q
  BY DEF BlockOf
<1> HIDE DEF q
<1>4. q \in Nat
  <2>1. CASE q < 0
    <3>1. 0 - q - 1 \in Nat /\ q * Total = 0 - Total - (0 - q - 1) * Total
      BY <1>1, <1>2, <2>1
    <3>2. (0 - q - 1) * Total >= 0
      BY <1>1, <3>1
    <3>3. QED
      BY <1>1, <1>2, <3>1, <3>2
  <2>2. QED
    BY <1>2, <2>1
<1>5. DataShards * q \in Nat /\ DataShards * q = q * DataShards
  BY <1>1, <1>4
<1>6. (FirstPosition + q * DataShards) % DataShards = FirstPosition % DataShards
  <2>1. \A c \in Int : (FirstPosition + c * DataShards) % DataShards = FirstPosition % DataShards
    <3> TAKE c \in Int
    <3>1. FirstPosition \in Int
      BY <1>1
    <3> HIDE DEF q
    <3> QED
      BY <1>1, <3>1, ModShift
  <2>2. QED
    BY <1>4, <2>1
<1> QED
  BY <1>1, <1>2, <1>3, <1>4, <1>5, <1>6, Totals

(* Later packets are of the same or later blocks.                          *)
LEMMA BlocksGrow ==
  ASSUME NEW m \in Nat, NEW n \in Nat, m <= n
  PROVE  /\ BlockOf(m) <= BlockOf(n)
         /\ BlockOf(m) = BlockOf(n) => n - m = (n % Total) - (m % Total)
<1>1. DataShards \in Nat \ {0} /\ Total \in Nat \ {0} /\ FirstPosition \in Nat
  BY Modulus, Totals
<1>2. PICK x \in Nat : m = x * Total + (m % Total) /\ BlockOf(m) = FirstPosition + DataShards * x
  BY BlockFacts
<1>3. PICK y \in Nat : n = y * Total + (n % Total) /\ BlockOf(n) = FirstPosition + DataShards * y
  BY BlockFacts
<1>4. m % Total \in 0 .. Total - 1 /\ n % Total \in 0 .. Total - 1
  BY BlockFacts
<1>5. x <= y
  <2>1. CASE y < x
    <3>1. x - y - 1 \in Nat /\ x * Total = y * Total + Total + (x - y - 1) * Total
      BY <1>1, <2>1
    <3>2. (x - y - 1) * Total >= 0 /\ (x - y - 1) * Total \in Int /\ y * Total \in Int
      BY <1>1, <3>1
    <3>3. QED
      BY <1>1, <1>2, <1>3, <1>4, <3>1, <3>2
  <2>2. QED
    BY <2>1
<1>6. DataShards * x <= DataShards * y
  <2>1. y - x \in Nat /\ DataShards * y = DataShards * x + DataShards * (y - x)
    BY <1>1, <1>5
  <2>2. DataShards * (y - x) >= 0 /\ DataShards * x \in Int /\ DataShards * (y - x) \in Int
    BY <1>1, <2>1
  <2>3. QED
    BY <2>1, <2>2
<1>7. DataShards * x = DataShards * y => x = y
  <2>1. SUFFICES ASSUME DataShards * x = DataShards * y, x < y PROVE FALSE
    BY <1>5
  <2>2. y - x - 1 \in Nat /\ DataShards * y = DataShards * x + DataShards + DataShards * (y - x - 1)
    BY <1>1, <2>1
  <2>3. DataShards * (y - x - 1) >= 0 /\ DataShards * x \in Int /\ DataShards * (y - x - 1) \in Int
    BY <1>1, <2>2
  <2>4. QED
    BY <1>1, <2>1, <2>2, <2>3
<1>8. DataShards * x \in Nat /\ DataShards * y \in Nat
  BY <1>1
<1>9. BlockOf(m) = BlockOf(n) => x = y
  BY <1>1, <1>2, <1>3, <1>7, <1>8
<1> QED
  BY <1>1, <1>2, <1>3, <1>4, <1>6, <1>8, <1>9

(* What the queue makes of a packet, unless its base is crooked.           *)
LEMMA PacketFacts ==
  ASSUME NEW n \in Nat, NEW p, p = PacketAt(n)
  PROVE  /\ IsAudio(p) <=> n % Total < DataShards
         /\ IsAudio(p) => ~Misaligned(p) /\ p.id = BlockOf(n) + (n % Total)
         /\ ~Misaligned(p) => /\ FirstOf(p) = BlockOf(n) /\ BaseOf(p) = U16(BlockOf(n))
                              /\ Shard(p) = n % Total
         /\ p.size \in {1, 2}
<1> DEFINE k == n % Total
           a == BlockOf(n)
<1>1. DataShards \in Nat \ {0, 1} /\ SeqModulus \in Nat /\ Half \in Nat
  BY Modulus
<1>2. a \in Nat /\ a % DataShards = 0 /\ k \in 0 .. Total - 1
  BY BlockFacts
<1>3. p = IF k < DataShards
          THEN [kind |-> "audio", id |-> a + k, index |-> 0, base |-> 0,
                size |-> IF n \in Odd THEN 2 ELSE 1]
          ELSE [kind |-> "fec", id |-> a, index |-> k - DataShards,
                base |-> a + (IF n \in Crooked THEN 1 ELSE 0),
                size |-> IF n \in Odd THEN 2 ELSE 1]
  BY DEF PacketAt
<1> HIDE DEF k, a
<1>4. IsAudio(p) <=> k < DataShards
  BY <1>3 DEF IsAudio
<1>5. U16(a) \in Nat /\ U16(a) % DataShards = 0 /\ U16(a) < SeqModulus
  <2>1. a \in Int
    BY <1>2
  <2>2. U16(a) \in 0..(SeqModulus - 1) /\ U16(a) % DataShards = a % DataShards
    BY <2>1, U16Type, U16Rest
  <2>3. QED
    BY <1>1, <1>2, <2>2
<1>6. CASE k < DataShards
  <2>1. p.id = a + k /\ p.kind = "audio" /\ a + k \in Int /\ k \in 0..(DataShards - 1)
    BY <1>1, <1>2, <1>3, <1>6
  <2>2. U16(a + k) % DataShards = k
    <3>1. U16(a + k) % DataShards = (a + k) % DataShards
      BY <2>1, U16Rest
    <3>2. (a + k) % DataShards = k
      BY <1>2, <2>1, FloorAt
    <3>3. QED
      BY <3>1, <3>2
  <2>3. FirstOf(p) = a
    BY <1>2, <2>1, <2>2 DEF FirstOf, Seq16, IsAudio
  <2>4. U16(a + k) = U16(a) + k
    <3>1. U16(a) + k < SeqModulus
      <4>1. 0 \in Int /\ 0 % DataShards = 0 /\ U16(a) \in Int
        BY <1>1, <1>5
      <4>2. PICK q \in Nat \ {0} : Half = q * DataShards /\ SeqModulus = 2 * Half
        BY Modulus
      <4>3. (0 + (2 * q) * DataShards) % DataShards = 0
        <5>1. \A c \in Int : (0 + c * DataShards) % DataShards = 0 % DataShards
          <6> TAKE c \in Int
          <6> QED
            BY <1>1, <4>1, ModShift
        <5>2. 2 * q \in Int
          OBVIOUS
        <5>3. QED
          BY <4>1, <5>1, <5>2
      <4>4. 0 + (2 * q) * DataShards = SeqModulus
        BY <1>1, <4>2
      <4>5. SeqModulus % DataShards = 0 /\ SeqModulus \in Int
        BY <1>1, <4>3, <4>4
      <4>6. U16(a) + DataShards <= SeqModulus
        BY <1>5, <4>1, <4>5, Multiples
      <4>7. QED
        BY <1>1, <1>5, <2>1, <4>6
    <3>2. U16(U16(a) + k) = U16(a + k)
      BY <1>2, <2>1, U16Sum
    <3>3. U16(a) + k \in 0..(SeqModulus - 1) /\ SeqModulus \in Nat \ {0}
      BY <1>1, <1>5, <2>1, <3>1, Modulus
    <3>4. (0 * SeqModulus + (U16(a) + k)) % SeqModulus = U16(a) + k
      BY <3>3, ModUnique
    <3>5. 0 * SeqModulus + (U16(a) + k) = U16(a) + k
      BY <3>3
    <3>6. U16(U16(a) + k) = U16(a) + k
      BY <3>4, <3>5 DEF U16
    <3>7. QED
      BY <3>2, <3>6
  <2>5. BaseOf(p) = U16(a) /\ Shard(p) = k
    BY <1>5, <2>1, <2>3, <2>4 DEF BaseOf, Shard, Seq16, IsAudio
  <2>6. ~Misaligned(p)
    BY <1>5, <2>5 DEF Misaligned
  <2>7. p.size \in {1, 2}
    BY <1>3
  <2>8. QED
    BY <1>4, <1>6, <2>1, <2>3, <2>5, <2>6, <2>7 DEF k, a
<1>7. CASE ~(k < DataShards)
  <2>1. /\ p.index = k - DataShards /\ ~IsAudio(p)
        /\ p.base = a + (IF n \in Crooked THEN 1 ELSE 0)
    BY <1>3, <1>4, <1>7
  <2>2. FirstOf(p) = p.base /\ BaseOf(p) = U16(p.base) /\ Shard(p) = DataShards + p.index
    BY <2>1 DEF FirstOf, BaseOf, Shard
  <2>3. n \in Crooked => Misaligned(p)
    <3> SUFFICES ASSUME n \in Crooked PROVE BaseOf(p) % DataShards # 0
      BY DEF Misaligned
    <3>1. BaseOf(p) = U16(a + 1) /\ a + 1 \in Int /\ 1 \in 0..(DataShards - 1)
      BY <1>1, <1>2, <2>1, <2>2
    <3>2. U16(a + 1) % DataShards = (a + 1) % DataShards
      BY <3>1, U16Rest
    <3>3. (a + 1) % DataShards = 1
      BY <1>2, <3>1, FloorAt
    <3>4. QED
      BY <3>1, <3>2, <3>3
  <2>4. ~Misaligned(p) => FirstOf(p) = a /\ BaseOf(p) = U16(a) /\ Shard(p) = k
    BY <1>1, <1>2, <2>1, <2>2, <2>3
  <2>5. p.size \in {1, 2}
    BY <1>3
  <2>6. QED
    BY <1>4, <1>7, <2>1, <2>4, <2>5 DEF k, a
<1> QED
  BY <1>6, <1>7

-----------------------------------------------------------------------------
(* Lists of blocks: s is how many packets were sent, pos the position.     *)

BlockRecords ==
  [first : Nat, size : {1, 2}, got : SUBSET (0 .. Total - 1), fullyReassembled : BOOLEAN,
   nextDataPacketIndex : Nat, allowDiscontinuity : BOOLEAN]

(* The packet for shard k of the block at first or a later one was sent.   *)
Reached(first, k, s) ==
  \E m \in 0 .. s - 1 : BlockOf(m) > first \/ (BlockOf(m) = first /\ m % Total >= k)

Passed(first, s) == \E m \in 0 .. s - 1 : BlockOf(m) > first

GoodBlock(b, pos, s) ==
  /\ \E m \in 0 .. s - 1 : BlockOf(m) = b.first
  /\ Floor(pos) <= b.first /\ b.first - Floor(pos) < Half
  /\ b.nextDataPacketIndex = (IF b.first = Floor(pos) THEN pos - b.first ELSE 0)
  /\ b.allowDiscontinuity => b.first = Floor(pos) /\ Passed(b.first, s)
  /\ \A k \in b.got : Reached(b.first, k, s)
  /\ b.fullyReassembled => 0 .. DataShards - 1 \subseteq b.got

ListOK(bs, pos, s) ==
  /\ bs \in Seq(BlockRecords)
  /\ \A i \in 1 .. Len(bs) : GoodBlock(bs[i], pos, s)
  /\ \A i, j \in 1 .. Len(bs) : i < j => bs[i].first < bs[j].first
  /\ pos % DataShards # 0 => bs # <<>> /\ bs[1].first = Floor(pos)

(* What is there stays good when more is sent.                             *)
LEMMA ReachedGrows ==
  ASSUME NEW s \in Nat, NEW t \in Nat, s <= t, NEW first, NEW k
  PROVE  /\ Reached(first, k, s) => Reached(first, k, t)
         /\ Passed(first, s) => Passed(first, t)
<1>1. 0 .. s - 1 \subseteq 0 .. t - 1
  OBVIOUS
<1> QED
  BY <1>1 DEF Reached, Passed

LEMMA ListGrows ==
  ASSUME NEW s \in Nat, NEW t \in Nat, s <= t, NEW bs, NEW pos, ListOK(bs, pos, s)
  PROVE  ListOK(bs, pos, t)
<1>1. 0 .. s - 1 \subseteq 0 .. t - 1
  OBVIOUS
<1>2. \A b : GoodBlock(b, pos, s) => GoodBlock(b, pos, t)
  BY <1>1, ReachedGrows DEF GoodBlock
<1> QED
  BY <1>2 DEF ListOK

LEMMA GoodFirst ==
  ASSUME NEW s \in Nat, NEW pos \in Nat, NEW bs, ListOK(bs, pos, s), NEW i \in 1 .. Len(bs)
  PROVE  /\ bs[i] \in BlockRecords /\ bs[i].first \in Nat /\ bs[i].first % DataShards = 0
         /\ Floor(pos) <= bs[i].first /\ bs[i].first - Floor(pos) < Half
         /\ Floor(pos) \in Int
<1>1. bs[i] \in BlockRecords /\ GoodBlock(bs[i], pos, s)
  BY DEF ListOK
<1>2. PICK m \in 0 .. s - 1 : BlockOf(m) = bs[i].first
  BY <1>1 DEF GoodBlock
<1>3. m \in Nat
  OBVIOUS
<1>4. bs[i].first \in Nat /\ bs[i].first % DataShards = 0
  BY <1>2, <1>3, BlockFacts
<1>5. Floor(pos) \in Int
  BY FloorFacts
<1> QED
  BY <1>1, <1>4, <1>5 DEF GoodBlock

(* Within a list, and for a packet that may enter it, the low bits tell    *)
(* blocks apart.                                                           *)
LEMMA BasesOrdered ==
  ASSUME NEW s \in Nat, NEW pos \in Nat, NEW bs, ListOK(bs, pos, s), NEW i \in 1 .. Len(bs),
         NEW first \in Nat, first - Floor(pos) \in 0 .. Half - 1
  PROVE  /\ IsBefore16(U16(first), Base(bs[i])) <=> first < bs[i].first
         /\ Base(bs[i]) = U16(first) <=> bs[i].first = first
<1>1. /\ bs[i].first \in Nat /\ Floor(pos) <= bs[i].first /\ bs[i].first - Floor(pos) < Half
      /\ Floor(pos) \in Int /\ Half \in Nat
  BY GoodFirst, Modulus
<1>2. first - bs[i].first \in -Half .. Half - 1 /\ first \in Int /\ bs[i].first \in Int
  BY <1>1
<1>3. /\ IsBefore16(U16(first), U16(bs[i].first)) <=> first < bs[i].first
      /\ U16(first) = U16(bs[i].first) => first = bs[i].first
  BY <1>2, Order
<1> QED
  BY <1>3 DEF Base

(* A set of the first numbers is known by their number.                    *)
LEMMA Rank ==
  ASSUME NEW n \in Nat, NEW L \in SUBSET (1 .. n), \A i \in L : \A j \in 1 .. n : j < i => j \in L
  PROVE  Cardinality(L) \in 0 .. n /\ L = 1 .. Cardinality(L)
<1> DEFINE c == Cardinality(L)
<1>1. IsFiniteSet(1 .. n) /\ Cardinality(1 .. n) = n
  <2>1. 1 \in Int /\ n \in Int
    OBVIOUS
  <2>2. IsFiniteSet(1 .. n) /\ Cardinality(1 .. n) = IF 1 > n THEN 0 ELSE n - 1 + 1
    BY <2>1, FS_Interval
  <2>3. QED
    BY <2>2
<1>2. IsFiniteSet(L) /\ c <= n /\ c \in Nat
  <2>1. IsFiniteSet(L) /\ c <= n
    BY <1>1, FS_Subset
  <2>2. QED
    BY <2>1, FS_CardinalityType
<1> HIDE DEF c
<1>3. \A k \in L : k <= c
  <2> TAKE k \in L
  <2>1. k \in 1 .. n /\ 1 .. k \subseteq L
    OBVIOUS
  <2>2. Cardinality(1 .. k) = k
    <3>1. 1 \in Int /\ k \in Int
      BY <2>1
    <3>2. Cardinality(1 .. k) = IF 1 > k THEN 0 ELSE k - 1 + 1
      BY <3>1, FS_Interval
    <3>3. QED
      BY <2>1, <3>2
  <2>3. Cardinality(1 .. k) <= Cardinality(L)
    BY <1>2, <2>1, FS_Subset
  <2>4. QED
    BY <2>2, <2>3 DEF c
<1>4. L \in SUBSET (1 .. c)
  BY <1>2, <1>3
<1>5. IsFiniteSet(1 .. c) /\ Cardinality(1 .. c) = c
  <2>1. 1 \in Int /\ c \in Int
    BY <1>2
  <2>2. IsFiniteSet(1 .. c) /\ Cardinality(1 .. c) = IF 1 > c THEN 0 ELSE c - 1 + 1
    BY <2>1, FS_Interval
  <2>3. QED
    BY <1>2, <2>2
<1>6. L = 1 .. c
  <2>1. Cardinality(1 .. c) = Cardinality(L)
    BY <1>5 DEF c
  <2>2. QED
    BY <1>4, <1>5, <2>1, FS_Subset
<1> QED
  BY <1>2, <1>6 DEF c

LEMMA Inserted ==
  ASSUME NEW S, NEW q \in Seq(S), NEW i \in 1 .. Len(q) + 1, NEW e \in S
  PROVE  /\ InsertAt(q, i, e) \in Seq(S) /\ Len(InsertAt(q, i, e)) = Len(q) + 1
         /\ \A j \in 1 .. Len(q) + 1 :
              InsertAt(q, i, e)[j] = IF j < i THEN q[j] ELSE IF j = i THEN e ELSE q[j - 1]
<1> DEFINE u == SubSeq(q, 1, i - 1)
           v == SubSeq(q, i, Len(q))
<1>1. u \in Seq(S) /\ Len(u) = i - 1 /\ \A j \in 1 .. i - 1 : u[j] = q[j]
  OBVIOUS
<1>2. v \in Seq(S) /\ Len(v) = Len(q) - i + 1 /\ \A j \in 1 .. Len(q) - i + 1 : v[j] = q[i + j - 1]
  OBVIOUS
<1>3. InsertAt(q, i, e) = u \o <<e>> \o v
  BY DEF InsertAt
<1> HIDE DEF u, v
<1> DEFINE w == u \o <<e>>
<1>4. w \in Seq(S) /\ Len(w) = i /\ w[i] = e /\ \A j \in 1 .. i - 1 : w[j] = q[j]
  BY <1>1
<1> HIDE DEF w
<1>5. InsertAt(q, i, e) = w \o v
  BY <1>3 DEF w
<1>6. w \o v \in Seq(S) /\ Len(w \o v) = Len(q) + 1
  <2>1. w \o v \in Seq(S) /\ Len(w \o v) = Len(w) + Len(v)
    <3>1. w \in Seq(S) /\ v \in Seq(S)
      BY <1>2, <1>4
    <3>2. \A a, b \in Seq(S) : a \o b \in Seq(S) /\ Len(a \o b) = Len(a) + Len(b)
      OBVIOUS
    <3>3. QED
      BY <3>1, <3>2
  <2>2. Len(q) \in Nat /\ i \in Int
    OBVIOUS
  <2>3. QED
    BY <1>2, <1>4, <2>1, <2>2
<1>7. \A j \in 1 .. Len(q) + 1 :
         (w \o v)[j] = IF j < i THEN q[j] ELSE IF j = i THEN e ELSE q[j - 1]
  <2> TAKE j \in 1 .. Len(q) + 1
  <2>1. CASE j <= i
    <3>1. (w \o v)[j] = w[j]
      BY <1>2, <1>4, <2>1
    <3>2. QED
      BY <1>4, <2>1, <3>1
  <2>2. CASE j > i
    <3>1. (w \o v)[j] = v[j - i] /\ j - i \in 1 .. Len(q) - i + 1
      BY <1>2, <1>4, <2>2
    <3>2. v[j - i] = q[i + (j - i) - 1]
      BY <1>2, <3>1
    <3>3. QED
      BY <2>2, <3>1, <3>2
  <2>3. j \in Int /\ i \in Int
    OBVIOUS
  <2>4. j <= i \/ j > i
    BY <2>3
  <2>5. QED
    BY <2>1, <2>2, <2>4
<1> QED
  BY <1>5, <1>6, <1>7

Includes(w, bs) == \A i \in 1 .. Len(bs) : \E j \in 1 .. Len(w) : w[j] = bs[i]

(* WithBlock(): the block of a packet that is not stale is in the list,    *)
(* which stays in order; a new one never comes before a block that is      *)
(* being played.                                                           *)
LEMMA Insert ==
  ASSUME NEW s \in Nat, position \in Nat, ListOK(blocks, position, s),
         NEW n \in 0 .. s - 1, NEW p, p = PacketAt(n), ~Misaligned(p),
         BlockOf(n) - Floor(position) \in 0 .. Half - 1
  PROVE  /\ ListOK(WithBlock(p), position, s)
         /\ IndexOf(p) \in 1 .. Len(WithBlock(p))
         /\ WithBlock(p)[IndexOf(p)].first = BlockOf(n)
         /\ BlockOf(n) = Floor(position) => IndexOf(p) = 1
         /\ Len(WithBlock(p)) >= Len(blocks)
         /\ Includes(WithBlock(p), blocks)
         /\ \A j \in 1 .. Len(WithBlock(p)) :
              \/ \E i \in 1 .. Len(blocks) : WithBlock(p)[j] = blocks[i]
              \/ j = IndexOf(p) /\ WithBlock(p)[j] = NewBlock(BlockOf(n), p.size)
<1> DEFINE a == BlockOf(n)
           bs == WithBlock(p)
           before == {i \in DOMAIN blocks : ~IsBefore16(BaseOf(p), Base(blocks[i]))}
           c == Cardinality(before)
           e == NewBlock(a, p.size)
           L == Len(blocks)
<1>0. n \in Nat
  OBVIOUS
<1>1. a \in Nat /\ a % DataShards = 0 /\ a - Floor(position) \in 0 .. Half - 1
  BY <1>0, BlockFacts
<1>2. FirstOf(p) = a /\ BaseOf(p) = U16(a) /\ p.size \in {1, 2}
  BY <1>0, PacketFacts
<1>3. blocks \in Seq(BlockRecords) /\ L \in Nat /\ DOMAIN blocks = 1 .. L
  BY DEF ListOK
<1>4. \A i \in 1 .. L : blocks[i].first \in Nat /\ blocks[i].first % DataShards = 0
                       /\ Floor(position) <= blocks[i].first
  BY GoodFirst
<1>5. \A i \in 1 .. L : /\ IsBefore16(U16(a), Base(blocks[i])) <=> a < blocks[i].first
                        /\ Base(blocks[i]) = U16(a) <=> blocks[i].first = a
  BY <1>1, BasesOrdered
<1>6. DataShards \in Nat \ {0, 1} /\ Half \in Nat \ {0} /\ FecShards \in Nat
  BY Modulus
<1>7. Floor(position) \in Int /\ Floor(position) <= position /\ Floor(position) % DataShards = 0
      /\ position % DataShards = position - Floor(position)
  BY FloorFacts
<1>8. \A i, j \in 1 .. L : i < j => blocks[i].first < blocks[j].first
  BY DEF ListOK
<1>9. e \in BlockRecords /\ e.first = a
  <2>1. {} \in SUBSET (0 .. Total - 1) /\ FALSE \in BOOLEAN /\ 0 \in Nat
    OBVIOUS
  <2> HIDE DEF a
  <2>2. QED
    BY <1>1, <1>2, <2>1 DEF NewBlock, BlockRecords
<1>10. a # Floor(position) \/ position = Floor(position) \/ Known(p)
  <2> SUFFICES ASSUME a = Floor(position), position # Floor(position) PROVE Known(p)
    OBVIOUS
  <2>1. blocks # <<>> /\ blocks[1].first = a
    <3>1. position % DataShards # 0
      BY <1>7
    <3>2. QED
      BY <3>1 DEF ListOK
  <2>2. 1 \in 1 .. L
    BY <1>3, <2>1
  <2>3. Base(blocks[1]) = BaseOf(p)
    BY <1>2, <1>5, <2>1, <2>2
  <2>4. QED
    BY <1>3, <2>2, <2>3 DEF Known
<1>11. GoodBlock(e, position, s) \/ Known(p)
  <2> SUFFICES ASSUME ~Known(p) PROVE GoodBlock(e, position, s)
    OBVIOUS
  <2>1. e.first = a /\ e.got = {} /\ e.nextDataPacketIndex = 0 /\ e.allowDiscontinuity = FALSE /\ e.fullyReassembled = FALSE
    BY DEF NewBlock
  <2> HIDE DEF e
  <2>2. \E m \in 0 .. s - 1 : BlockOf(m) = a
    OBVIOUS
  <2>3. Floor(position) <= a /\ a - Floor(position) < Half
    BY <1>1, <1>6, <1>7
  <2>4. 0 = IF a = Floor(position) THEN position - a ELSE 0
    BY <1>1, <1>7, <1>10
  <2> HIDE DEF a
  <2>5. QED
    BY <2>1, <2>2, <2>3, <2>4 DEF GoodBlock
<1> HIDE DEF a, e
<1>20. CASE Known(p)
  <2>1. bs = blocks
    BY <1>20 DEF WithBlock
  <2>2. PICK i \in 1 .. L : Base(blocks[i]) = U16(a)
    BY <1>2, <1>3, <1>20 DEF Known
  <2>3. IndexOf(p) = CHOOSE j \in 1 .. L : Base(blocks[j]) = U16(a)
    BY <1>2, <1>3, <2>1 DEF IndexOf
  <2>4. IndexOf(p) \in 1 .. L /\ Base(blocks[IndexOf(p)]) = U16(a)
    BY <2>2, <2>3
  <2>5. blocks[IndexOf(p)].first = a
    <3>1. \A j \in 1 .. L : Base(blocks[j]) = U16(a) => blocks[j].first = a
      BY <1>5
    <3>2. QED
      BY <2>4, <3>1
  <2>6. ASSUME a = Floor(position) PROVE IndexOf(p) = 1
    <3>1. CASE IndexOf(p) > 1
      <4>1. 1 \in 1 .. L /\ 1 < IndexOf(p)
        BY <1>3, <2>4, <3>1
      <4>2. blocks[1].first < blocks[IndexOf(p)].first
        BY <1>8, <2>4, <4>1
      <4>3. blocks[1].first \in Nat /\ Floor(position) <= blocks[1].first
        BY <1>4, <4>1
      <4>4. QED
        BY <1>1, <1>7, <2>5, <2>6, <4>2, <4>3
    <3>2. QED
      BY <1>3, <2>4, <3>1
  <2>7. Includes(bs, blocks)
    BY <2>1 DEF Includes
  <2>8. QED
    BY <1>3, <2>1, <2>4, <2>5, <2>6, <2>7 DEF a
<1>21. CASE ~Known(p)
  <2>1. bs = InsertAt(blocks, c + 1, e)
    BY <1>2, <1>21 DEF WithBlock, e
  <2>2. before = {i \in 1 .. L : ~(a < blocks[i].first)}
    <3>1. \A i \in 1 .. L : IsBefore16(BaseOf(p), Base(blocks[i])) <=> a < blocks[i].first
      BY <1>2, <1>5
    <3>2. QED
      BY <1>3, <3>1
  <2>3. c \in 0 .. L /\ before = 1 .. c
    <3>1. before \in SUBSET (1 .. L)
      BY <2>2
    <3>2. \A i \in before : \A j \in 1 .. L : j < i => j \in before
      <4> SUFFICES ASSUME NEW i \in before, NEW j \in 1 .. L, j < i PROVE j \in before
        OBVIOUS
      <4>1. i \in 1 .. L /\ ~(a < blocks[i].first)
        BY <2>2
      <4>2. blocks[j].first < blocks[i].first /\ blocks[i].first \in Nat /\ blocks[j].first \in Nat
        BY <1>4, <1>8, <4>1
      <4>3. ~(a < blocks[j].first)
        BY <1>1, <4>1, <4>2
      <4>4. QED
        BY <2>2, <4>3
    <3> HIDE DEF before
    <3>3. QED
      BY <1>3, <3>1, <3>2, Rank
  <2>4. \A i \in 1 .. L : (i <= c => blocks[i].first < a) /\ (i > c => a < blocks[i].first)
    <3> SUFFICES ASSUME NEW i \in 1 .. L
                 PROVE  (i <= c => blocks[i].first < a) /\ (i > c => a < blocks[i].first)
      OBVIOUS
    <3>1. blocks[i].first # a
      BY <1>2, <1>3, <1>5, <1>21 DEF Known
    <3>2. i \in before <=> i <= c
      <4> HIDE DEF before, c
      <4> QED
        BY <2>3
    <3>3. i \in before <=> ~(a < blocks[i].first)
      BY <2>2
    <3>4. blocks[i].first \in Nat /\ i \in Int /\ c \in Int
      BY <1>4, <2>3
    <3> HIDE DEF before, c
    <3>5. QED
      BY <1>1, <3>1, <3>2, <3>3, <3>4
  <2> HIDE DEF before, c
  <2> DEFINE k == c + 1
  <2>5. k \in 1 .. L + 1
    BY <1>3, <2>3
  <2>6. /\ bs \in Seq(BlockRecords) /\ Len(bs) = L + 1
        /\ \A j \in 1 .. L + 1 : bs[j] = IF j < k THEN blocks[j] ELSE IF j = k THEN e ELSE blocks[j - 1]
    <3>1. bs = InsertAt(blocks, k, e)
      BY <2>1
    <3> HIDE DEF k
    <3>2. blocks \in Seq(BlockRecords) /\ k \in 1 .. Len(blocks) + 1 /\ e \in BlockRecords
      BY <1>3, <1>9, <2>5
    <3>3. /\ InsertAt(blocks, k, e) \in Seq(BlockRecords)
          /\ Len(InsertAt(blocks, k, e)) = Len(blocks) + 1
          /\ \A j \in 1 .. Len(blocks) + 1 :
               InsertAt(blocks, k, e)[j] = IF j < k THEN blocks[j] ELSE IF j = k THEN e ELSE blocks[j - 1]
      BY <3>2, Inserted
    <3> HIDE DEF bs
    <3>4. QED
      BY <3>1, <3>3
  <2>7. \A i \in 1 .. L : (i < k => blocks[i].first < a) /\ (i >= k => a < blocks[i].first)
    BY <1>3, <2>3, <2>4
  <2> HIDE DEF k
  <2> HIDE DEF bs
  <2>8. bs[k] = e /\ k \in 1 .. Len(bs)
    BY <1>3, <2>5, <2>6
  <2>9. \A j \in 1 .. L + 1 : j # k => \E i \in 1 .. L : /\ bs[j] = blocks[i]
                                                         /\ i = IF j < k THEN j ELSE j - 1
    <3> SUFFICES ASSUME NEW j \in 1 .. L + 1, j # k
                 PROVE  \E i \in 1 .. L : bs[j] = blocks[i] /\ i = IF j < k THEN j ELSE j - 1
      OBVIOUS
    <3>1. CASE j < k
      <4>1. j \in 1 .. L /\ bs[j] = blocks[j]
        BY <1>3, <2>5, <2>6, <3>1
      <4>2. QED
        BY <3>1, <4>1
    <3>2. CASE ~(j < k)
      <4>1. j - 1 \in 1 .. L /\ bs[j] = blocks[j - 1]
        BY <1>3, <2>5, <2>6, <3>2
      <4>2. QED
        BY <3>2, <4>1
    <3>3. QED
      BY <3>1, <3>2
  <2>10. \A j \in 1 .. L + 1 : bs[j].first = a <=> j = k
    <3> SUFFICES ASSUME NEW j \in 1 .. L + 1 PROVE bs[j].first = a <=> j = k
      OBVIOUS
    <3>1. CASE j = k
      BY <1>9, <2>8, <3>1
    <3>2. CASE j # k
      <4>1. PICK i \in 1 .. L : bs[j] = blocks[i]
        BY <2>9, <3>2
      <4>2. blocks[i].first # a
        BY <1>2, <1>3, <1>5, <1>21 DEF Known
      <4>3. QED
        BY <3>2, <4>1, <4>2
    <3>3. QED
      BY <3>1, <3>2
  <2>11. \A i \in 1 .. Len(bs) : GoodBlock(bs[i], position, s)
    <3> SUFFICES ASSUME NEW j \in 1 .. L + 1 PROVE GoodBlock(bs[j], position, s)
      BY <2>6
    <3>1. CASE j = k
      BY <1>11, <1>21, <2>8, <3>1
    <3>2. CASE j # k
      <4>1. PICK i \in 1 .. L : bs[j] = blocks[i]
        BY <2>9, <3>2
      <4>2. GoodBlock(blocks[i], position, s)
        BY DEF ListOK
      <4>3. QED
        BY <4>1, <4>2
    <3>3. QED
      BY <3>1, <3>2
  <2>12. \A i, j \in 1 .. Len(bs) : i < j => bs[i].first < bs[j].first
    <3> SUFFICES ASSUME NEW i \in 1 .. L + 1, NEW j \in 1 .. L + 1, i < j
                 PROVE  bs[i].first < bs[j].first
      BY <2>6
    <3>1. CASE i = k
      <4>1. PICK y \in 1 .. L : bs[j] = blocks[y] /\ y = IF j < k THEN j ELSE j - 1
        BY <2>9, <3>1
      <4>2. y >= k
        BY <2>5, <3>1, <4>1
      <4>3. QED
        BY <1>9, <2>7, <2>8, <3>1, <4>1, <4>2
    <3>2. CASE j = k
      <4>1. PICK x \in 1 .. L : bs[i] = blocks[x] /\ x = IF i < k THEN i ELSE i - 1
        BY <2>9, <3>2
      <4>2. x < k
        BY <2>5, <3>2, <4>1
      <4>3. QED
        BY <1>9, <2>7, <2>8, <3>2, <4>1, <4>2
    <3>3. CASE i # k /\ j # k
      <4>1. PICK x \in 1 .. L : bs[i] = blocks[x] /\ x = IF i < k THEN i ELSE i - 1
        BY <2>9, <3>3
      <4>2. PICK y \in 1 .. L : bs[j] = blocks[y] /\ y = IF j < k THEN j ELSE j - 1
        BY <2>9, <3>3
      <4>3. x < y
        BY <2>5, <3>3, <4>1, <4>2
      <4>4. QED
        BY <1>8, <4>1, <4>2, <4>3
    <3>4. QED
      BY <3>1, <3>2, <3>3
  <2>13. 1 < k => bs[1] = blocks[1]
    BY <1>3, <2>5, <2>6
  <2>14. position % DataShards # 0 => bs # <<>> /\ bs[1].first = Floor(position)
    <3> SUFFICES ASSUME position % DataShards # 0 PROVE bs # <<>> /\ bs[1].first = Floor(position)
      OBVIOUS
    <3>1. blocks # <<>> /\ blocks[1].first = Floor(position)
      BY DEF ListOK
    <3>2. 1 \in 1 .. L
      BY <1>3, <3>1
    <3>3. ~(a < blocks[1].first)
      BY <1>1, <1>7, <3>1
    <3>4. 1 < k
      BY <2>5, <2>7, <3>2, <3>3
    <3>5. bs # <<>>
      BY <1>3, <2>6
    <3>6. QED
      BY <2>13, <3>1, <3>4, <3>5
  <2>15. ListOK(bs, position, s)
    BY <2>6, <2>11, <2>12, <2>14 DEF ListOK
  <2>16. DOMAIN bs = 1 .. L + 1
    BY <2>6
  <2>17. \A j \in 1 .. L + 1 : Base(bs[j]) = BaseOf(p) <=> j = k
    <3> SUFFICES ASSUME NEW j \in 1 .. L + 1 PROVE Base(bs[j]) = BaseOf(p) <=> j = k
      OBVIOUS
    <3>1. Base(bs[j]) = U16(a) <=> bs[j].first = a
      <4>1. j \in 1 .. Len(bs) /\ position \in Nat
        BY <2>6
      <4> HIDE DEF bs, a
      <4>2. QED
        BY <1>1, <2>15, <4>1, BasesOrdered
    <3>2. QED
      BY <1>2, <2>10, <3>1
  <2>18. IndexOf(p) = k
    <3>1. IndexOf(p) = CHOOSE j \in 1 .. L + 1 : Base(bs[j]) = BaseOf(p)
      BY <2>16 DEF IndexOf, bs
    <3>2. QED
      BY <2>5, <2>17, <3>1
  <2>19. a = Floor(position) => k = 1
    <3> SUFFICES ASSUME a = Floor(position), k # 1 PROVE FALSE
      OBVIOUS
    <3>1. 1 \in 1 .. L /\ 1 < k
      BY <1>3, <2>5
    <3>2. blocks[1].first < a /\ blocks[1].first \in Nat /\ Floor(position) <= blocks[1].first
      BY <1>4, <2>7, <3>1
    <3>3. QED
      BY <1>1, <1>7, <3>2
  <2>20. Includes(bs, blocks)
    <3> SUFFICES ASSUME NEW i \in 1 .. L PROVE \E j \in 1 .. L + 1 : bs[j] = blocks[i]
      BY <2>6 DEF Includes
    <3>1. CASE i < k
      <4>1. i \in 1 .. L + 1 /\ bs[i] = blocks[i]
        BY <1>3, <2>6, <3>1
      <4>2. QED
        BY <4>1
    <3>2. CASE ~(i < k)
      <4>1. i + 1 \in 1 .. L + 1 /\ ~(i + 1 < k) /\ i + 1 # k /\ (i + 1) - 1 = i
        BY <1>3, <2>5, <3>2
      <4>2. bs[i + 1] = blocks[i]
        BY <2>6, <4>1
      <4>3. QED
        BY <4>1, <4>2
    <3>3. QED
      BY <3>1, <3>2
  <2>21. \A j \in 1 .. L + 1 : (\E i \in 1 .. L : bs[j] = blocks[i]) \/ (j = k /\ bs[j] = e)
    <3> TAKE j \in 1 .. L + 1
    <3>1. CASE j = k
      BY <2>8, <3>1
    <3>2. CASE j # k
      <4>1. PICK i \in 1 .. L : bs[j] = blocks[i]
        BY <2>9, <3>2
      <4> HIDE DEF L
      <4>2. \E x \in 1 .. L : bs[j] = blocks[x]
        BY <4>1
      <4>3. QED
        BY <4>2
    <3>3. QED
      BY <3>1, <3>2
  <2>22. L + 1 >= L
    BY <1>3
  <2>23. QED
    BY <1>9, <2>6, <2>8, <2>15, <2>18, <2>19, <2>20, <2>21, <2>22 DEF a, e, bs
<1> QED
  BY <1>20, <1>21

(* A block of a list may be replaced by one with the same packets.         *)
LEMMA Replaced ==
  ASSUME NEW s \in Nat, NEW pos \in Nat, NEW bs, ListOK(bs, pos, s), NEW i \in 1 .. Len(bs),
         NEW b \in BlockRecords, GoodBlock(b, pos, s), b.first = bs[i].first
  PROVE  ListOK([bs EXCEPT ![i] = b], pos, s)
<1> DEFINE w == [bs EXCEPT ![i] = b]
<1>1. bs \in Seq(BlockRecords) /\ Len(bs) \in Nat
  BY DEF ListOK
<1>2. w \in Seq(BlockRecords) /\ Len(w) = Len(bs)
  BY <1>1
<1>3. \A j \in 1 .. Len(bs) : w[j] = IF j = i THEN b ELSE bs[j]
  BY <1>1
<1> HIDE DEF w
<1>4. \A j \in 1 .. Len(bs) : w[j].first = bs[j].first
  BY <1>3
<1>5. \A j \in 1 .. Len(w) : GoodBlock(w[j], pos, s)
  BY <1>2, <1>3 DEF ListOK
<1>6. \A j, k \in 1 .. Len(w) : j < k => w[j].first < w[k].first
  BY <1>2, <1>4 DEF ListOK
<1>7. pos % DataShards # 0 => w # <<>> /\ w[1].first = Floor(pos)
  <2> SUFFICES ASSUME pos % DataShards # 0 PROVE w # <<>> /\ w[1].first = Floor(pos)
    OBVIOUS
  <2>1. bs # <<>> /\ bs[1].first = Floor(pos)
    BY DEF ListOK
  <2>2. 1 \in 1 .. Len(bs)
    BY <1>1, <2>1
  <2>3. w # <<>>
    BY <1>2, <2>2
  <2>4. QED
    BY <1>4, <2>1, <2>2, <2>3
<1>8. ListOK(w, pos, s)
  BY <1>2, <1>5, <1>6, <1>7 DEF ListOK
<1> QED
  BY <1>8 DEF w

LEMMA EnoughShards ==
  ASSUME NEW got \in SUBSET (0 .. Total - 1)
  PROVE  /\ IsFiniteSet(got) /\ Cardinality(got) \in Nat
         /\ Cardinality(got) >= DataShards => \E k \in got : k >= DataShards - 1
<1>1. DataShards \in Nat \ {0, 1} /\ Total \in Nat \ {0}
  BY Modulus, Totals
<1>2. IsFiniteSet(0 .. Total - 1)
  <2>1. 0 \in Int /\ Total - 1 \in Int
    BY <1>1
  <2>2. QED
    BY <2>1, FS_Interval
<1>3. IsFiniteSet(got) /\ Cardinality(got) \in Nat
  BY <1>2, FS_Subset, FS_CardinalityType
<1>4. ASSUME \A k \in got : ~(k >= DataShards - 1)
      PROVE  Cardinality(got) < DataShards
  <2> DEFINE d == DataShards - 2
  <2>1. 0 \in Int /\ d \in Int
    BY <1>1
  <2>2. got \in SUBSET (0 .. d)
    BY <1>1, <1>4
  <2>3. d >= 0 /\ d + 1 < DataShards
    BY <1>1
  <2> HIDE DEF d
  <2>4. IsFiniteSet(0 .. d) /\ Cardinality(0 .. d) = IF 0 > d THEN 0 ELSE d - 0 + 1
    BY <2>1, FS_Interval
  <2>5. Cardinality(got) <= Cardinality(0 .. d)
    BY <2>2, <2>4, FS_Subset
  <2>6. QED
    BY <1>1, <1>3, <2>1, <2>3, <2>4, <2>5
<1> QED
  BY <1>1, <1>3, <1>4

LEMMA ReachedBefore ==
  ASSUME NEW s \in Nat, NEW first \in Nat, NEW k \in Int, NEW j \in Int, j <= k, Reached(first, k, s)
  PROVE  Reached(first, j, s)
<1>1. PICK m \in 0 .. s - 1 : BlockOf(m) > first \/ (BlockOf(m) = first /\ m % Total >= k)
  BY DEF Reached
<1>2. m % Total \in Int
  <2>1. m \in Nat
    OBVIOUS
  <2>2. QED
    BY <2>1, BlockFacts
<1>3. BlockOf(m) > first \/ (BlockOf(m) = first /\ m % Total >= j)
  BY <1>1, <1>2
<1> QED
  BY <1>3 DEF Reached

(* completeFecBlock() on a block to which shard k is added.                *)
LEMMA StoredBlock ==
  ASSUME NEW s \in Nat, NEW pos \in Nat, NEW b \in BlockRecords, GoodBlock(b, pos, s),
         NEW k \in 0 .. Total - 1, Reached(b.first, k, s),
         NEW d, d = Completed([b EXCEPT !.got = @ \cup {k}])
  PROVE  /\ d \in BlockRecords /\ GoodBlock(d, pos, s) /\ d.first = b.first
         /\ d.nextDataPacketIndex = b.nextDataPacketIndex
         /\ d.allowDiscontinuity = b.allowDiscontinuity
         /\ b.got \cup {k} \subseteq d.got
         /\ b.fullyReassembled => d.fullyReassembled
         /\ ~d.fullyReassembled => d.got = b.got \cup {k} /\ Cardinality(d.got) < DataShards
<1> DEFINE e == [b EXCEPT !.got = @ \cup {k}]
           g == b.got \cup {k}
<1>1. DataShards \in Nat \ {0, 1} /\ Total \in Nat \ {0} /\ DataShards <= Total
  BY Modulus, Totals
<1>2. /\ e \in BlockRecords /\ e.first = b.first /\ e.got = g /\ e.nextDataPacketIndex = b.nextDataPacketIndex
      /\ e.allowDiscontinuity = b.allowDiscontinuity /\ e.fullyReassembled = b.fullyReassembled
      /\ g \in SUBSET (0 .. Total - 1)
  BY DEF BlockRecords
<1>3. b.first \in Nat /\ b.got \in SUBSET (0 .. Total - 1)
  BY DEF BlockRecords
<1>4. \A j \in g : Reached(b.first, j, s)
  BY DEF GoodBlock
<1>5. GoodBlock(e, pos, s)
  <2>1. b.fullyReassembled => 0 .. DataShards - 1 \subseteq g
    BY DEF GoodBlock
  <2>2. e.fullyReassembled => 0 .. DataShards - 1 \subseteq e.got
    BY <1>2, <2>1
  <2> HIDE DEF e, g
  <2>3. QED
    BY <1>2, <1>4, <2>2 DEF GoodBlock
<1>6. d = Completed(e)
  OBVIOUS
<1> HIDE DEF e
<1>7. CASE Cardinality(g) < DataShards
  <2>1. d = e
    BY <1>2, <1>6, <1>7 DEF Completed
  <2> HIDE DEF g
  <2>2. QED
    BY <1>2, <1>5, <1>7, <2>1 DEF g
<1>8. CASE ~(Cardinality(g) < DataShards)
  <2>1. d = [e EXCEPT !.got = @ \cup (0 .. DataShards - 1), !.fullyReassembled = TRUE]
    BY <1>2, <1>6, <1>8 DEF Completed
  <2>2. /\ d \in BlockRecords /\ d.first = b.first /\ d.got = g \cup (0 .. DataShards - 1)
        /\ d.nextDataPacketIndex = b.nextDataPacketIndex
        /\ d.allowDiscontinuity = b.allowDiscontinuity /\ d.fullyReassembled = TRUE
    <3>1. 0 .. DataShards - 1 \subseteq 0 .. Total - 1
      BY <1>1
    <3> HIDE DEF g
    <3>2. g \cup (0 .. DataShards - 1) \in SUBSET (0 .. Total - 1)
      BY <1>2, <3>1
    <3>3. d.first = e.first /\ d.got = e.got \cup (0 .. DataShards - 1)
          /\ d.nextDataPacketIndex = e.nextDataPacketIndex
          /\ d.allowDiscontinuity = e.allowDiscontinuity /\ d.fullyReassembled = TRUE
          /\ d \in BlockRecords
      BY <1>2, <2>1, <3>2 DEF BlockRecords
    <3>4. QED
      BY <1>2, <3>3
  <2>3. \A j \in 0 .. DataShards - 1 : Reached(b.first, j, s)
    <3> TAKE j \in 0 .. DataShards - 1
    <3>1. Cardinality(g) \in Nat
      <4> HIDE DEF g
      <4> QED
        BY <1>2, EnoughShards
    <3>2. PICK x \in g : x >= DataShards - 1
      <4>1. Cardinality(g) >= DataShards
        BY <1>1, <1>8, <3>1
      <4> HIDE DEF g
      <4>2. QED
        BY <1>2, <4>1, EnoughShards
    <3>3. Reached(b.first, x, s) /\ x \in Int /\ j <= x /\ j \in Int
      BY <1>1, <1>2, <1>4, <3>2
    <3>4. QED
      BY <1>3, <3>3, ReachedBefore
  <2>4. \A j \in d.got : Reached(d.first, j, s)
    BY <1>4, <2>2, <2>3
  <2>5. GoodBlock(d, pos, s)
    <3> HIDE DEF g
    <3>1. QED
      BY <2>2, <2>4 DEF GoodBlock
  <2>6. QED
    BY <2>2, <2>5
<1> QED
  BY <1>7, <1>8

(* Block b is the head of bs once it has handed over its packet for the    *)
(* position, or a placeholder.                                             *)
WithHead(w, bs, b) == w = [bs EXCEPT ![1] = b]
PlaysOn(b, bs, pos, s) ==
  /\ b.first = bs[1].first /\ b.nextDataPacketIndex = pos + 1 - b.first
  /\ b.allowDiscontinuity => bs[1].allowDiscontinuity
  /\ \A k \in b.got : Reached(b.first, k, s)
  /\ b.fullyReassembled => 0 .. DataShards - 1 \subseteq b.got

LEMMA Played ==
  ASSUME NEW s \in Nat, NEW pos \in Nat, NEW bs, ListOK(bs, pos, s), bs # <<>>,
         bs[1].first = Floor(pos),
         NEW b \in BlockRecords, PlaysOn(b, bs, pos, s), NEW w, WithHead(w, bs, b)
  PROVE  /\ w \in Seq(BlockRecords) /\ Len(w) = Len(bs) /\ w # <<>> /\ w[1] = b /\ Head(w) = b
         /\ \A i \in 2 .. Len(bs) : w[i] = bs[i]
         /\ pos + 1 <= b.first + DataShards /\ b.first <= pos
         /\ pos + 1 = b.first + DataShards =>
              /\ ListOK(Tail(w), pos + 1, s) /\ Floor(pos + 1) = pos + 1
         /\ pos + 1 # b.first + DataShards =>
              ListOK(w, pos + 1, s) /\ Floor(pos + 1) = Floor(pos)
<1> USE DEF PlaysOn, WithHead
<1> DEFINE a == b.first
           L == Len(bs)
<1>1. DataShards \in Nat \ {0, 1} /\ Half \in Nat \ {0}
  BY Modulus
<1>2. bs \in Seq(BlockRecords) /\ L \in Nat /\ L >= 1 /\ 1 \in 1 .. L
  BY DEF ListOK
<1>3. a \in Nat /\ a % DataShards = 0 /\ Floor(pos) = a /\ a <= pos /\ pos < a + DataShards
  <2>1. bs[1].first \in Nat /\ bs[1].first % DataShards = 0
    BY <1>2, GoodFirst
  <2>2. Floor(pos) <= pos /\ pos < Floor(pos) + DataShards
    BY FloorFacts
  <2>3. a = bs[1].first /\ a = Floor(pos)
    OBVIOUS
  <2> HIDE DEF a
  <2>4. QED
    BY <2>1, <2>2, <2>3
<1>4. w \in Seq(BlockRecords) /\ Len(w) = L /\ w # <<>> /\ w[1] = b /\ Head(w) = b
      /\ \A i \in 2 .. L : w[i] = bs[i]
  <2>1. w \in Seq(BlockRecords) /\ Len(w) = L /\ \A i \in 1 .. L : w[i] = IF i = 1 THEN b ELSE bs[i]
    BY <1>2
  <2>2. w # <<>> /\ w[1] = b
    BY <1>2, <2>1
  <2>3. QED
    BY <1>2, <2>1, <2>2
<1>5. \A i \in 2 .. L : /\ bs[i].first \in Nat /\ bs[i].first % DataShards = 0
                        /\ a + DataShards <= bs[i].first /\ bs[i].first - a < Half
                        /\ bs[i].nextDataPacketIndex = 0 /\ bs[i].allowDiscontinuity = FALSE
                        /\ \E m \in 0 .. s - 1 : BlockOf(m) = bs[i].first
                        /\ \A k \in bs[i].got : Reached(bs[i].first, k, s)
                        /\ bs[i].fullyReassembled => 0 .. DataShards - 1 \subseteq bs[i].got
  <2> TAKE i \in 2 .. L
  <2>1. i \in 1 .. L /\ 1 < i
    BY <1>2
  <2>2. bs[1].first < bs[i].first
    BY <1>2, <2>1 DEF ListOK
  <2>3. bs[i] \in BlockRecords /\ bs[i].first \in Nat /\ bs[i].first % DataShards = 0 /\ bs[i].first - Floor(pos) < Half
    BY <2>1, GoodFirst
  <2>4. a < bs[i].first
    BY <2>2
  <2>5. a + DataShards <= bs[i].first
    BY <1>3, <2>3, <2>4, Multiples
  <2>6. bs[i].first # Floor(pos)
    BY <1>3, <2>3, <2>4
  <2>7. GoodBlock(bs[i], pos, s)
    BY <2>1 DEF ListOK
  <2>8. bs[i].allowDiscontinuity \in BOOLEAN
    BY <2>3 DEF BlockRecords
  <2>9. bs[i].nextDataPacketIndex = 0 /\ bs[i].allowDiscontinuity = FALSE
    BY <2>6, <2>7, <2>8 DEF GoodBlock
  <2>10. QED
    BY <1>3, <2>3, <2>5, <2>7, <2>9 DEF GoodBlock
<1>6. \A i, j \in 2 .. L : i < j => bs[i].first < bs[j].first
  BY <1>2 DEF ListOK
<1>7. GoodBlock(bs[1], pos, s)
  BY <1>2 DEF ListOK
<1> HIDE DEF L
<1>8. ASSUME pos + 1 = a + DataShards
      PROVE  ListOK(Tail(w), pos + 1, s) /\ Floor(pos + 1) = pos + 1
  <2> DEFINE v == Tail(w)
             to == pos + 1
  <2>1. to \in Nat /\ to % DataShards = 0 /\ to = a + DataShards
    BY <1>3, <1>8, Multiples
  <2>2. Floor(to) = to
    BY <2>1 DEF Floor
  <2> HIDE DEF to
  <2>3. v \in Seq(BlockRecords) /\ Len(v) = L - 1 /\ \A i \in 1 .. L - 1 : v[i] = bs[i + 1] /\ i + 1 \in 2 .. L
    <3>1. v \in Seq(BlockRecords) /\ Len(v) = L - 1
      BY <1>2, <1>4
    <3>2. \A i \in 1 .. L - 1 : v[i] = w[i + 1] /\ i + 1 \in 2 .. L
      BY <1>2, <1>4
    <3>3. QED
      BY <1>4, <3>1, <3>2
  <2> HIDE DEF v
  <2>4. \A i \in 1 .. Len(v) : GoodBlock(v[i], to, s)
    <3> SUFFICES ASSUME NEW i \in 1 .. L - 1 PROVE GoodBlock(v[i], to, s)
      BY <2>3
    <3> DEFINE c == bs[i + 1]
    <3>1. v[i] = c /\ i + 1 \in 2 .. L
      BY <2>3
    <3>2. /\ c.first \in Nat /\ a + DataShards <= c.first /\ c.first - a < Half
          /\ c.nextDataPacketIndex = 0 /\ c.allowDiscontinuity = FALSE
          /\ \E m \in 0 .. s - 1 : BlockOf(m) = c.first
          /\ \A k \in c.got : Reached(c.first, k, s)
          /\ c.fullyReassembled => 0 .. DataShards - 1 \subseteq c.got
      BY <1>5, <3>1
    <3> HIDE DEF c
    <3>3. Floor(to) <= c.first /\ c.first - Floor(to) < Half
          /\ 0 = IF c.first = Floor(to) THEN to - c.first ELSE 0
      <4> HIDE DEF a
      <4>1. Floor(to) \in Nat /\ c.first >= Floor(to) /\ c.first - Floor(to) < Half
        BY <1>1, <1>3, <2>1, <2>2, <3>2
      <4>2. c.first = Floor(to) => to - c.first = 0
        BY <2>1, <2>2
      <4>3. QED
        BY <3>2, <4>1, <4>2
    <3>4. QED
      BY <3>1, <3>2, <3>3 DEF GoodBlock
  <2>5. \A i, j \in 1 .. Len(v) : i < j => v[i].first < v[j].first
    <3> SUFFICES ASSUME NEW i \in 1 .. L - 1, NEW j \in 1 .. L - 1, i < j PROVE v[i].first < v[j].first
      BY <2>3
    <3>1. i + 1 \in 2 .. L /\ j + 1 \in 2 .. L /\ i + 1 < j + 1
      BY <1>2
    <3>2. QED
      BY <1>6, <2>3, <3>1
  <2>6. ListOK(v, to, s)
    BY <2>1, <2>3, <2>4, <2>5 DEF ListOK
  <2>7. QED
    BY <2>2, <2>6 DEF v, to
<1>9. ASSUME pos + 1 # a + DataShards
      PROVE  ListOK(w, pos + 1, s) /\ Floor(pos + 1) = Floor(pos)
  <2> DEFINE to == pos + 1
  <2>1. /\ Floor(to) = a /\ to \in Nat
    <3>1. to - a \in 0 .. DataShards - 1 /\ a \in Int /\ a + (to - a) = to
      BY <1>1, <1>3, <1>9
    <3>2. Floor(a + (to - a)) = a
      <4> DEFINE x == to - a
      <4>1. x \in 0 .. DataShards - 1 /\ a \in Int /\ a % DataShards = 0
        BY <1>3, <3>1
      <4> HIDE DEF x, to, a
      <4>2. Floor(a + x) = a
        BY <4>1, FloorAt
      <4>3. QED
        BY <4>2 DEF x
    <3>3. QED
      BY <3>1, <3>2
  <2> HIDE DEF to
  <2>2. \A i \in 1 .. Len(w) : GoodBlock(w[i], to, s)
    <3> SUFFICES ASSUME NEW i \in 1 .. L PROVE GoodBlock(w[i], to, s)
      BY <1>4
    <3>1. CASE i = 1
      <4>1. w[i] = b /\ b.nextDataPacketIndex = to - b.first
        <5>1. w[i] = b
          BY <1>4, <3>1
        <5>2. b.nextDataPacketIndex = to - b.first
          <6>1. b.nextDataPacketIndex = pos + 1 - b.first
            OBVIOUS
          <6>2. to = pos + 1
            BY DEF to
          <6>3. b.first \in Int /\ to \in Int
            BY <1>3, <2>1
          <6>4. QED
            BY <6>1, <6>2, <6>3
        <5>3. QED
          BY <5>1, <5>2
      <4>2. (\E m \in 0 .. s - 1 : BlockOf(m) = b.first)
            /\ (b.allowDiscontinuity => Passed(b.first, s))
        BY <1>7 DEF GoodBlock
      <4>3. Floor(to) = b.first /\ Floor(to) <= b.first /\ b.first - Floor(to) < Half
        <5>1. Floor(to) = a /\ a \in Nat /\ a <= a /\ a - a < Half
          BY <1>1, <1>3, <2>1
        <5>2. QED
          BY <5>1
      <4>4. QED
        BY <4>1, <4>2, <4>3 DEF GoodBlock
    <3>2. CASE i # 1
      <4> DEFINE c == bs[i]
      <4>1. i \in 2 .. L /\ w[i] = c
        BY <1>2, <1>4, <3>2
      <4>2. /\ c.first \in Nat /\ a + DataShards <= c.first /\ c.first - a < Half
            /\ c.nextDataPacketIndex = 0 /\ c.allowDiscontinuity = FALSE
            /\ \E m \in 0 .. s - 1 : BlockOf(m) = c.first
            /\ \A k \in c.got : Reached(c.first, k, s)
            /\ c.fullyReassembled => 0 .. DataShards - 1 \subseteq c.got
        BY <1>5, <4>1
      <4> HIDE DEF c
      <4>3. Floor(to) <= c.first /\ c.first - Floor(to) < Half /\ c.first # Floor(to)
        BY <1>1, <1>3, <2>1, <4>2
      <4>4. QED
        BY <4>1, <4>2, <4>3 DEF GoodBlock
    <3>3. QED
      BY <3>1, <3>2
  <2>3. \A i, j \in 1 .. Len(w) : i < j => w[i].first < w[j].first
    <3> SUFFICES ASSUME NEW i \in 1 .. L, NEW j \in 1 .. L, i < j PROVE w[i].first < w[j].first
      BY <1>4
    <3>1. j \in 2 .. L /\ w[j] = bs[j]
      BY <1>2, <1>4
    <3>2. CASE i = 1
      <4>1. w[i].first = a /\ a + DataShards <= bs[j].first /\ bs[j].first \in Nat
        BY <1>4, <1>5, <3>1, <3>2
      <4>2. QED
        BY <1>1, <1>3, <3>1, <4>1
    <3>3. CASE i # 1
      <4>1. i \in 2 .. L /\ w[i] = bs[i]
        BY <1>2, <1>4, <3>3
      <4>2. QED
        BY <1>6, <3>1, <4>1
    <3>4. QED
      BY <3>2, <3>3
  <2>4. to % DataShards # 0 => w # <<>> /\ w[1].first = Floor(to)
    BY <1>4, <2>1
  <2>5. ListOK(w, to, s)
    BY <1>4, <2>2, <2>3, <2>4 DEF ListOK
  <2>6. QED
    BY <1>3, <2>1, <2>5 DEF to
<1>10. pos + 1 <= a + DataShards
  BY <1>1, <1>3
<1> QED
  BY <1>3, <1>4, <1>8, <1>9, <1>10 DEF L

(* The position moves to the head of the list when that is still to come.  *)
LEMMA SkippedTo ==
  ASSUME NEW s \in Nat, NEW pos \in Nat, NEW bs, ListOK(bs, pos, s), bs # <<>>,
         pos < bs[1].first
  PROVE  /\ pos % DataShards = 0
         /\ ListOK(bs, bs[1].first, s) /\ Floor(bs[1].first) = bs[1].first
<1> DEFINE to == bs[1].first
<1>1. DataShards \in Nat \ {0, 1} /\ Half \in Nat \ {0}
  BY Modulus
<1>2. bs \in Seq(BlockRecords) /\ Len(bs) \in Nat /\ 1 \in 1 .. Len(bs)
  BY DEF ListOK
<1>3. to \in Nat /\ to % DataShards = 0
  BY <1>2, GoodFirst
<1>4. Floor(pos) \in Int /\ Floor(pos) <= pos
  BY FloorFacts
<1>5. Floor(to) = to
  BY <1>3 DEF Floor
<1>6. pos % DataShards = 0
  <2> SUFFICES ASSUME pos % DataShards # 0 PROVE FALSE
    OBVIOUS
  <2>1. to = Floor(pos)
    BY DEF ListOK
  <2>2. QED
    BY <1>3, <1>4, <2>1
<1> HIDE DEF to
<1>7. \A i \in 1 .. Len(bs) : GoodBlock(bs[i], to, s)
  <2> TAKE i \in 1 .. Len(bs)
  <2> DEFINE c == bs[i]
  <2>1. c \in BlockRecords /\ c.first \in Nat /\ c.first - Floor(pos) < Half
    BY GoodFirst
  <2>2. GoodBlock(c, pos, s)
    BY DEF ListOK
  <2>3. to <= c.first
    <3>1. CASE i = 1
      BY <1>3, <3>1 DEF to
    <3>2. CASE i # 1
      <4>1. 1 < i
        BY <1>2, <3>2
      <4>2. to < c.first
        BY <1>2, <4>1 DEF ListOK, to
      <4>3. QED
        BY <1>3, <2>1, <4>2
    <3>3. QED
      BY <3>1, <3>2
  <2> HIDE DEF c
  <2>4. c.first # Floor(pos) /\ c.first - to < Half /\ pos < to
    BY <1>1, <1>3, <1>4, <2>1, <2>3 DEF to
  <2>5. c.nextDataPacketIndex = 0 /\ ~c.allowDiscontinuity
    BY <2>2, <2>4 DEF GoodBlock
  <2>6. c.nextDataPacketIndex = IF c.first = Floor(to) THEN to - c.first ELSE 0
    BY <1>3, <1>5, <2>1, <2>5
  <2>7. GoodBlock(c, to, s)
    BY <1>5, <2>2, <2>3, <2>4, <2>5, <2>6 DEF GoodBlock
  <2>8. QED
    BY <2>7 DEF c
<1>8. ListOK(bs, to, s)
  BY <1>2, <1>3, <1>7 DEF ListOK
<1> QED
  BY <1>5, <1>6, <1>8 DEF to

-----------------------------------------------------------------------------
(* What the queue has of a block, and what it does with one more packet.   *)

Covered(bs, first, k) ==
  \E i \in 1 .. Len(bs) : bs[i].first = first /\ (bs[i].fullyReassembled \/ k \in bs[i].got)

Keeps(bs, w) == \A first, k : Covered(bs, first, k) => Covered(w, first, k)

(* Parity is used as soon as it suffices.                                  *)
SparseBlock(b) == ~b.fullyReassembled => Cardinality(b.got) < DataShards
Sparse(bs) == \A i \in 1 .. Len(bs) : SparseBlock(bs[i])

(* Block d is block b with more of its packets.                            *)
Grown(b, d) ==
  /\ d.first = b.first /\ b.got \subseteq d.got
  /\ b.fullyReassembled => d.fullyReassembled

LEMMA InsertCovers ==
  ASSUME NEW s \in Nat, position \in Nat, ListOK(blocks, position, s),
         NEW n \in 0 .. s - 1, NEW p, p = PacketAt(n), ~Misaligned(p),
         BlockOf(n) - Floor(position) \in 0 .. Half - 1
  PROVE  Keeps(blocks, WithBlock(p)) /\ (Sparse(blocks) => Sparse(WithBlock(p)))
<1> DEFINE bs == WithBlock(p)
<1>1. Includes(bs, blocks)
  BY Insert
<1>2. \A j \in 1 .. Len(bs) : \/ \E i \in 1 .. Len(blocks) : bs[j] = blocks[i]
                              \/ bs[j] = NewBlock(BlockOf(n), p.size)
  BY Insert
<1> HIDE DEF bs
<1>3. Keeps(blocks, bs)
  BY <1>1 DEF Keeps, Covered, Includes
<1>4. Sparse(blocks) => Sparse(bs)
  <2> SUFFICES ASSUME Sparse(blocks), NEW j \in 1 .. Len(bs) PROVE SparseBlock(bs[j])
    BY DEF Sparse
  <2>1. CASE \E i \in 1 .. Len(blocks) : bs[j] = blocks[i]
    BY <2>1 DEF Sparse
  <2>2. CASE bs[j] = NewBlock(BlockOf(n), p.size)
    <3>1. bs[j].got = {}
      BY <2>2 DEF NewBlock
    <3>2. Cardinality({}) = 0 /\ DataShards > 0
      BY FS_EmptySet, Modulus
    <3>3. QED
      BY <3>1, <3>2 DEF SparseBlock
  <2>3. QED
    BY <1>2, <2>1, <2>2
<1> QED
  BY <1>3, <1>4 DEF bs

(* Replacing a block by one that has as much.                              *)
LEMMA ReplacedCovers ==
  ASSUME NEW bs \in Seq(BlockRecords), NEW i \in 1 .. Len(bs), NEW b \in BlockRecords,
         Grown(bs[i], b), NEW w, w = [bs EXCEPT ![i] = b]
  PROVE  /\ Len(w) = Len(bs) /\ w[i] = b
         /\ Keeps(bs, w)
         /\ \A k \in b.got : Covered(w, b.first, k)
         /\ Sparse(bs) /\ SparseBlock(b) => Sparse(w)
<1>1. Len(w) = Len(bs) /\ w[i] = b /\ \A j \in 1 .. Len(bs) : j # i => w[j] = bs[j]
  OBVIOUS
<1>2. Keeps(bs, w)
  <2> SUFFICES ASSUME NEW first, NEW k, Covered(bs, first, k) PROVE Covered(w, first, k)
    BY DEF Keeps
  <2>1. PICK j \in 1 .. Len(bs) : bs[j].first = first /\ (bs[j].fullyReassembled \/ k \in bs[j].got)
    BY DEF Covered
  <2>2. w[j].first = first /\ (w[j].fullyReassembled \/ k \in w[j].got)
    <3>1. CASE j = i
      <4>1. w[j] = b /\ b.first = first
        BY <1>1, <2>1, <3>1 DEF Grown
      <4>2. b.fullyReassembled \/ k \in b.got
        BY <2>1, <3>1 DEF Grown
      <4>3. QED
        BY <4>1, <4>2
    <3>2. CASE j # i
      <4>1. w[j] = bs[j]
        BY <1>1, <3>2
      <4>2. QED
        BY <2>1, <4>1
    <3>3. QED
      BY <3>1, <3>2
  <2>3. QED
    BY <1>1, <2>2 DEF Covered
<1>3. \A k \in b.got : Covered(w, b.first, k)
  BY <1>1 DEF Covered
<1>4. Sparse(bs) /\ SparseBlock(b) => Sparse(w)
  <2> SUFFICES ASSUME Sparse(bs), SparseBlock(b), NEW j \in 1 .. Len(bs) PROVE SparseBlock(w[j])
    BY <1>1 DEF Sparse
  <2>1. CASE j = i
    BY <1>1, <2>1
  <2>2. CASE j # i
    BY <1>1, <2>2 DEF Sparse
  <2>3. QED
    BY <2>1, <2>2
<1> QED
  BY <1>1, <1>2, <1>3, <1>4

(* The list with a packet stored in its block.                             *)
LEMMA StoredFacts ==
  ASSUME NEW s \in Nat, position \in Nat, ListOK(blocks, position, s),
         NEW n \in 0 .. s - 1, NEW p, p = PacketAt(n), ~Misaligned(p),
         BlockOf(n) - Floor(position) \in 0 .. Half - 1
  PROVE  /\ ListOK(Stored(p), position, s) /\ Stored(p) # <<>>
         /\ Head(Stored(p)) = Stored(p)[1]
         /\ Keeps(blocks, Stored(p)) /\ Covered(Stored(p), BlockOf(n), n % Total)
         /\ Sparse(blocks) => Sparse(Stored(p))
<1> DEFINE bs == WithBlock(p)
           i == IndexOf(p)
           b == bs[i]
           k == n % Total
           d == Completed([b EXCEPT !.got = @ \cup {k}])
           w == [bs EXCEPT ![i] = d]
<1>1. n \in Nat /\ k \in 0 .. Total - 1 /\ Shard(p) = k
  <2>1. n \in Nat
    OBVIOUS
  <2>2. QED
    BY <2>1, BlockFacts, PacketFacts
<1>2. ListOK(bs, position, s) /\ i \in 1 .. Len(bs) /\ b.first = BlockOf(n)
  BY Insert
<1>3. Keeps(blocks, bs) /\ (Sparse(blocks) => Sparse(bs))
  BY InsertCovers
<1>4. Stored(p) = w
  <2> HIDE DEF k
  <2>1. Stored(p) = [bs EXCEPT ![i] = Completed([bs[i] EXCEPT !.got = @ \cup {Shard(p)}])]
    BY DEF Stored, BlockFor
  <2>2. QED
    BY <1>1, <2>1
<1> HIDE DEF bs, i
<1>5. b \in BlockRecords /\ GoodBlock(b, position, s) /\ bs \in Seq(BlockRecords)
  BY <1>2 DEF ListOK
<1> HIDE DEF b
<1>6. Reached(b.first, k, s)
  <2>1. BlockOf(n) = b.first /\ n % Total >= k
    BY <1>1, <1>2
  <2>2. QED
    BY <2>1 DEF Reached
<1> HIDE DEF k
<1>7. /\ d \in BlockRecords /\ GoodBlock(d, position, s) /\ d.first = b.first
      /\ k \in d.got /\ Grown(b, d) /\ SparseBlock(d)
  <2>1. /\ d \in BlockRecords /\ GoodBlock(d, position, s) /\ d.first = b.first
        /\ b.got \cup {k} \subseteq d.got /\ (b.fullyReassembled => d.fullyReassembled)
        /\ (~d.fullyReassembled => Cardinality(d.got) < DataShards)
    BY <1>1, <1>5, <1>6, StoredBlock
  <2> HIDE DEF d
  <2>2. QED
    BY <2>1 DEF Grown, SparseBlock
<1> HIDE DEF d
<1>8. ListOK(w, position, s)
  <2>1. d.first = bs[i].first
    BY <1>7 DEF b
  <2>2. QED
    BY <1>2, <1>7, <2>1, Replaced
<1>9. Len(w) = Len(bs) /\ Keeps(bs, w) /\ (\A x \in d.got : Covered(w, d.first, x))
      /\ (Sparse(bs) => Sparse(w))
  <2>1. Grown(bs[i], d)
    BY <1>7 DEF b
  <2> HIDE DEF w
  <2>2. w = [bs EXCEPT ![i] = d]
    BY DEF w
  <2>3. QED
    BY <1>2, <1>5, <1>7, <2>1, <2>2, ReplacedCovers
<1> HIDE DEF w
<1>10. w \in Seq(BlockRecords) /\ w # <<>> /\ Head(w) = w[1]
  <2>1. w \in Seq(BlockRecords)
    BY <1>8 DEF ListOK
  <2>2. Len(w) >= 1
    BY <1>2, <1>5, <1>9
  <2>3. QED
    BY <2>1, <2>2
<1>11. Keeps(blocks, w)
  BY <1>3, <1>9 DEF Keeps
<1>12. Covered(w, BlockOf(n), k)
  BY <1>2, <1>7, <1>9
<1> QED
  BY <1>3, <1>4, <1>8, <1>9, <1>10, <1>11, <1>12 DEF k

-----------------------------------------------------------------------------
(* The state of the queue when s packets have been sent: the low bits kept *)
(* are those of the position and of its block, the list is in order from   *)
(* there on, and no block was finished before its data packets were sent.  *)

Safe(bs, next, oldest, pos, sync, bad, drain, s) ==
  /\ pos \in Nat /\ next = U16(pos) /\ oldest = U16(Floor(pos))
  /\ ListOK(bs, pos, s)
  /\ sync \in BOOLEAN /\ bad \in BOOLEAN /\ drain \in BOOLEAN
  /\ pos > 0 => FirstPosition < pos /\ \E m \in 0 .. s - 1 : pos <= BlockOf(m) + DataShards
  /\ pos = 0 => bs = <<>> /\ sync /\ ~drain
  /\ bad => ~drain
  /\ ~sync => Reached(Floor(pos) - DataShards, DataShards - 1, s)

SafeNow(s) ==
  Safe(blocks, nextRtpSequenceNumber, oldestRtpBaseSequenceNumber, position, synchronizing,
       incompatibleServer, draining, s)

SafeNext(s) ==
  Safe(blocks', nextRtpSequenceNumber', oldestRtpBaseSequenceNumber', position', synchronizing',
       incompatibleServer', draining', s)

InSight(n) ==
  position > 0 /\ ~incompatibleServer =>
    /\ ~Unsynchronized
    /\ BlockOf(n) - Playing \in -Half .. Half - 1

LEMMA SafeGrows ==
  ASSUME NEW s \in Nat, NEW t \in Nat, s <= t, SafeNow(s)
  PROVE  SafeNow(t)
<1>1. 0 .. s - 1 \subseteq 0 .. t - 1
  OBVIOUS
<1>2. ListOK(blocks, position, t)
  BY ListGrows DEF SafeNow, Safe
<1>3. ~synchronizing => Reached(Floor(position) - DataShards, DataShards - 1, t)
  BY ReachedGrows DEF SafeNow, Safe
<1> QED
  BY <1>1, <1>2, <1>3 DEF SafeNow, Safe

(* A packet the queue takes in is of the block being played or of a later  *)
(* one.                                                                    *)
LEMMA Context ==
  ASSUME NEW s \in Nat, SafeNow(s), NEW n \in 0 .. s - 1, NEW p, p = PacketAt(n), InSight(n),
         ~incompatibleServer, ~Misaligned(p), ~Unsynchronized
  PROVE  /\ position \in Nat /\ position > 0 /\ ListOK(blocks, position, s)
         /\ BlockOf(n) - Floor(position) \in -Half .. Half - 1
         /\ Stale(p) <=> BlockOf(n) < Floor(position)
         /\ ~Stale(p) => BlockOf(n) - Floor(position) \in 0 .. Half - 1
<1>1. position \in Nat /\ ListOK(blocks, position, s)
      /\ oldestRtpBaseSequenceNumber = U16(Floor(position))
  BY DEF SafeNow, Safe
<1>2. Half \in Nat \ {0} /\ DataShards \in Nat \ {0}
  BY Modulus
<1>3. position > 0
  <2> SUFFICES ASSUME position = 0 PROVE FALSE
    BY <1>1
  <2>1. Floor(position) = 0
    <3>1. 0 \in Int /\ 0 \in 0 .. DataShards - 1
      BY <1>2
    <3>2. (0 * DataShards + 0) % DataShards = 0 /\ 0 * DataShards + 0 = 0
      BY <1>2, <3>1, ModUnique
    <3>3. QED
      BY <3>2 DEF Floor
  <2>2. U16(0) = 0
    <3>1. 0 \in -Half .. Half - 1
      BY <1>2
    <3>2. QED
      BY <3>1, U16Difference
  <2>3. synchronizing
    BY DEF SafeNow, Safe
  <2>4. QED
    BY <1>1, <2>1, <2>2, <2>3 DEF Unsynchronized
<1>4. BlockOf(n) - Floor(position) \in -Half .. Half - 1
  BY <1>3 DEF InSight, Playing, Floor
<1>5. n \in Nat
  OBVIOUS
<1>6. BaseOf(p) = U16(BlockOf(n)) /\ BlockOf(n) \in Int /\ Floor(position) \in Int
  BY <1>1, <1>5, BlockFacts, PacketFacts, FloorFacts
<1>7. Stale(p) <=> BlockOf(n) < Floor(position)
  BY <1>1, <1>4, <1>6, Order DEF Stale
<1> HIDE DEF Floor
<1> QED
  BY <1>1, <1>2, <1>3, <1>4, <1>6, <1>7

(* A list with a packet ready is being played.                             *)
LEMMA Ready ==
  ASSUME NEW s \in Nat, NEW pos \in Nat, NEW bs, ListOK(bs, pos, s), HasPacketReady(bs, U16(pos))
  PROVE  /\ bs # <<>> /\ Head(bs) = bs[1] /\ bs[1] \in BlockRecords /\ GoodBlock(bs[1], pos, s)
         /\ bs[1].first = Floor(pos) /\ bs[1].nextDataPacketIndex = pos - bs[1].first
         /\ bs[1].allowDiscontinuity \/ bs[1].nextDataPacketIndex \in bs[1].got
<1> DEFINE b == bs[1]
<1>1. bs \in Seq(BlockRecords) /\ bs # <<>>
  BY DEF ListOK, HasPacketReady
<1>2. 1 \in 1 .. Len(bs) /\ Head(bs) = b
  BY <1>1
<1>3. b \in BlockRecords /\ GoodBlock(b, pos, s)
  BY <1>1, <1>2 DEF ListOK
<1>4. b.first \in Nat /\ b.first % DataShards = 0 /\ Floor(pos) <= b.first /\ b.first - Floor(pos) < Half
  BY <1>2, GoodFirst
<1>5. b.allowDiscontinuity
      \/ (b.nextDataPacketIndex \in b.got /\ U16(b.first) + b.nextDataPacketIndex = U16(pos))
  BY <1>2 DEF HasPacketReady, Base
<1> HIDE DEF b
<1>6. Half \in Nat \ {0} /\ DataShards \in Nat \ {0}
  BY Modulus
<1>7. /\ Floor(pos) \in Int /\ Floor(pos) <= pos /\ pos < Floor(pos) + DataShards
      /\ pos % DataShards = pos - Floor(pos)
  BY FloorFacts
<1>8. b.first = Floor(pos)
  <2>1. CASE b.allowDiscontinuity
    BY <1>3, <2>1 DEF GoodBlock
  <2>2. CASE ~b.allowDiscontinuity /\ b.first # Floor(pos)
    <3>1. b.nextDataPacketIndex = 0
      BY <1>3, <2>2 DEF GoodBlock
    <3>2. U16(b.first) = U16(pos)
      <4>1. U16(b.first) \in Int
        BY <1>4, U16Type
      <4>2. QED
        BY <1>5, <2>2, <3>1, <4>1
    <3>3. b.first + DataShards <= Floor(pos) + Half
      <4>1. Floor(pos) % DataShards = 0 /\ b.first \in Int
        BY <1>4, FloorFacts
      <4>2. QED
        BY <1>4, <1>7, <4>1, WithinHalf
    <3>4. b.first - pos \in -Half .. Half - 1
      <4>1. Floor(pos) + DataShards <= b.first
        <5>1. Floor(pos) % DataShards = 0 /\ b.first \in Int /\ Floor(pos) < b.first
          BY <1>4, <1>7, <2>2, FloorFacts
        <5>2. QED
          BY <1>4, <1>7, <5>1, Multiples
      <4>2. QED
        BY <1>4, <1>6, <1>7, <3>3, <4>1
    <3>5. b.first = pos
      BY <1>4, <3>2, <3>4, Order
    <3>6. pos % DataShards = 0
      BY <1>4, <3>5
    <3>7. QED
      BY <1>7, <2>2, <3>5, <3>6
  <2>3. QED
    BY <2>1, <2>2
<1>9. b.nextDataPacketIndex = pos - b.first
  BY <1>3, <1>8 DEF GoodBlock
<1> QED
  BY <1>1, <1>2, <1>3, <1>5, <1>8, <1>9 DEF b

(* freeFecBlockHead(), or not, once the packet at the position is played.  *)
LEMMA Freed ==
  ASSUME NEW s \in Nat, SafeNow(s), position > 0,
         NEW bs, ListOK(bs, position, s), bs # <<>>, bs[1].first = Floor(position),
         NEW b \in BlockRecords, PlaysOn(b, bs, position, s), NEW w, WithHead(w, bs, b),
         NEW done \in BOOLEAN, done <=> position + 1 = b.first + DataShards,
         done => Reached(b.first, DataShards - 1, s),
         FreeIf(done, w), nextRtpSequenceNumber' = U16(position + 1), position' = position + 1,
         UNCHANGED <<incompatibleServer, draining>>
  PROVE  /\ SafeNext(s)
         /\ \A first \in Int : \A k : Covered(w, first, k) /\ Floor(position') <= first =>
                                    Covered(blocks', first, k)
         /\ (\A i \in 2 .. Len(bs) : SparseBlock(bs[i])) /\ (done \/ SparseBlock(b)) => Sparse(blocks')
<1>1. position \in Nat /\ DataShards \in Nat \ {0, 1}
  BY Modulus DEF SafeNow, Safe
<1>2. /\ w \in Seq(BlockRecords) /\ Len(w) = Len(bs) /\ w # <<>> /\ w[1] = b /\ Head(w) = b
      /\ \A i \in 2 .. Len(bs) : w[i] = bs[i]
      /\ position + 1 <= b.first + DataShards /\ b.first <= position
      /\ position + 1 = b.first + DataShards =>
           ListOK(Tail(w), position + 1, s) /\ Floor(position + 1) = position + 1
      /\ position + 1 # b.first + DataShards =>
           ListOK(w, position + 1, s) /\ Floor(position + 1) = Floor(position)
  <2>1. PICK pos \in Nat : pos = position
    BY <1>1
  <2>2. ListOK(bs, pos, s) /\ bs[1].first = Floor(pos) /\ PlaysOn(b, bs, pos, s)
    BY <2>1
  <2>3. /\ w \in Seq(BlockRecords) /\ Len(w) = Len(bs) /\ w # <<>> /\ w[1] = b /\ Head(w) = b
        /\ \A i \in 2 .. Len(bs) : w[i] = bs[i]
        /\ pos + 1 <= b.first + DataShards /\ b.first <= pos
        /\ pos + 1 = b.first + DataShards =>
             ListOK(Tail(w), pos + 1, s) /\ Floor(pos + 1) = pos + 1
        /\ pos + 1 # b.first + DataShards =>
             ListOK(w, pos + 1, s) /\ Floor(pos + 1) = Floor(pos)
    BY <2>2, Played
  <2>4. QED
    BY <2>1, <2>3
<1>3. b.first \in Nat
  BY DEF BlockRecords
<1>4. \E m \in 0 .. s - 1 : position + 1 <= BlockOf(m) + DataShards
  <2>1. 1 \in 1 .. Len(bs)
    BY <1>2
  <2>2. GoodBlock(bs[1], position, s)
    BY <2>1 DEF ListOK
  <2>3. \E m \in 0 .. s - 1 : BlockOf(m) = b.first
    BY <2>2 DEF GoodBlock, PlaysOn
  <2>4. QED
    BY <1>2, <2>3
<1>5. FirstPosition < position + 1
  BY <1>1, Totals DEF SafeNow, Safe
<1>6. CASE done
  <2>1. /\ blocks' = Tail(w) /\ oldestRtpBaseSequenceNumber' = U16(b.first + DataShards)
        /\ synchronizing' = FALSE
    BY <1>2, <1>6 DEF FreeIf
  <2>2. ListOK(Tail(w), position + 1, s) /\ Floor(position + 1) = position + 1
        /\ position + 1 = b.first + DataShards
    BY <1>2, <1>6
  <2>3. Reached(Floor(position + 1) - DataShards, DataShards - 1, s)
    <3>1. Floor(position + 1) - DataShards = b.first
      BY <1>1, <1>3, <2>2
    <3>2. QED
      BY <1>6, <3>1
  <2>4. SafeNext(s)
    <3>1. position' \in Nat /\ position' > 0 /\ position' = position + 1
      BY <1>1
    <3>2. oldestRtpBaseSequenceNumber' = U16(Floor(position'))
      BY <2>1, <2>2
    <3>3. ListOK(blocks', position', s)
      BY <2>1, <2>2
    <3>4. incompatibleServer' \in BOOLEAN /\ draining' \in BOOLEAN /\ (incompatibleServer' => ~draining')
      BY DEF SafeNow, Safe
    <3>5. FirstPosition < position' /\ \E m \in 0 .. s - 1 : position' <= BlockOf(m) + DataShards
      BY <1>4, <1>5
    <3>6. synchronizing' \in BOOLEAN
          /\ (~synchronizing' => Reached(Floor(position') - DataShards, DataShards - 1, s))
      BY <2>1, <2>3
    <3>7. QED
      BY <3>1, <3>2, <3>3, <3>4, <3>5, <3>6 DEF SafeNext, Safe
  <2>5. Len(Tail(w)) = Len(bs) - 1 /\ Len(bs) \in Nat
        /\ \A i \in 1 .. Len(bs) - 1 : Tail(w)[i] = w[i + 1]
    BY <1>2
  <2>6. ASSUME NEW first \in Int, NEW k, Covered(w, first, k), Floor(position') <= first
        PROVE  Covered(blocks', first, k)
    <3>1. PICK i \in 1 .. Len(w) : w[i].first = first /\ (w[i].fullyReassembled \/ k \in w[i].got)
      BY <2>6 DEF Covered
    <3>2. i # 1
      <4>1. Floor(position') = b.first + DataShards
        BY <2>2
      <4>2. first # b.first
        BY <1>1, <1>3, <2>6, <4>1
      <4>3. QED
        BY <1>2, <3>1, <4>2
    <3>3. i - 1 \in 1 .. Len(Tail(w)) /\ Tail(w)[i - 1] = w[i]
      <4>1. i - 1 \in 1 .. Len(bs) - 1 /\ (i - 1) + 1 = i
        BY <1>2, <2>5, <3>2
      <4>2. Tail(w)[i - 1] = w[(i - 1) + 1]
        BY <2>5, <4>1
      <4>3. QED
        BY <2>5, <4>1, <4>2
    <3>4. Covered(Tail(w), first, k)
      <4>1. Tail(w)[i - 1].first = first /\ (Tail(w)[i - 1].fullyReassembled \/ k \in Tail(w)[i - 1].got)
        BY <3>1, <3>3
      <4>2. QED
        BY <3>3, <4>1 DEF Covered
    <3>5. QED
      BY <2>1, <3>4
  <2>7. ASSUME \A i \in 2 .. Len(bs) : SparseBlock(bs[i])
        PROVE  Sparse(Tail(w))
    <3> SUFFICES ASSUME NEW i \in 1 .. Len(bs) - 1 PROVE SparseBlock(Tail(w)[i])
      BY <2>5 DEF Sparse
    <3>1. i + 1 \in 2 .. Len(bs)
      BY <2>5
    <3>2. Tail(w)[i] = bs[i + 1]
      BY <1>2, <2>5, <3>1
    <3>3. QED
      BY <2>7, <3>1, <3>2
  <2>8. QED
    BY <2>1, <2>4, <2>6, <2>7
<1>7. CASE ~done
  <2>1. /\ blocks' = w /\ UNCHANGED oldestRtpBaseSequenceNumber /\ UNCHANGED synchronizing
    BY <1>7 DEF FreeIf
  <2>2. ListOK(w, position + 1, s) /\ Floor(position + 1) = Floor(position)
    BY <1>2, <1>7
  <2>3. SafeNext(s)
    <3>1. position' \in Nat /\ position' > 0 /\ position' = position + 1
      BY <1>1
    <3>2. oldestRtpBaseSequenceNumber' = U16(Floor(position'))
      BY <2>1, <2>2 DEF SafeNow, Safe
    <3>3. ListOK(blocks', position', s)
      BY <2>1, <2>2
    <3>4. incompatibleServer' \in BOOLEAN /\ draining' \in BOOLEAN /\ (incompatibleServer' => ~draining')
          /\ synchronizing' \in BOOLEAN
      BY <2>1 DEF SafeNow, Safe
    <3>5. FirstPosition < position' /\ \E m \in 0 .. s - 1 : position' <= BlockOf(m) + DataShards
      BY <1>4, <1>5
    <3>6. ~synchronizing' => Reached(Floor(position') - DataShards, DataShards - 1, s)
      BY <2>1, <2>2 DEF SafeNow, Safe
    <3>7. QED
      BY <3>1, <3>2, <3>3, <3>4, <3>5, <3>6 DEF SafeNext, Safe
  <2>4. ASSUME \A i \in 2 .. Len(bs) : SparseBlock(bs[i]), SparseBlock(b)
        PROVE  Sparse(w)
    <3> SUFFICES ASSUME NEW i \in 1 .. Len(bs) PROVE SparseBlock(w[i])
      BY <1>2 DEF Sparse
    <3>1. CASE i = 1
      BY <1>2, <2>4, <3>1
    <3>2. CASE i # 1
      <4>1. i \in 2 .. Len(bs)
        BY <3>2
      <4>2. QED
        BY <1>2, <2>4, <4>1
    <3>3. QED
      BY <3>1, <3>2
  <2>5. QED
    BY <1>7, <2>1, <2>3, <2>4
<1> QED
  BY <1>6, <1>7

-----------------------------------------------------------------------------
(* What each call of RtpaAddPacket() and RtpaGetQueuedPacket() does.       *)

(* The packet waited for is before the head or in it.                      *)
LEMMA HeadDue ==
  ASSUME NEW s \in Nat, NEW pos \in Nat, NEW bs, ListOK(bs, pos, s), bs # <<>>
  PROVE  /\ bs[1].first \in Nat
         /\ IsBefore16(U16(pos), Base(bs[1])) <=> pos < bs[1].first
         /\ ~(pos < bs[1].first) => bs[1].first = Floor(pos)
<1> DEFINE a == bs[1].first
<1>1. 1 \in 1 .. Len(bs)
  BY DEF ListOK
<1>2. /\ a \in Nat /\ a % DataShards = 0 /\ Floor(pos) <= a /\ a - Floor(pos) < Half
      /\ Floor(pos) \in Int
  BY <1>1, GoodFirst
<1> HIDE DEF a
<1>3. Floor(pos) <= pos /\ pos < Floor(pos) + DataShards /\ Floor(pos) % DataShards = 0
  BY FloorFacts
<1>4. Half \in Nat /\ DataShards \in Nat \ {0}
  BY Modulus
<1>5. a \in Int
  BY <1>2
<1>6. a + DataShards <= Floor(pos) + Half
  BY <1>2, <1>3, <1>5, WithinHalf
<1>7. Floor(pos) < a => Floor(pos) + DataShards <= a
  BY <1>2, <1>3, <1>5, Multiples
<1>8. pos - a \in -Half .. Half - 1
  BY <1>2, <1>3, <1>4, <1>6
<1>9. IsBefore16(U16(pos), U16(a)) <=> pos < a
  BY <1>5, <1>8, Order
<1>10. ~(pos < a) => a = Floor(pos)
  BY <1>2, <1>3, <1>4, <1>7
<1> QED
  BY <1>2, <1>9, <1>10 DEF a, Base

(* The head may be played with gaps once a later block has a packet.       *)
LEMMA GivenUp ==
  ASSUME NEW s \in Nat, NEW pos \in Nat, NEW bs, ListOK(bs, pos, s), Len(bs) > 1,
         bs[1].first = Floor(pos)
  PROVE  /\ ListOK([bs EXCEPT ![1].allowDiscontinuity = TRUE], pos, s)
         /\ Keeps(bs, [bs EXCEPT ![1].allowDiscontinuity = TRUE])
         /\ Sparse(bs) => Sparse([bs EXCEPT ![1].allowDiscontinuity = TRUE])
<1> DEFINE b == bs[1]
           d == [b EXCEPT !.allowDiscontinuity = TRUE]
           w == [bs EXCEPT ![1] = d]
<1>1. bs \in Seq(BlockRecords) /\ 1 \in 1 .. Len(bs) /\ 2 \in 1 .. Len(bs)
  BY DEF ListOK
<1>2. [bs EXCEPT ![1].allowDiscontinuity = TRUE] = w
  OBVIOUS
<1>3. b \in BlockRecords /\ GoodBlock(b, pos, s) /\ GoodBlock(bs[2], pos, s) /\ b.first < bs[2].first
  BY <1>1 DEF ListOK
<1> HIDE DEF b
<1>4. /\ d \in BlockRecords /\ d.first = b.first /\ d.got = b.got
      /\ d.nextDataPacketIndex = b.nextDataPacketIndex /\ (b.fullyReassembled => d.fullyReassembled)
      /\ (d.fullyReassembled => b.fullyReassembled)
  BY <1>3 DEF BlockRecords
<1> HIDE DEF d
<1>5. Passed(b.first, s)
  <2>1. PICK m \in 0 .. s - 1 : BlockOf(m) = bs[2].first
    BY <1>3 DEF GoodBlock
  <2>2. m \in Nat
    OBVIOUS
  <2>3. BlockOf(m) \in Nat /\ b.first \in Nat
    BY <1>3, <2>2, BlockFacts DEF BlockRecords
  <2>4. BlockOf(m) > b.first
    BY <1>3, <2>1, <2>3
  <2>5. QED
    BY <2>4 DEF Passed
<1>6. GoodBlock(d, pos, s)
  <2>1. b.first = Floor(pos)
    BY DEF b
  <2>2. QED
    BY <1>3, <1>4, <1>5, <2>1 DEF GoodBlock
<1>7. Grown(bs[1], d) /\ d.first = bs[1].first /\ (SparseBlock(b) => SparseBlock(d))
  BY <1>4 DEF Grown, SparseBlock, b
<1>8. ListOK(w, pos, s)
  BY <1>1, <1>4, <1>6, <1>7, Replaced
<1>9. Keeps(bs, w) /\ (Sparse(bs) /\ SparseBlock(d) => Sparse(w))
  <2> HIDE DEF w
  <2>1. w = [bs EXCEPT ![1] = d]
    BY DEF w
  <2>2. QED
    BY <1>1, <1>4, <1>7, <2>1, ReplacedCovers
<1>10. Sparse(bs) => SparseBlock(d)
  BY <1>1, <1>7 DEF Sparse, b
<1> HIDE DEF w
<1> QED
  BY <1>2, <1>8, <1>9, <1>10

(* The list after the call has what it had, and the packet.                *)
Takes(bs, w, n) ==
  Keeps(bs, w) /\ Covered(w, BlockOf(n), n % Total) /\ (Sparse(bs) => Sparse(w))

LEMMA StoreSteps ==
  ASSUME NEW s \in Nat, SafeNow(s), NEW n \in 0 .. s - 1, NEW p, p = PacketAt(n), InSight(n),
         NEW waited, StoreReady(p) \/ GiveUp(p, waited) \/ Wait(p, waited)
  PROVE  SafeNext(s) /\ Takes(blocks, blocks', n) /\ position' = position
         /\ UNCHANGED incompatibleServer /\ position > 0
<1> DEFINE w == Stored(p)
           e == [w EXCEPT ![1].allowDiscontinuity = TRUE]
<1>1. Fresh(p) /\ UNCHANGED <<seqVars, incompatibleServer>>
  BY DEF StoreReady, GiveUp, Wait, GivesUp, Missing, StoresAside
<1>2. ~incompatibleServer /\ ~Misaligned(p) /\ ~Unsynchronized /\ ~Stale(p)
  BY <1>1 DEF Fresh, Acceptable
<1>3. position \in Nat /\ position > 0 /\ ListOK(blocks, position, s)
      /\ BlockOf(n) - Floor(position) \in 0 .. Half - 1
  BY <1>2, Context
<1>4. /\ ListOK(w, position, s) /\ w # <<>> /\ Head(w) = w[1]
      /\ Keeps(blocks, w) /\ Covered(w, BlockOf(n), n % Total) /\ (Sparse(blocks) => Sparse(w))
  BY <1>2, <1>3, StoredFacts
<1>5. blocks' = w \/ (GiveUp(p, waited) /\ blocks' = e)
  BY DEF StoreReady, GiveUp, Wait
<1>6. draining' \in BOOLEAN
  BY DEF StoreReady, GiveUp, Wait, SafeNow, Safe
<1> HIDE DEF w
<1>7. ASSUME GiveUp(p, waited)
      PROVE  ListOK(e, position, s) /\ Keeps(w, e) /\ (Sparse(w) => Sparse(e))
  <2>1. ~BeforeHead(p) /\ Len(w) > 1
    BY <1>7 DEF GiveUp, GivesUp, w
  <2>2. nextRtpSequenceNumber = U16(position)
    BY DEF SafeNow, Safe
  <2>3. ~IsBefore16(U16(position), Base(w[1]))
    BY <1>4, <2>1, <2>2 DEF BeforeHead, w
  <2>4. w[1].first = Floor(position)
    BY <1>3, <1>4, <2>3, HeadDue
  <2>5. QED
    BY <1>3, <1>4, <2>1, <2>4, GivenUp
<1> HIDE DEF e
<1>8. ListOK(blocks', position, s) /\ Keeps(blocks, blocks')
      /\ Covered(blocks', BlockOf(n), n % Total) /\ (Sparse(blocks) => Sparse(blocks'))
  BY <1>4, <1>5, <1>7 DEF Keeps
<1>9. SafeNext(s)
  BY <1>1, <1>2, <1>3, <1>6, <1>8 DEF SafeNow, SafeNext, Safe, seqVars
<1> QED
  BY <1>1, <1>3, <1>8, <1>9 DEF Takes, seqVars

LEMMA ResynchronizeStep ==
  ASSUME NEW s \in Nat, SafeNow(s), NEW n \in 0 .. s - 1, NEW p, p = PacketAt(n), InSight(n),
         Resynchronize(p)
  PROVE  /\ SafeNext(s) /\ Takes(blocks, blocks', n) /\ UNCHANGED incompatibleServer
         /\ position > 0 /\ position' > position
         /\ position % DataShards = 0 /\ position' % DataShards = 0
         /\ blocks' # <<>> /\ blocks'[1].first = position' /\ ListOK(blocks', position, s)
<1> DEFINE w == Stored(p)
           to == w[1].first
<1>1. Fresh(p)
  BY DEF Resynchronize, Missing, StoresAside
<1>2. ~incompatibleServer /\ ~Misaligned(p) /\ ~Unsynchronized /\ ~Stale(p)
  BY <1>1 DEF Fresh, Acceptable
<1>3. position \in Nat /\ position > 0 /\ ListOK(blocks, position, s)
      /\ BlockOf(n) - Floor(position) \in 0 .. Half - 1
  BY <1>2, Context
<1>4. /\ ListOK(w, position, s) /\ w # <<>> /\ Head(w) = w[1]
      /\ Keeps(blocks, w) /\ Covered(w, BlockOf(n), n % Total) /\ (Sparse(blocks) => Sparse(w))
  BY <1>2, <1>3, StoredFacts
<1>5. /\ nextRtpSequenceNumber' = Base(w[1]) /\ oldestRtpBaseSequenceNumber' = Base(w[1])
      /\ position' = to /\ blocks' = w /\ UNCHANGED <<synchronizing, incompatibleServer>>
      /\ IsBefore16(nextRtpSequenceNumber, Base(w[1]))
  BY <1>4 DEF Resynchronize, BeforeHead
<1>6. draining' \in BOOLEAN
  BY DEF Resynchronize, HasPacketReady
<1> HIDE DEF w
<1>7. position < to /\ to \in Nat
  <2>1. nextRtpSequenceNumber = U16(position)
    BY DEF SafeNow, Safe
  <2>2. QED
    BY <1>3, <1>4, <1>5, <2>1, HeadDue
<1>8. position % DataShards = 0 /\ ListOK(w, to, s) /\ Floor(to) = to
  BY <1>3, <1>4, <1>7, SkippedTo
<1>9. PICK m \in 0 .. s - 1 : BlockOf(m) = to
  <2>1. 1 \in 1 .. Len(w)
    BY <1>4 DEF ListOK
  <2>2. GoodBlock(w[1], position, s)
    BY <1>4, <2>1 DEF ListOK
  <2>3. QED
    BY <2>2 DEF GoodBlock
<1>10. DataShards \in Nat \ {0, 1} /\ FirstPosition \in Nat
  BY Modulus, Totals
<1>11. to % DataShards = 0
  <2>1. to \in Int
    BY <1>7
  <2>2. Floor(to) % DataShards = 0
    BY <2>1, FloorFacts
  <2>3. QED
    BY <1>8, <2>2
<1> HIDE DEF to
<1>12. Reached(Floor(to) - DataShards, DataShards - 1, s)
  <2>1. BlockOf(m) > Floor(to) - DataShards
    BY <1>7, <1>8, <1>9, <1>10
  <2>2. QED
    BY <2>1 DEF Reached
<1>13. FirstPosition < to /\ to <= BlockOf(m) + DataShards
  BY <1>3, <1>7, <1>9, <1>10 DEF SafeNow, Safe
<1>14. SafeNext(s)
  <2>1. nextRtpSequenceNumber' = U16(position') /\ oldestRtpBaseSequenceNumber' = U16(Floor(position'))
    BY <1>5, <1>8 DEF Base, to
  <2>2. position' \in Nat /\ position' > 0 /\ ListOK(blocks', position', s)
    BY <1>3, <1>5, <1>7, <1>8
  <2>3. synchronizing' \in BOOLEAN /\ incompatibleServer' \in BOOLEAN /\ ~incompatibleServer'
    BY <1>2, <1>5 DEF SafeNow, Safe
  <2>4. Reached(Floor(position') - DataShards, DataShards - 1, s)
    BY <1>5, <1>12
  <2>5. FirstPosition < position' /\ \E x \in 0 .. s - 1 : position' <= BlockOf(x) + DataShards
    BY <1>5, <1>13
  <2>6. QED
    BY <1>6, <2>1, <2>2, <2>3, <2>4, <2>5 DEF SafeNext, Safe
<1> QED
  BY <1>3, <1>4, <1>5, <1>7, <1>8, <1>11, <1>14 DEF Takes, to

LEMMA SynchronizeStep ==
  ASSUME NEW s \in Nat, SafeNow(s), ~draining, NEW n \in 0 .. s - 1, NEW p, p = PacketAt(n),
         InSight(n), Synchronize(p)
  PROVE  /\ SafeNext(s) /\ UNCHANGED <<blocks, incompatibleServer>> /\ position = 0
         /\ position' = BlockOf(n) + DataShards /\ position' % DataShards = 0 /\ position' \in Nat \ {0}
         /\ blocks' = <<>>
<1>1. ~incompatibleServer /\ ~Misaligned(p) /\ Unsynchronized
  BY DEF Synchronize
<1>2. position = 0 /\ blocks = <<>> /\ synchronizing
  BY <1>1 DEF SafeNow, Safe, InSight
<1>3. n \in Nat
  OBVIOUS
<1>4. /\ BlockOf(n) \in Nat /\ BlockOf(n) \in Int /\ BlockOf(n) % DataShards = 0
      /\ BlockOf(n) >= FirstPosition
  BY <1>3, BlockFacts
<1>5. FirstOf(p) = BlockOf(n) /\ BaseOf(p) = U16(BlockOf(n))
  BY <1>1, <1>3, PacketFacts
<1>6. DataShards \in Nat \ {0, 1} /\ FirstPosition \in Nat
  BY Modulus, Totals
<1> DEFINE to == BlockOf(n) + DataShards
<1>7. to \in Nat \ {0} /\ to % DataShards = 0 /\ FirstPosition < to
  <2>1. to % DataShards = 0
    BY <1>4, Multiples
  <2>2. QED
    BY <1>4, <1>6, <2>1
<1>8. U16(BaseOf(p) + DataShards) = U16(to)
  <2>1. DataShards \in Int
    BY <1>6
  <2>2. QED
    BY <1>4, <1>5, <2>1, U16Sum
<1>9. position' = to /\ nextRtpSequenceNumber' = U16(to) /\ oldestRtpBaseSequenceNumber' = U16(to)
      /\ UNCHANGED <<blocks, synchronizing, incompatibleServer, draining>>
  BY <1>5, <1>8 DEF Synchronize
<1>10. \E x \in 0 .. s - 1 : to <= BlockOf(x) + DataShards
  BY <1>4, <1>6
<1> HIDE DEF to
<1>11. Floor(to) = to
  BY <1>7 DEF Floor
<1>12. ListOK(<<>>, to, s)
  BY <1>7 DEF ListOK
<1>13. SafeNext(s)
  <2>1. /\ position' \in Nat /\ position' > 0 /\ nextRtpSequenceNumber' = U16(position')
        /\ oldestRtpBaseSequenceNumber' = U16(Floor(position')) /\ ListOK(blocks', position', s)
    BY <1>2, <1>7, <1>9, <1>11, <1>12
  <2>2. FirstPosition < position' /\ \E x \in 0 .. s - 1 : position' <= BlockOf(x) + DataShards
    BY <1>7, <1>9, <1>10
  <2>3. synchronizing' /\ synchronizing' \in BOOLEAN /\ incompatibleServer' \in BOOLEAN
        /\ draining' \in BOOLEAN /\ (incompatibleServer' => ~draining')
    BY <1>2, <1>9 DEF SafeNow, Safe
  <2>4. QED
    BY <2>1, <2>2, <2>3 DEF SafeNext, Safe
<1> QED
  BY <1>2, <1>7, <1>9, <1>13 DEF to

LEMMA RejectStep ==
  ASSUME NEW s \in Nat, SafeNow(s), NEW n \in 0 .. s - 1, NEW p, p = PacketAt(n), InSight(n),
         Reject(p)
  PROVE  /\ SafeNext(s) /\ UNCHANGED <<blocks, position, incompatibleServer>> /\ position > 0
         /\ Floor(position) <= BlockOf(n) => Covered(blocks, BlockOf(n), n % Total)
<1> DEFINE bs == WithBlock(p)
           i == IndexOf(p)
<1>1. ~incompatibleServer /\ ~Misaligned(p) /\ ~Unsynchronized
      /\ UNCHANGED <<blocks, seqVars, incompatibleServer, draining>>
      /\ (Stale(p) \/ bs[i].fullyReassembled \/ Shard(p) \in bs[i].got)
  BY DEF Reject, BlockFor
<1>2. /\ position \in Nat /\ position > 0 /\ ListOK(blocks, position, s)
      /\ BlockOf(n) - Floor(position) \in -Half .. Half - 1
      /\ Stale(p) <=> BlockOf(n) < Floor(position)
      /\ ~Stale(p) => BlockOf(n) - Floor(position) \in 0 .. Half - 1
  BY <1>1, Context
<1>3. SafeNext(s)
  BY <1>1 DEF SafeNow, SafeNext, seqVars
<1>4. n \in Nat
  OBVIOUS
<1>5. Shard(p) = n % Total
  BY <1>1, <1>4, PacketFacts
<1>6. ASSUME Floor(position) <= BlockOf(n) PROVE Covered(blocks, BlockOf(n), n % Total)
  <2>1. ~Stale(p) /\ BlockOf(n) - Floor(position) \in 0 .. Half - 1
    <3>1. Floor(position) \in Int /\ BlockOf(n) \in Int
      BY <1>2, <1>4, FloorFacts, BlockFacts
    <3>2. QED
      BY <1>2, <1>6, <3>1
  <2>2. /\ i \in 1 .. Len(bs) /\ bs[i].first = BlockOf(n)
        /\ \A j \in 1 .. Len(bs) : \/ \E x \in 1 .. Len(blocks) : bs[j] = blocks[x]
                                   \/ j = i /\ bs[j] = NewBlock(BlockOf(n), p.size)
    BY <1>1, <1>2, <2>1, Insert
  <2> HIDE DEF bs, i
  <2>3. bs[i].fullyReassembled \/ (n % Total) \in bs[i].got
    BY <1>1, <1>5, <2>1
  <2>4. bs[i] # NewBlock(BlockOf(n), p.size)
    BY <2>3 DEF NewBlock
  <2>5. PICK x \in 1 .. Len(blocks) : bs[i] = blocks[x]
    BY <2>2, <2>4
  <2>6. QED
    BY <2>2, <2>3, <2>5 DEF Covered
<1> QED
  BY <1>1, <1>2, <1>3, <1>6 DEF seqVars

LEMMA OtherSteps ==
  ASSUME NEW s \in Nat, SafeNow(s)
  PROVE  /\ \A p : DisableFec(p) /\ ~draining => SafeNext(s)
         /\ \A p : PassThrough(p) => SafeNext(s)
         /\ Drained => SafeNext(s)
<1>1. ASSUME NEW p, DisableFec(p), ~draining PROVE SafeNext(s)
  BY <1>1 DEF SafeNow, SafeNext, Safe, DisableFec, seqVars
<1>2. ASSUME NEW p, PassThrough(p) PROVE SafeNext(s)
  BY <1>2 DEF SafeNow, SafeNext, PassThrough, queueVars, seqVars
<1>3. ASSUME Drained PROVE SafeNext(s)
  BY <1>3 DEF SafeNow, SafeNext, Safe, Drained, seqVars
<1> QED
  BY <1>1, <1>2, <1>3

(* What is left of the list when the packet at the position is played.     *)
StillCovers ==
  \A first \in Int : \A k : Covered(blocks, first, k) /\ Floor(position') <= first =>
                          Covered(blocks', first, k)

LEMMA HandleNowStep ==
  ASSUME NEW s \in Nat, SafeNow(s), NEW n \in 0 .. s - 1, NEW p, p = PacketAt(n), InSight(n),
         HandleNow(p)
  PROVE  /\ SafeNext(s) /\ UNCHANGED incompatibleServer
         /\ position > 0 /\ p.id = position /\ position' = position + 1
         /\ StillCovers
         /\ Floor(position') <= BlockOf(n) => Covered(blocks', BlockOf(n), n % Total)
         /\ n = s - 1 /\ Sparse(blocks) => Sparse(blocks')
<1> DEFINE bs == WithBlock(p)
           a == BlockOf(n)
           k == n % Total
           b == [bs[1] EXCEPT !.got = @ \cup {k}, !.nextDataPacketIndex = @ + 1]
           w == [bs EXCEPT ![1] = b]
           done == U16(Seq16(p) + 1) = U16(BaseOf(p) + DataShards)
<1>1. Fresh(p) /\ Expected(p) /\ UNCHANGED <<incompatibleServer, draining>> /\ position' = position + 1
      /\ nextRtpSequenceNumber' = U16(Seq16(p) + 1)
  BY DEF HandleNow
<1>2. ~incompatibleServer /\ ~Misaligned(p) /\ ~Unsynchronized /\ ~Stale(p)
  BY <1>1 DEF Fresh, Acceptable
<1>3. position \in Nat /\ position > 0 /\ ListOK(blocks, position, s)
      /\ a - Floor(position) \in 0 .. Half - 1
  BY <1>2, Context
<1>4. n \in Nat
  OBVIOUS
<1>5. /\ a \in Nat /\ a % DataShards = 0 /\ k \in 0 .. Total - 1 /\ Shard(p) = k /\ BaseOf(p) = U16(a)
      /\ k < DataShards /\ p.id = a + k
  BY <1>1, <1>2, <1>4, BlockFacts, PacketFacts DEF Expected
<1>6. DataShards \in Nat \ {0, 1} /\ Half \in Nat \ {0} /\ DataShards <= Half
  <2>1. PICK q \in Nat \ {0} : Half = q * DataShards
    BY Modulus
  <2>2. DataShards \in Nat \ {0, 1} /\ Half \in Nat \ {0}
    BY Modulus
  <2>3. q - 1 \in Nat /\ q * DataShards = DataShards + (q - 1) * DataShards
    BY <2>2
  <2>4. (q - 1) * DataShards >= 0 /\ (q - 1) * DataShards \in Int
    BY <2>2, <2>3
  <2>5. QED
    BY <2>1, <2>2, <2>3, <2>4
<1>7. /\ Floor(position) \in Int /\ Floor(position) <= position
      /\ position < Floor(position) + DataShards /\ Floor(position) % DataShards = 0
  BY <1>3, FloorFacts
<1> HIDE DEF a, k
<1>8. p.id = position
  <2>1. a \in Int /\ a - Floor(position) < Half
    BY <1>3, <1>5, <1>6, <1>7
  <2>2. a + DataShards <= Floor(position) + Half
    BY <1>5, <1>7, <2>1, WithinHalf
  <2>3. p.id \in Int /\ p.id - position \in -Half .. Half - 1
    BY <1>3, <1>5, <1>6, <1>7, <2>2
  <2>4. U16(p.id) = U16(position)
    BY <1>1 DEF Expected, Seq16, SafeNow, Safe
  <2>5. QED
    BY <1>3, <2>3, <2>4, Order
<1>9. a = Floor(position)
  <2>1. a \in Int /\ k \in 0 .. DataShards - 1
    BY <1>5, <1>6
  <2>2. Floor(a + k) = a
    BY <1>5, <2>1, FloorAt
  <2>3. QED
    BY <1>5, <1>8, <2>2
<1>10. ListOK(bs, position, s) /\ IndexOf(p) = 1 /\ 1 \in 1 .. Len(bs) /\ bs[1].first = a
  <2>1. /\ ListOK(bs, position, s) /\ IndexOf(p) \in 1 .. Len(bs) /\ bs[IndexOf(p)].first = BlockOf(n)
        /\ (BlockOf(n) = Floor(position) => IndexOf(p) = 1)
    BY <1>2, <1>3, Insert DEF a
  <2> HIDE DEF bs
  <2>2. IndexOf(p) = 1
    BY <1>9, <2>1 DEF a
  <2>3. QED
    BY <2>1, <2>2 DEF a
<1>11. Keeps(blocks, bs) /\ (Sparse(blocks) => Sparse(bs))
  BY <1>2, <1>3, InsertCovers DEF a
<1>12. FreeIf(done, w)
  <2>1. FreeIf(done, [bs EXCEPT ![1].got = @ \cup {Shard(p)}, ![1].nextDataPacketIndex = @ + 1])
    BY <1>10 DEF HandleNow
  <2> HIDE DEF bs, done
  <2>2. bs \in Seq(BlockRecords)
    BY <1>10 DEF ListOK
  <2>3. [bs EXCEPT ![1].got = @ \cup {Shard(p)}, ![1].nextDataPacketIndex = @ + 1] = w
    BY <1>5, <1>10, <2>2
  <2>4. QED
    BY <2>1, <2>3
<1>13. done <=> position + 1 = a + DataShards
  <2>1. position + 1 \in Int /\ a + DataShards \in Int /\ position \in Int /\ 1 \in Int /\ a \in Int
        /\ DataShards \in Int
    BY <1>3, <1>5, <1>6
  <2>2. U16(U16(position) + 1) = U16(position + 1) /\ U16(U16(a) + DataShards) = U16(a + DataShards)
    BY <2>1, U16Sum
  <2>3. (position + 1) - (a + DataShards) \in -Half .. Half - 1
    BY <1>3, <1>5, <1>6, <1>7, <1>9
  <2>4. U16(position + 1) = U16(a + DataShards) => position + 1 = a + DataShards
    BY <2>1, <2>3, Order
  <2>5. done <=> U16(position + 1) = U16(a + DataShards)
    BY <1>5, <1>8, <2>2 DEF Seq16
  <2> HIDE DEF done
  <2>6. QED
    BY <2>4, <2>5
<1>14. nextRtpSequenceNumber' = U16(position + 1)
  <2>1. position \in Int /\ 1 \in Int
    BY <1>3
  <2>2. U16(U16(position) + 1) = U16(position + 1)
    BY <2>1, U16Sum
  <2>3. QED
    BY <1>1, <1>8, <2>2 DEF Seq16
<1>15. done \in BOOLEAN
  OBVIOUS
<1> HIDE DEF bs, done
<1> DEFINE h == bs[1]
<1>16. h \in BlockRecords /\ GoodBlock(h, position, s) /\ bs \in Seq(BlockRecords) /\ bs # <<>>
  BY <1>10 DEF ListOK
<1>17. h.nextDataPacketIndex = position - a
  BY <1>9, <1>10, <1>16 DEF GoodBlock
<1> HIDE DEF h
<1>18. /\ b \in BlockRecords /\ b.first = h.first /\ b.got = h.got \cup {k}
       /\ b.nextDataPacketIndex = h.nextDataPacketIndex + 1
       /\ (b.allowDiscontinuity => h.allowDiscontinuity)
       /\ (b.fullyReassembled => h.fullyReassembled) /\ (h.fullyReassembled => b.fullyReassembled)
  <2> DEFINE d == [h EXCEPT !.got = @ \cup {k}, !.nextDataPacketIndex = @ + 1]
  <2>1. d \in BlockRecords /\ d.first = h.first /\ d.got = h.got \cup {k}
        /\ d.nextDataPacketIndex = h.nextDataPacketIndex + 1
        /\ (d.allowDiscontinuity => h.allowDiscontinuity)
        /\ (d.fullyReassembled => h.fullyReassembled) /\ (h.fullyReassembled => d.fullyReassembled)
    <3>1. h.got \cup {k} \in SUBSET (0 .. Total - 1) /\ h.nextDataPacketIndex + 1 \in Nat
      BY <1>5, <1>16 DEF BlockRecords
    <3>2. d.first = h.first /\ d.got = h.got \cup {k} /\ d.nextDataPacketIndex = h.nextDataPacketIndex + 1
          /\ (d.allowDiscontinuity => h.allowDiscontinuity)
          /\ (d.fullyReassembled => h.fullyReassembled) /\ (h.fullyReassembled => d.fullyReassembled)
      BY <1>16 DEF BlockRecords
    <3>3. d \in BlockRecords
      BY <1>16, <3>1 DEF BlockRecords
    <3>4. QED
      BY <3>2, <3>3
  <2>2. b = d
    BY DEF h
  <2>3. QED
    BY <2>1, <2>2
<1> HIDE DEF b
<1>19. h.first = a /\ a \in Int /\ k \in Int
  BY <1>5, <1>10 DEF h
<1>20. Reached(a, k, s)
  <2>1. BlockOf(n) = a /\ n % Total >= k
    BY <1>19 DEF a, k
  <2>2. QED
    BY <2>1 DEF Reached
<1>21. PlaysOn(b, bs, position, s)
  <2>1. b.first = bs[1].first /\ b.nextDataPacketIndex = position + 1 - b.first
    BY <1>3, <1>17, <1>18, <1>19 DEF h
  <2>2. b.allowDiscontinuity => bs[1].allowDiscontinuity
    BY <1>18 DEF h
  <2>3. \A x \in b.got : Reached(b.first, x, s)
    BY <1>16, <1>18, <1>19, <1>20 DEF GoodBlock
  <2>4. b.fullyReassembled => 0 .. DataShards - 1 \subseteq b.got
    BY <1>16, <1>18 DEF GoodBlock
  <2>5. QED
    BY <2>1, <2>2, <2>3, <2>4 DEF PlaysOn
<1>22. WithHead(w, bs, b)
  BY DEF WithHead
<1>23. Grown(bs[1], b)
  BY <1>18 DEF Grown, h
<1>24. Keeps(bs, w) /\ (\A x \in b.got : Covered(w, b.first, x))
  <2> HIDE DEF w
  <2>1. w = [bs EXCEPT ![1] = b]
    BY DEF w
  <2>2. QED
    BY <1>10, <1>16, <1>18, <1>23, <2>1, ReplacedCovers
<1> HIDE DEF w
<1>25. done => Reached(b.first, DataShards - 1, s)
  <2> SUFFICES ASSUME done PROVE Reached(b.first, DataShards - 1, s)
    OBVIOUS
  <2>1. k = DataShards - 1
    BY <1>3, <1>5, <1>6, <1>8, <1>13
  <2>2. QED
    BY <1>18, <1>19, <1>20, <2>1
<1>26. /\ SafeNext(s)
       /\ \A first \in Int : \A x : Covered(w, first, x) /\ Floor(position') <= first =>
                                  Covered(blocks', first, x)
       /\ (\A i \in 2 .. Len(bs) : SparseBlock(bs[i])) /\ (done \/ SparseBlock(b)) => Sparse(blocks')
  <2>1. done <=> position + 1 = b.first + DataShards
    BY <1>13, <1>18, <1>19
  <2>2. bs[1].first = Floor(position)
    BY <1>9, <1>10
  <2>3. QED
    BY <1>1, <1>3, <1>10, <1>12, <1>14, <1>15, <1>16, <1>18, <1>21, <1>22, <1>25, <2>1, <2>2, Freed
<1>27. StillCovers
  <2> SUFFICES ASSUME NEW first \in Int, NEW x, Covered(blocks, first, x), Floor(position') <= first
               PROVE  Covered(blocks', first, x)
    BY DEF StillCovers
  <2>1. Covered(w, first, x)
    BY <1>11, <1>24 DEF Keeps
  <2>2. QED
    BY <1>26, <2>1
<1>28. Floor(position') <= a => Covered(blocks', a, k)
  <2>1. Covered(w, a, k)
    BY <1>18, <1>19, <1>24
  <2>2. QED
    BY <1>19, <1>26, <2>1
<1>29. ASSUME n = s - 1, Sparse(blocks) PROVE Sparse(blocks')
  <2>1. \A i \in 2 .. Len(bs) : SparseBlock(bs[i])
    BY <1>11, <1>16, <1>29 DEF Sparse
  <2>2. ASSUME ~done PROVE SparseBlock(b)
    <3>1. k < DataShards - 1
      BY <1>3, <1>5, <1>6, <1>8, <1>13, <2>2
    <3>2. ASSUME NEW j \in h.got PROVE j <= k
      <4>1. Reached(a, j, s) /\ j \in Int
        BY <1>16, <1>19 DEF GoodBlock, BlockRecords
      <4>2. PICK m \in 0 .. s - 1 : BlockOf(m) > a \/ (BlockOf(m) = a /\ m % Total >= j)
        BY <4>1 DEF Reached
      <4>3. m \in Nat /\ m <= n
        BY <1>29
      <4>4. BlockOf(m) <= BlockOf(n) /\ (BlockOf(m) = BlockOf(n) => n - m = (n % Total) - (m % Total))
        BY <1>4, <4>3, BlocksGrow
      <4>5. BlockOf(m) \in Int /\ m % Total \in Int
        BY <4>3, BlockFacts
      <4>6. BlockOf(m) = a /\ m % Total >= j
        BY <1>19, <4>2, <4>4, <4>5 DEF a
      <4>7. n - m = k - (m % Total)
        BY <4>4, <4>6 DEF a, k
      <4>8. QED
        BY <1>4, <1>19, <4>1, <4>3, <4>5, <4>6, <4>7
    <3>3. b.got \in SUBSET (0 .. Total - 1)
      BY <1>18 DEF BlockRecords
    <3>4. \A x \in b.got : ~(x >= DataShards - 1)
      <4> TAKE x \in b.got
      <4>1. x <= k /\ x \in Int
        BY <1>18, <1>19, <3>2, <3>3
      <4>2. QED
        BY <1>6, <1>19, <3>1, <4>1
    <3>5. Cardinality(b.got) \in Nat /\ ~(Cardinality(b.got) >= DataShards)
      BY <3>3, <3>4, EnoughShards
    <3>6. QED
      BY <1>6, <3>5 DEF SparseBlock
  <2>3. QED
    BY <1>26, <2>1, <2>2
<1> QED
  BY <1>1, <1>3, <1>8, <1>26, <1>27, <1>28, <1>29 DEF a, k

LEMMA AdvanceStep ==
  ASSUME NEW s \in Nat, SafeNow(s), Conceals \/ Plays, Advance
  PROVE  /\ SafeNext(s) /\ UNCHANGED incompatibleServer
         /\ position > 0 /\ position' = position + 1
         /\ blocks # <<>> /\ Head(blocks) = blocks[1] /\ blocks[1] \in BlockRecords
         /\ GoodBlock(blocks[1], position, s) /\ blocks[1].first = Floor(position)
         /\ blocks[1].first + blocks[1].nextDataPacketIndex = position
         /\ StillCovers /\ (Sparse(blocks) => Sparse(blocks'))
<1> DEFINE h == blocks[1]
           b == [h EXCEPT !.nextDataPacketIndex = @ + 1]
           w == [blocks EXCEPT ![1] = b]
           done == b.nextDataPacketIndex = DataShards
<1>1. position \in Nat /\ position > 0 /\ ListOK(blocks, position, s)
      /\ nextRtpSequenceNumber = U16(position)
  BY DEF SafeNow, Safe, Conceals, Plays
<1>2. HasPacketReady(blocks, U16(position))
  BY <1>1 DEF Conceals, Plays, HasPacketReady
<1>3. /\ blocks # <<>> /\ Head(blocks) = h /\ h \in BlockRecords /\ GoodBlock(h, position, s)
      /\ h.first = Floor(position) /\ h.nextDataPacketIndex = position - h.first
      /\ h.allowDiscontinuity \/ h.nextDataPacketIndex \in h.got
  BY <1>1, <1>2, Ready
<1>4. blocks \in Seq(BlockRecords) /\ 1 \in 1 .. Len(blocks)
  BY <1>1, <1>3 DEF ListOK
<1>5. [blocks EXCEPT ![1].nextDataPacketIndex = @ + 1] = w
  OBVIOUS
<1> HIDE DEF h
<1>6. /\ b \in BlockRecords /\ b.first = h.first /\ b.got = h.got
      /\ b.nextDataPacketIndex = h.nextDataPacketIndex + 1
      /\ (b.allowDiscontinuity => h.allowDiscontinuity)
      /\ (b.fullyReassembled => h.fullyReassembled) /\ (h.fullyReassembled => b.fullyReassembled)
  <2>1. h.nextDataPacketIndex + 1 \in Nat
    BY <1>3 DEF BlockRecords
  <2>2. b.first = h.first /\ b.got = h.got /\ b.nextDataPacketIndex = h.nextDataPacketIndex + 1
        /\ (b.allowDiscontinuity => h.allowDiscontinuity)
        /\ (b.fullyReassembled => h.fullyReassembled) /\ (h.fullyReassembled => b.fullyReassembled)
    BY <1>3 DEF BlockRecords
  <2>3. b \in BlockRecords
    BY <1>3, <2>1 DEF BlockRecords
  <2>4. QED
    BY <2>2, <2>3
<1> HIDE DEF b
<1>7. h.first \in Nat /\ DataShards \in Nat \ {0, 1}
  BY <1>3, Modulus DEF BlockRecords
<1>8. PlaysOn(b, blocks, position, s)
  <2>1. b.first = blocks[1].first /\ b.nextDataPacketIndex = position + 1 - b.first
    BY <1>1, <1>3, <1>6, <1>7 DEF h
  <2>2. b.allowDiscontinuity => blocks[1].allowDiscontinuity
    BY <1>6 DEF h
  <2>3. \A x \in b.got : Reached(b.first, x, s)
    BY <1>3, <1>6 DEF GoodBlock
  <2>4. b.fullyReassembled => 0 .. DataShards - 1 \subseteq b.got
    BY <1>3, <1>6 DEF GoodBlock
  <2>5. QED
    BY <2>1, <2>2, <2>3, <2>4 DEF PlaysOn
<1>9. Grown(blocks[1], b) /\ WithHead(w, blocks, b) /\ (SparseBlock(h) => SparseBlock(b))
  BY <1>6 DEF Grown, WithHead, SparseBlock, h
<1>10. Keeps(blocks, w)
  <2> HIDE DEF w
  <2>1. w = [blocks EXCEPT ![1] = b]
    BY DEF w
  <2>2. QED
    BY <1>4, <1>6, <1>9, <2>1, ReplacedCovers
<1>11. FreeIf(done, w) /\ nextRtpSequenceNumber' = U16(position + 1) /\ position' = position + 1
       /\ UNCHANGED <<incompatibleServer, draining>>
  <2>1. FreeIf(Head(w).nextDataPacketIndex = DataShards, w)
    BY <1>5 DEF Advance
  <2>2. Head(w) = b
    BY <1>4, <1>6
  <2>3. U16(U16(position) + 1) = U16(position + 1)
    <3>1. position \in Int /\ 1 \in Int
      BY <1>1
    <3>2. QED
      BY <3>1, U16Sum
  <2> HIDE DEF w
  <2>4. QED
    BY <1>1, <2>1, <2>2, <2>3 DEF Advance
<1>12. done \in BOOLEAN /\ (done <=> position + 1 = b.first + DataShards)
  BY <1>1, <1>3, <1>6, <1>7
<1>13. ASSUME done PROVE Reached(b.first, DataShards - 1, s)
  <2>1. h.nextDataPacketIndex = DataShards - 1
    BY <1>1, <1>3, <1>6, <1>7, <1>13
  <2>2. CASE h.nextDataPacketIndex \in h.got
    BY <1>3, <1>6, <2>1, <2>2 DEF GoodBlock
  <2>3. CASE h.allowDiscontinuity
    <3>1. Passed(h.first, s)
      BY <1>3, <2>3 DEF GoodBlock
    <3>2. QED
      BY <1>6, <3>1 DEF Passed, Reached
  <2>4. QED
    BY <1>3, <2>2, <2>3
<1> HIDE DEF done, w
<1>14. /\ SafeNext(s)
       /\ \A first \in Int : \A x : Covered(w, first, x) /\ Floor(position') <= first =>
                                  Covered(blocks', first, x)
       /\ (\A i \in 2 .. Len(blocks) : SparseBlock(blocks[i])) /\ (done \/ SparseBlock(b)) => Sparse(blocks')
  <2>1. blocks[1].first = Floor(position)
    BY <1>3 DEF h
  <2>2. QED
    BY <1>1, <1>3, <1>6, <1>8, <1>9, <1>11, <1>12, <1>13, <2>1, Freed
<1>15. StillCovers
  BY <1>10, <1>14 DEF StillCovers, Keeps
<1>16. ASSUME Sparse(blocks) PROVE Sparse(blocks')
  <2>1. SparseBlock(b)
    BY <1>4, <1>9, <1>16 DEF Sparse, h
  <2>2. \A i \in 2 .. Len(blocks) : SparseBlock(blocks[i])
    BY <1>4, <1>16 DEF Sparse
  <2>3. QED
    BY <1>14, <2>1, <2>2
<1>17. h.first + h.nextDataPacketIndex = position
  BY <1>1, <1>3, <1>7
<1> QED
  BY <1>1, <1>3, <1>11, <1>14, <1>15, <1>16, <1>17 DEF h

-----------------------------------------------------------------------------
(* The inductive invariant.                                                *)

Items == [kind : {"data", "lost"}, id : Nat]

NetOK ==
  /\ sent \in 0 .. LastPacket /\ held \subseteq 0 .. sent - 1 /\ lost \subseteq 0 .. sent - 1
  /\ faults \in [lost : Nat, stray : Nat]
  /\ NoReordering => held = {}

HandOK ==
  /\ packetQueue \in Seq(Items) /\ Len(packetQueue) <= QueueBound /\ heard \in Int
  /\ DirectSubmit => packetQueue = <<>>
  /\ PlayedInOrder

AudioInv ==
  /\ SafeNow(sent) /\ NetOK /\ HandOK
  /\ packetsToDrop \in 0 .. InitialDrop
  /\ receivedOosData \in BOOLEAN /\ FastRecovery

(* What Unambiguous says of one packet.                                    *)
LEMMA Sight ==
  ASSUME Unambiguous, NEW n \in held \cup {sent}
  PROVE  InSight(n)
BY DEF Unambiguous, InSight, Half

LEMMA Arrival ==
  ASSUME NetOK, NEW n \in held \cup {sent}, Arrives(n)
  PROVE  /\ NetOK' /\ sent' \in Nat /\ sent \in Nat /\ sent <= sent' /\ n \in 0 .. sent' - 1
         /\ UNCHANGED lost
         /\ NoReordering' => NoReordering /\ n = sent /\ sent' = sent + 1
<1>1. /\ sent \in 0 .. LastPacket /\ held \subseteq 0 .. sent - 1 /\ lost \subseteq 0 .. sent - 1
      /\ faults \in [lost : Nat, stray : Nat] /\ (faults.stray = 0 => held = {})
      /\ LastPacket \in Nat
  BY Totals DEF NetOK, NoReordering
<1>2. CASE ArrivesInOrder(n)
  <2>1. n = sent /\ sent < LastPacket /\ sent' = sent + 1 /\ UNCHANGED <<held, lost, faults>>
    BY <1>2 DEF ArrivesInOrder, SendsNext
  <2>2. QED
    BY <1>1, <2>1 DEF NetOK, NoReordering
<1>3. CASE ArrivesTwice(n)
  <2>1. /\ n = sent /\ sent < LastPacket /\ sent' = sent + 1 /\ held' = held \cup {n} /\ UNCHANGED lost
        /\ faults' = [faults EXCEPT !.stray = @ + 1]
    BY <1>3 DEF ArrivesTwice, SendsNext
  <2>2. faults' \in [lost : Nat, stray : Nat] /\ faults'.stray # 0
    BY <1>1, <2>1
  <2>3. held' \subseteq 0 .. sent' - 1 /\ lost' \subseteq 0 .. sent' - 1 /\ sent' \in 0 .. LastPacket
    BY <1>1, <2>1
  <2>4. QED
    BY <1>1, <2>1, <2>2, <2>3 DEF NetOK, NoReordering
<1>4. CASE ArrivesLate(n)
  <2>1. n \in held /\ held' = held \ {n} /\ UNCHANGED <<sent, lost, faults>>
    BY <1>4 DEF ArrivesLate
  <2>2. QED
    BY <1>1, <2>1 DEF NetOK, NoReordering
<1> QED
  BY <1>2, <1>3, <1>4 DEF Arrives

LEMMA SafePrime ==
  ASSUME NEW s, s = sent', SafeNext(s)
  PROVE  SafeNow(sent)'
BY DEF SafeNow, SafeNext

(* Without reordering no data packet is before the block being played, and *)
(* none is taken to be out of sequence.                                    *)
LEMMA InSequence ==
  ASSUME NEW n \in Nat, SafeNow(n), NEW p, p = PacketAt(n), InSight(n), ~incompatibleServer, NoteSequence(p), receivedOosData = FALSE
  PROVE  receivedOosData' = FALSE
<1>1. ASSUME IsAudio(p), ~synchronizing PROVE ~IsBefore16(Seq16(p), oldestRtpBaseSequenceNumber)
  <2> DEFINE a == BlockOf(n)
             k == n % Total
             f == Floor(position)
  <2>1. n + 1 \in Nat /\ n <= n + 1 /\ n \in 0 .. (n + 1) - 1
    OBVIOUS
  <2>2. ~Misaligned(p) /\ p.id = a + k /\ k < DataShards
    BY <1>1, <2>1, PacketFacts
  <2>3. a \in Nat /\ a % DataShards = 0 /\ k \in 0 .. Total - 1
    BY <2>1, BlockFacts
  <2>4. DataShards \in Nat \ {0, 1} /\ Half \in Nat \ {0}
    BY Modulus
  <2>5. position \in Nat /\ position > 0 /\ Reached(f - DataShards, DataShards - 1, n)
        /\ oldestRtpBaseSequenceNumber = U16(f)
    BY <1>1 DEF SafeNow, Safe
  <2>6. ~Unsynchronized
    BY <1>1 DEF Unsynchronized
  <2>7. a - f \in -Half .. Half - 1
    <3> DEFINE s == n + 1
    <3>1. s \in Nat /\ n <= s /\ n \in 0 .. s - 1
      OBVIOUS
    <3> HIDE DEF s
    <3>2. SafeNow(s)
      BY <3>1, SafeGrows
    <3>3. QED
      BY <2>2, <2>6, <3>1, <3>2, Context
  <2>8. f \in Int /\ f % DataShards = 0
    BY <2>5, FloorFacts
  <2> HIDE DEF f
  <2>9. PICK m \in 0 .. n - 1 : BlockOf(m) > f - DataShards
                                \/ (BlockOf(m) = f - DataShards /\ m % Total >= DataShards - 1)
    BY <2>5 DEF Reached
  <2>10. m \in Nat /\ m <= n /\ m < n
    OBVIOUS
  <2>11. BlockOf(m) <= a /\ (BlockOf(m) = a => n - m = k - (m % Total))
    BY <2>1, <2>10, BlocksGrow
  <2>12. BlockOf(m) \in Nat /\ BlockOf(m) % DataShards = 0 /\ m % Total \in Int
    BY <2>10, BlockFacts
  <2> HIDE DEF a, k
  <2>13. a >= f
    <3>1. SUFFICES ASSUME a < f PROVE FALSE
      BY <2>3, <2>8
    <3>2. a + DataShards <= f
      <4>1. a \in Int
        BY <2>3
      <4>2. QED
        BY <2>3, <2>8, <3>1, <4>1, Multiples
    <3>3. BlockOf(m) = f - DataShards /\ a = BlockOf(m)
      BY <2>3, <2>4, <2>8, <2>9, <2>11, <2>12, <3>2
    <3>4. m % Total >= DataShards - 1
      BY <2>4, <2>8, <2>9, <2>12, <3>3
    <3>5. QED
      BY <2>2, <2>3, <2>4, <2>10, <2>11, <2>12, <3>3, <3>4
  <2>14. a + DataShards <= f + Half
    <3>1. a \in Int /\ a - f < Half
      BY <2>3, <2>4, <2>7, <2>8
    <3>2. QED
      BY <2>3, <2>8, <3>1, WithinHalf
  <2>15. p.id \in Int /\ p.id - f \in -Half .. Half - 1 /\ ~(p.id < f)
    BY <2>2, <2>3, <2>4, <2>8, <2>13, <2>14
  <2>16. QED
    BY <2>5, <2>8, <2>15, Order DEF Seq16
<1> QED
  BY <1>1 DEF NoteSequence

-----------------------------------------------------------------------------
(* The way to the decoder.                                                 *)

Ordered(q, h, pos) ==
  /\ h < pos
  /\ \A i \in 1 .. Len(q) : IsData(q[i]) => h < q[i].id /\ q[i].id < pos
  /\ \A i, j \in 1 .. Len(q) : IsData(q[i]) /\ IsData(q[j]) /\ i < j => q[i].id < q[j].id

LEMMA OrderedNow ==
  ASSUME packetQueue \in Seq(Items)
  PROVE  PlayedInOrder <=> (~incompatibleServer => Ordered(packetQueue, heard, position))
<1>1. DOMAIN packetQueue = 1 .. Len(packetQueue)
  OBVIOUS
<1> QED
  BY <1>1 DEF PlayedInOrder, Ordered

LEMMA OrderedNext ==
  ASSUME packetQueue' \in Seq(Items)
  PROVE  PlayedInOrder' <=> (~incompatibleServer' => Ordered(packetQueue', heard', position'))
<1>1. DOMAIN packetQueue' = 1 .. Len(packetQueue')
  OBVIOUS
<1> QED
  BY <1>1 DEF PlayedInOrder, Ordered

(* Later positions change nothing for what was handed over before.         *)
LEMMA OrderedGrows ==
  ASSUME NEW q \in Seq(Items), NEW h \in Int, NEW pos \in Int, NEW to \in Int, pos <= to,
         Ordered(q, h, pos)
  PROVE  Ordered(q, h, to)
<1>1. \A i \in 1 .. Len(q) : q[i].id \in Int
  <2> TAKE i \in 1 .. Len(q)
  <2>1. q[i] \in Items
    OBVIOUS
  <2>2. QED
    BY <2>1 DEF Items
<1> QED
  BY <1>1 DEF Ordered

LEMMA Offered ==
  ASSUME NEW q \in Seq(Items), NEW h \in Int, NEW pos \in Int, NEW to \in Int,
         NEW it \in Items, it.id = pos, to = pos + 1, Ordered(q, h, pos)
  PROVE  Ordered(Append(q, it), h, to) /\ Ordered(<<it>>, h, to)
<1>1. \A i \in 1 .. Len(q) : q[i].id \in Int
  <2> TAKE i \in 1 .. Len(q)
  <2>1. q[i] \in Items
    OBVIOUS
  <2>2. QED
    BY <2>1 DEF Items
<1>2. Ordered(<<it>>, h, to)
  <2>1. Len(<<it>>) = 1 /\ <<it>>[1] = it
    OBVIOUS
  <2>2. h < pos
    BY DEF Ordered
  <2>3. \A i \in 1 .. Len(<<it>>) : <<it>>[i] = it /\ i = 1
    BY <2>1
  <2>4. QED
    BY <2>2, <2>3 DEF Ordered
<1>3. Ordered(Append(q, it), h, to)
  <2> DEFINE w == Append(q, it)
             n == Len(q)
  <2>1. n \in Nat /\ Len(w) = n + 1 /\ w[n + 1] = it /\ \A i \in 1 .. n : w[i] = q[i]
    OBVIOUS
  <2> HIDE DEF w
  <2>2. /\ h < pos
        /\ \A i \in 1 .. n : IsData(q[i]) => h < q[i].id /\ q[i].id < pos
        /\ \A i, j \in 1 .. n : IsData(q[i]) /\ IsData(q[j]) /\ i < j => q[i].id < q[j].id
    BY DEF Ordered
  <2> HIDE DEF n
  <2>3. ASSUME NEW i \in 1 .. Len(w), IsData(w[i]) PROVE h < w[i].id /\ w[i].id < to
    <3>1. CASE i = n + 1
      BY <2>1, <2>2, <3>1
    <3>2. CASE i # n + 1
      <4>1. i \in 1 .. n /\ w[i] = q[i]
        BY <2>1, <3>2
      <4>2. h < q[i].id /\ q[i].id < pos /\ q[i].id \in Int
        BY <1>1, <2>2, <2>3, <4>1 DEF n
      <4>3. QED
        BY <4>1, <4>2
    <3>3. QED
      BY <3>1, <3>2
  <2>4. ASSUME NEW i \in 1 .. Len(w), NEW j \in 1 .. Len(w), IsData(w[i]), IsData(w[j]), i < j
        PROVE  w[i].id < w[j].id
    <3>1. i \in 1 .. n /\ w[i] = q[i]
      BY <2>1, <2>4
    <3>2. CASE j = n + 1
      <4>1. w[j] = it /\ q[i].id < pos
        BY <2>1, <2>2, <2>4, <3>1, <3>2
      <4>2. QED
        BY <3>1, <4>1
    <3>3. CASE j # n + 1
      <4>1. j \in 1 .. n /\ w[j] = q[j]
        BY <2>1, <3>3
      <4>2. QED
        BY <2>2, <2>4, <3>1, <4>1
    <3>4. QED
      BY <3>2, <3>3
  <2>5. h < to
    BY <2>2
  <2>6. Ordered(w, h, to)
    BY <2>3, <2>4, <2>5 DEF Ordered
  <2>7. QED
    BY <2>6 DEF w
<1> QED
  BY <1>2, <1>3

(* HandOver(): directly to the decoder or by the queue.                    *)
LEMMA HandOverStep ==
  ASSUME HandOK, NEW it \in Items, HandOver(it), UNCHANGED incompatibleServer,
         ~incompatibleServer => position \in Nat /\ it.id = position /\ position' = position + 1
  PROVE  HandOK'
<1> USE DEF HandOK
<1>1. QueueBound \in Nat \ {0}
  BY StreamAssumption
<1>2. CASE DirectSubmit
  <2>1. packetQueue = <<>> /\ packetQueue' = <<>> /\ heard' = IF it.kind = "lost" THEN heard ELSE it.id
    BY <1>2 DEF HandOver, DecodeInputData
  <2>2. heard' \in Int /\ it.id \in Int
    BY <2>1 DEF Items
  <2>3. packetQueue' \in Seq(Items) /\ Len(packetQueue') = 0
    BY <2>1
  <2>4. ASSUME ~incompatibleServer PROVE heard' < position'
    <3>1. heard < position
      BY <2>4, OrderedNow DEF Ordered
    <3>2. QED
      BY <2>1, <2>2, <2>4, <3>1
  <2>5. ~incompatibleServer' => Ordered(packetQueue', heard', position')
    BY <2>3, <2>4 DEF Ordered
  <2>6. PlayedInOrder'
    BY <2>3, <2>5, OrderedNext
  <2>7. QED
    BY <1>1, <1>2, <2>1, <2>2, <2>3, <2>6
<1>3. CASE ~DirectSubmit
  <2>1. /\ heard' = heard
        /\ packetQueue' = IF Len(packetQueue) < QueueBound THEN Append(packetQueue, it) ELSE <<it>>
    BY <1>3 DEF HandOver, Offer
  <2>2. packetQueue' \in Seq(Items) /\ Len(packetQueue') <= QueueBound
    BY <1>1, <2>1
  <2>3. ASSUME ~incompatibleServer PROVE Ordered(packetQueue', heard', position')
    <3>1. Ordered(packetQueue, heard, position)
      BY <2>3, OrderedNow
    <3>2. position \in Int /\ position + 1 \in Int /\ it.id = position
      BY <2>3
    <3>3. Ordered(Append(packetQueue, it), heard, position + 1) /\ Ordered(<<it>>, heard, position + 1)
      BY <3>1, <3>2, Offered
    <3>4. position' = position + 1
      BY <2>3
    <3>5. QED
      BY <2>1, <3>3, <3>4
  <2>4. PlayedInOrder'
    BY <2>2, <2>3, OrderedNext
  <2>5. QED
    BY <1>3, <2>1, <2>2, <2>4
<1> QED
  BY <1>2, <1>3

LEMMA DecodeStep ==
  ASSUME HandOK, position \in Nat, Decode
  PROVE  HandOK'
<1> USE DEF HandOK
<1> DEFINE q == packetQueue
           n == Len(q)
<1>1. /\ q # <<>> /\ packetQueue' = Tail(q) /\ UNCHANGED <<incompatibleServer, position>>
      /\ heard' = IF Head(q).kind = "lost" THEN heard ELSE Head(q).id
  BY DEF Decode, DecodeInputData, queueVars, seqVars
<1>2. /\ n \in Nat /\ n >= 1 /\ Head(q) = q[1] /\ q[1] \in Items
      /\ Tail(q) \in Seq(Items) /\ Len(Tail(q)) = n - 1
      /\ \A i \in 1 .. n - 1 : Tail(q)[i] = q[i + 1] /\ i + 1 \in 2 .. n
  <2>1. q \in Seq(Items) /\ n \in Nat /\ n >= 1
    BY <1>1
  <2>2. Head(q) = q[1] /\ q[1] \in Items
    BY <2>1
  <2>3. Tail(q) \in Seq(Items) /\ Len(Tail(q)) = n - 1
    BY <2>1
  <2>4. \A i \in 1 .. n - 1 : Tail(q)[i] = q[i + 1] /\ i + 1 \in 2 .. n
    BY <2>1
  <2>5. QED
    BY <2>1, <2>2, <2>3, <2>4
<1>3. heard' \in Int
  BY <1>1, <1>2 DEF Items
<1>4. ASSUME ~incompatibleServer PROVE Ordered(packetQueue', heard', position')
  <2>1. Ordered(q, heard, position)
    BY <1>4, OrderedNow
  <2>2. /\ heard < position
        /\ \A i \in 1 .. n : IsData(q[i]) => heard < q[i].id /\ q[i].id < position
        /\ \A i, j \in 1 .. n : IsData(q[i]) /\ IsData(q[j]) /\ i < j => q[i].id < q[j].id
    BY <2>1 DEF Ordered
  <2>3. q[1].kind = "lost" \/ (IsData(q[1]) /\ q[1].kind # "lost")
    BY <1>2 DEF Items, IsData
  <2>4. 1 \in 1 .. n
    BY <1>2
  <2>5. heard' < position
    BY <1>1, <1>2, <2>2, <2>3, <2>4
  <2> DEFINE w == Tail(q)
  <2>6. Len(w) = n - 1 /\ \A i \in 1 .. n - 1 : w[i] = q[i + 1] /\ i + 1 \in 2 .. n
    BY <1>2
  <2>7. n \in Nat
    BY <1>2
  <2> HIDE DEF w, n
  <2>8. ASSUME NEW i \in 1 .. Len(w), IsData(w[i]) PROVE heard' < w[i].id /\ w[i].id < position
    <3>1. w[i] = q[i + 1] /\ i + 1 \in 2 .. n /\ i + 1 \in 1 .. n /\ 1 < i + 1
      BY <2>6, <2>7
    <3>2. heard < q[i + 1].id /\ q[i + 1].id < position
      BY <2>2, <2>8, <3>1
    <3>3. IsData(q[1]) => q[1].id < q[i + 1].id
      BY <2>2, <2>4, <2>8, <3>1
    <3>4. QED
      BY <1>1, <1>2, <2>3, <3>1, <3>2, <3>3
  <2>9. ASSUME NEW i \in 1 .. Len(w), NEW j \in 1 .. Len(w), IsData(w[i]), IsData(w[j]), i < j
        PROVE  w[i].id < w[j].id
    <3>1. w[i] = q[i + 1] /\ i + 1 \in 1 .. n /\ w[j] = q[j + 1] /\ j + 1 \in 1 .. n /\ i + 1 < j + 1
      BY <2>6, <2>7, <2>9
    <3>2. QED
      BY <2>2, <2>9, <3>1
  <2>10. Ordered(w, heard', position)
    BY <2>5, <2>8, <2>9 DEF Ordered
  <2>11. QED
    BY <1>1, <2>10 DEF w
<1>5. packetQueue' \in Seq(Items) /\ Len(packetQueue') <= QueueBound
  <2>1. QueueBound \in Nat
    BY StreamAssumption
  <2>2. QED
    BY <1>1, <1>2, <2>1
<1>6. PlayedInOrder'
  BY <1>1, <1>4, <1>5, OrderedNext
<1> QED
  BY <1>1, <1>3, <1>5, <1>6

-----------------------------------------------------------------------------
(* Every step keeps the invariant.                                         *)

LEMMA NotedStep ==
  ASSUME AudioInv, Unambiguous, NEW n \in held \cup {sent}, Arrives(n), ~incompatibleServer,
         NoteSequence(PacketAt(n))
  PROVE  receivedOosData' \in BOOLEAN /\ FastRecovery'
<1>1. receivedOosData' \in BOOLEAN
  BY DEF NoteSequence, AudioInv
<1>2. ASSUME NoReordering' PROVE receivedOosData' = FALSE
  <2>1. NoReordering /\ n = sent /\ sent \in Nat
    BY <1>2, Arrival DEF AudioInv
  <2>2. receivedOosData = FALSE /\ SafeNow(n) /\ n \in Nat
    BY <2>1 DEF AudioInv, FastRecovery
  <2>3. InSight(n)
    BY Sight
  <2> DEFINE p == PacketAt(n)
  <2>4. NoteSequence(p)
    OBVIOUS
  <2> HIDE DEF p
  <2>5. p = PacketAt(n)
    BY DEF p
  <2>6. QED
    BY <2>2, <2>3, <2>4, <2>5, InSequence
<1> QED
  BY <1>1, <1>2 DEF FastRecovery

(* A packet that is not handed over.                                       *)
LEMMA AddAsideStep ==
  ASSUME AudioInv, Unambiguous, NEW n \in held \cup {sent}, NEW waited \in BOOLEAN,
         AddAside(n, waited)
  PROVE  /\ SafeNow(sent)' /\ NetOK'
         /\ position \in Nat /\ position' \in Nat /\ position <= position'
         /\ incompatibleServer => incompatibleServer'
         /\ receivedOosData' \in BOOLEAN /\ FastRecovery'
<1>1. ~draining /\ Arrives(n) /\ KeepsAside(PacketAt(n), waited)
  BY DEF AddAside, Receives
<1>2. NetOK' /\ sent' \in Nat /\ sent \in Nat /\ sent <= sent' /\ n \in 0 .. sent' - 1
      /\ (NoReordering' => NoReordering)
  BY <1>1, Arrival DEF AudioInv
<1>3. PICK s \in Nat : s = sent'
  BY <1>2
<1>4. PICK t \in Nat : t = sent
  BY <1>2
<1>5. SafeNow(s) /\ n \in 0 .. s - 1 /\ InSight(n)
  <2>1. SafeNow(t) /\ t <= s
    BY <1>2, <1>3, <1>4 DEF AudioInv
  <2>2. QED
    BY <1>2, <1>3, <2>1, SafeGrows, Sight
<1>6. position \in Nat
  BY <1>5 DEF SafeNow, Safe
<1> DEFINE p == PacketAt(n)
<1>7. ASSUME SafeNext(s), position' = position \/ position < position',
             incompatibleServer => incompatibleServer',
             (NoteSequence(p) /\ ~incompatibleServer) \/ UNCHANGED receivedOosData
      PROVE  /\ SafeNow(sent)' /\ NetOK' /\ position' \in Nat /\ position <= position'
             /\ receivedOosData' \in BOOLEAN /\ FastRecovery'
  <2>1. SafeNow(sent)'
    BY <1>3, <1>7, SafePrime
  <2>2. position' \in Nat /\ position <= position'
    BY <1>6, <1>7 DEF SafeNext, Safe
  <2>3. CASE NoteSequence(p) /\ ~incompatibleServer
    BY <1>1, <1>2, <2>1, <2>2, <2>3, NotedStep
  <2>4. CASE UNCHANGED receivedOosData
    <3>1. receivedOosData' \in BOOLEAN /\ FastRecovery'
      BY <1>2, <2>4 DEF AudioInv, FastRecovery
    <3>2. QED
      BY <1>2, <2>1, <2>2, <3>1
  <2>5. QED
    BY <1>7, <2>3, <2>4
<1>8. KeepsAside(p, waited) /\ p = PacketAt(n)
  BY <1>1
<1> HIDE DEF p
<1>10. CASE PassThrough(p)
  <2>1. SafeNext(s) /\ UNCHANGED <<position, incompatibleServer, receivedOosData>>
    BY <1>5, <1>10, OtherSteps DEF PassThrough, queueVars, seqVars, oosVars
  <2>2. QED
    BY <1>6, <1>7, <2>1, <1>2
<1>11. CASE DisableFec(p)
  <2>1. SafeNext(s)
    BY <1>1, <1>5, <1>11, OtherSteps
  <2>2. position' = position /\ incompatibleServer' /\ NoteSequence(p) /\ ~incompatibleServer
    BY <1>11 DEF DisableFec, seqVars
  <2>3. QED
    BY <1>6, <1>7, <2>1, <2>2
<1>12. CASE Synchronize(p)
  <2>1. SafeNext(s) /\ position = 0 /\ position' \in Nat \ {0} /\ UNCHANGED incompatibleServer
    BY <1>1, <1>5, <1>8, <1>12, SynchronizeStep
  <2>2. NoteSequence(p) /\ ~incompatibleServer
    BY <1>12 DEF Synchronize
  <2>3. QED
    BY <1>6, <1>7, <2>1, <2>2
<1>13. CASE Reject(p)
  <2>1. SafeNext(s) /\ UNCHANGED <<position, incompatibleServer>>
    BY <1>5, <1>8, <1>13, RejectStep
  <2>2. NoteSequence(p) /\ ~incompatibleServer
    BY <1>13 DEF Reject
  <2>3. QED
    BY <1>6, <1>7, <2>1, <2>2
<1>14. CASE StoreReady(p) \/ GiveUp(p, waited) \/ Wait(p, waited)
  <2>1. SafeNext(s) /\ UNCHANGED <<position, incompatibleServer>>
    BY <1>5, <1>8, <1>14, StoreSteps
  <2>2. NoteSequence(p) /\ ~incompatibleServer
    BY <1>14 DEF StoreReady, GiveUp, Wait, GivesUp, Missing, StoresAside, Fresh, Acceptable
  <2>3. QED
    BY <1>6, <1>7, <2>1, <2>2
<1>15. CASE Resynchronize(p)
  <2>1. SafeNext(s) /\ UNCHANGED incompatibleServer /\ position' > position
    BY <1>5, <1>8, <1>15, ResynchronizeStep
  <2>2. NoteSequence(p) /\ ~incompatibleServer /\ position' \in Nat
    BY <1>15, <2>1 DEF Resynchronize, Missing, StoresAside, Fresh, Acceptable, SafeNext, Safe
  <2>3. position < position'
    BY <1>6, <2>1, <2>2
  <2>4. QED
    BY <1>6, <1>7, <2>1, <2>2, <2>3
<1> QED
  BY <1>8, <1>10, <1>11, <1>12, <1>13, <1>14, <1>15 DEF KeepsAside

(* A packet that is handed over at once.                                   *)
LEMMA AddAndHandOverStep ==
  ASSUME AudioInv, Unambiguous, NEW n \in held \cup {sent}, AddAndHandOver(n)
  PROVE  /\ SafeNow(sent)' /\ NetOK' /\ UNCHANGED incompatibleServer
         /\ Item("data", PacketAt(n).id) \in Items
         /\ ~incompatibleServer => /\ position > 0 /\ position \in Nat
                                   /\ PacketAt(n).id = position /\ position' = position + 1
         /\ incompatibleServer => UNCHANGED position
         /\ receivedOosData' \in BOOLEAN /\ FastRecovery'
<1> DEFINE p == PacketAt(n)
<1>1. ~draining /\ Arrives(n) /\ (HandleNow(p) \/ (PassThrough(p) /\ IsAudio(p)))
  BY DEF AddAndHandOver, Receives
<1>2. NetOK' /\ sent' \in Nat /\ sent \in Nat /\ sent <= sent' /\ n \in 0 .. sent' - 1
      /\ (NoReordering' => NoReordering)
  BY <1>1, Arrival DEF AudioInv
<1>3. PICK s \in Nat : s = sent'
  BY <1>2
<1>4. PICK t \in Nat : t = sent
  BY <1>2
<1>5. SafeNow(s) /\ n \in 0 .. s - 1 /\ InSight(n)
  <2>1. SafeNow(t) /\ t <= s
    BY <1>2, <1>3, <1>4 DEF AudioInv
  <2>2. QED
    BY <1>2, <1>3, <2>1, SafeGrows, Sight
<1>6. position \in Nat
  BY <1>5 DEF SafeNow, Safe
<1>7. p = PacketAt(n)
  OBVIOUS
<1>8. Item("data", PacketAt(n).id) \in Items
  <2>1. n \in Nat
    BY <1>2
  <2>2. BlockOf(n) \in Nat /\ n % Total \in Nat
    BY <2>1, BlockFacts
  <2>3. PacketAt(n).id \in Nat
    BY <2>2 DEF PacketAt
  <2> HIDE DEF p
  <2>4. QED
    BY <2>3 DEF Item, Items
<1> HIDE DEF p
<1>9. CASE HandleNow(p)
  <2>1. SafeNext(s) /\ UNCHANGED incompatibleServer /\ position > 0 /\ p.id = position
        /\ position' = position + 1
    BY <1>5, <1>7, <1>9, HandleNowStep
  <2>2. NoteSequence(p) /\ ~incompatibleServer
    BY <1>9 DEF HandleNow, Fresh, Acceptable
  <2>3. SafeNow(sent)'
    BY <1>3, <2>1, SafePrime
  <2>4. receivedOosData' \in BOOLEAN /\ FastRecovery'
    BY <1>1, <1>7, <2>2, NotedStep
  <2>5. QED
    BY <1>2, <1>6, <1>7, <1>8, <2>1, <2>2, <2>3, <2>4
<1>10. CASE PassThrough(p)
  <2>1. SafeNext(s) /\ incompatibleServer /\ UNCHANGED <<position, incompatibleServer, receivedOosData>>
    BY <1>5, <1>10, OtherSteps DEF PassThrough, queueVars, seqVars, oosVars
  <2>2. SafeNow(sent)'
    BY <1>3, <2>1, SafePrime
  <2>3. receivedOosData' \in BOOLEAN /\ FastRecovery'
    BY <1>2, <2>1 DEF AudioInv, FastRecovery
  <2>4. QED
    BY <1>2, <1>8, <2>1, <2>2, <2>3
<1> QED
  BY <1>1, <1>9, <1>10

(* What RtpaGetQueuedPacket() has.                                         *)
LEMMA GetStep ==
  ASSUME AudioInv, NEW it, Conceals \/ Plays, Advance, it.id = position, it \in Items,
         HandOver(it), UNCHANGED <<receivedDataFromPeer, netVars>>
  PROVE  AudioInv' /\ UNCHANGED incompatibleServer /\ position' = position + 1 /\ position \in Nat
<1>1. PICK s \in Nat : s = sent
  BY DEF AudioInv, NetOK
<1>2. SafeNow(s)
  BY <1>1 DEF AudioInv
<1>3. SafeNext(s) /\ UNCHANGED incompatibleServer /\ position' = position + 1
  BY <1>2, AdvanceStep
<1>4. position \in Nat
  BY <1>2 DEF SafeNow, Safe
<1>5. SafeNow(sent)'
  BY <1>1, <1>3, SafePrime DEF netVars
<1>6. NetOK'
  BY DEF AudioInv, NetOK, NoReordering, netVars
<1>7. HandOK'
  BY <1>3, <1>4, HandOverStep DEF AudioInv
<1>8. packetsToDrop' \in 0 .. InitialDrop
  BY DEF AudioInv, HandOver
<1>9. receivedOosData' \in BOOLEAN /\ FastRecovery'
  BY DEF AudioInv, FastRecovery, NoReordering, Advance, oosVars, netVars
<1> QED
  BY <1>3, <1>4, <1>5, <1>6, <1>7, <1>8, <1>9 DEF AudioInv

(* Placeholders and packets of the list stand at the position.             *)
LEMMA Gotten ==
  ASSUME AudioInv, Conceals \/ Plays, Advance
  PROVE  /\ position \in Nat /\ Item("lost", position) \in Items
         /\ Head(blocks).first + Head(blocks).nextDataPacketIndex = position
         /\ Item("data", Head(blocks).first + Head(blocks).nextDataPacketIndex) \in Items
<1>1. PICK s \in Nat : s = sent
  BY DEF AudioInv, NetOK
<1>2. SafeNow(s)
  BY <1>1 DEF AudioInv
<1>3. position \in Nat
  BY <1>2 DEF SafeNow, Safe
<1>4. Head(blocks) = blocks[1] /\ blocks[1].first + blocks[1].nextDataPacketIndex = position
  BY <1>2, AdvanceStep
<1> QED
  BY <1>3, <1>4 DEF Item, Items

LEMMA HandKept ==
  ASSUME HandOK, position \in Nat, position' \in Nat, position <= position',
         incompatibleServer => incompatibleServer', UNCHANGED <<packetQueue, heard>>
  PROVE  HandOK'
<1>1. packetQueue' \in Seq(Items) /\ packetQueue \in Seq(Items) /\ heard \in Int
  BY DEF HandOK
<1>2. ASSUME ~incompatibleServer' PROVE Ordered(packetQueue', heard', position')
  <2>1. Ordered(packetQueue, heard, position)
    BY <1>1, <1>2, OrderedNow DEF HandOK
  <2>2. position \in Int /\ position' \in Int
    OBVIOUS
  <2>3. Ordered(packetQueue, heard, position')
    BY <1>1, <2>1, <2>2, OrderedGrows
  <2>4. QED
    BY <2>3
<1>3. PlayedInOrder'
  BY <1>1, <1>2, OrderedNext
<1> QED
  BY <1>3 DEF HandOK

LEMMA QueueKept ==
  ASSUME AudioInv, UNCHANGED queueVars, NetOK', sent' \in Nat, sent <= sent',
         NoReordering' => NoReordering
  PROVE  SafeNow(sent)' /\ receivedOosData' \in BOOLEAN /\ FastRecovery'
<1>1. PICK s \in Nat : s = sent'
  OBVIOUS
<1>2. PICK t \in Nat : t = sent
  BY DEF AudioInv, NetOK
<1>3. SafeNow(t) /\ t <= s
  BY <1>1, <1>2 DEF AudioInv
<1>4. SafeNow(s)
  BY <1>3, SafeGrows
<1>5. SafeNext(s)
  BY <1>4 DEF SafeNow, SafeNext, queueVars, seqVars
<1> QED
  BY <1>1, <1>5, SafePrime DEF AudioInv, FastRecovery, queueVars, oosVars

LEMMA AudioInit ==
  ASSUME Init
  PROVE  AudioInv
<1>1. LastPacket \in Nat /\ InitialDrop \in Nat /\ QueueBound \in Nat
  BY StreamAssumption
<1>2. DataShards \in Nat \ {0, 1} /\ Half \in Nat \ {0}
  BY Modulus
<1>3. Floor(0) = 0 /\ 0 % DataShards = 0
  <2>1. 0 \in Int /\ 0 \in 0 .. DataShards - 1
    BY <1>2
  <2>2. (0 * DataShards + 0) % DataShards = 0 /\ 0 * DataShards + 0 = 0
    BY <1>2, <2>1, ModUnique
  <2>3. QED
    BY <2>2 DEF Floor
<1>4. U16(0) = 0
  <2>1. 0 \in -Half .. Half - 1
    BY <1>2
  <2>2. QED
    BY <2>1, U16Difference
<1>5. ListOK(<<>>, 0, 0)
  BY <1>3 DEF ListOK
<1>6. SafeNow(sent)
  <2>1. blocks = <<>> /\ position = 0 /\ nextRtpSequenceNumber = 0 /\ oldestRtpBaseSequenceNumber = 0
        /\ sent = 0
    BY DEF Init, InitQueue
  <2>2. synchronizing /\ ~incompatibleServer /\ ~draining /\ synchronizing \in BOOLEAN
        /\ incompatibleServer \in BOOLEAN /\ draining \in BOOLEAN
    BY DEF Init, InitQueue
  <2>3. ListOK(blocks, position, sent)
    BY <1>5, <2>1
  <2>4. nextRtpSequenceNumber = U16(position) /\ oldestRtpBaseSequenceNumber = U16(Floor(position))
        /\ position \in Nat /\ ~(position > 0)
    BY <1>3, <1>4, <2>1
  <2>5. QED
    BY <2>1, <2>2, <2>3, <2>4 DEF SafeNow, Safe
<1>7. NetOK
  BY <1>1 DEF Init, NetOK
<1>8. HandOK
  <2>1. packetQueue \in Seq(Items) /\ Len(packetQueue) = 0 /\ heard = -1 /\ position = 0
    BY DEF Init, InitQueue
  <2>2. Ordered(packetQueue, heard, position)
    BY <2>1 DEF Ordered
  <2>3. QED
    BY <1>1, <2>1, <2>2, OrderedNow DEF Init, HandOK
<1>9. packetsToDrop \in 0 .. InitialDrop
  BY <1>1 DEF Init
<1>10. receivedOosData \in BOOLEAN /\ FastRecovery
  BY DEF Init, InitQueue, FastRecovery
<1> QED
  BY <1>6, <1>7, <1>8, <1>9, <1>10 DEF AudioInv

LEMMA AudioStep ==
  ASSUME AudioInv, Unambiguous, [Next]_vars
  PROVE  AudioInv'
<1>1. position \in Nat /\ sent \in Nat /\ SafeNow(sent) /\ NetOK /\ HandOK
      /\ packetsToDrop \in 0 .. InitialDrop /\ InitialDrop \in Nat /\ LastPacket \in Nat
  BY StreamAssumption DEF AudioInv, NetOK, SafeNow, Safe
<1>2. ASSUME UNCHANGED <<queueVars, packetQueue, heard>>, NetOK', sent' \in Nat, sent <= sent',
             NoReordering' => NoReordering, packetsToDrop' \in 0 .. InitialDrop
      PROVE  AudioInv'
  <2>1. SafeNow(sent)' /\ receivedOosData' \in BOOLEAN /\ FastRecovery'
    BY <1>2, QueueKept
  <2>2. HandOK'
    BY <1>1, <1>2, HandKept DEF queueVars, seqVars
  <2>3. QED
    BY <1>2, <2>1, <2>2 DEF AudioInv
<1>3. CASE Lose
  <2>1. /\ sent < LastPacket /\ faults' = [faults EXCEPT !.lost = @ + 1] /\ sent' = sent + 1
        /\ lost' \subseteq lost \cup {sent}
        /\ UNCHANGED <<queueVars, packetQueue, heard, packetsToDrop, held>>
    BY <1>3 DEF Lose, SendsNext, threadVars
  <2>2. NetOK' /\ sent' \in Nat /\ sent <= sent' /\ (NoReordering' => NoReordering)
    <3>1. faults' \in [lost : Nat, stray : Nat] /\ faults'.stray = faults.stray
      BY <1>1, <2>1 DEF NetOK
    <3>2. sent' \in 0 .. LastPacket /\ held' \subseteq 0 .. sent' - 1 /\ lost' \subseteq 0 .. sent' - 1
      BY <1>1, <2>1 DEF NetOK
    <3>3. QED
      BY <1>1, <2>1, <3>1, <3>2 DEF NetOK, NoReordering
  <2>3. QED
    BY <1>1, <1>2, <2>1, <2>2
<1>4. CASE Delay
  <2>1. /\ sent < LastPacket /\ faults' = [faults EXCEPT !.stray = @ + 1] /\ sent' = sent + 1
        /\ held' = held \cup {sent}
        /\ UNCHANGED <<queueVars, packetQueue, heard, packetsToDrop, lost>>
    BY <1>4 DEF Delay, SendsNext, threadVars
  <2>2. NetOK' /\ sent' \in Nat /\ sent <= sent' /\ (NoReordering' => NoReordering)
    <3>1. faults' \in [lost : Nat, stray : Nat] /\ faults'.stray # 0
      BY <1>1, <2>1 DEF NetOK
    <3>2. sent' \in 0 .. LastPacket /\ held' \subseteq 0 .. sent' - 1 /\ lost' \subseteq 0 .. sent' - 1
      BY <1>1, <2>1 DEF NetOK
    <3>3. QED
      BY <1>1, <2>1, <3>1, <3>2 DEF NetOK, NoReordering
  <2>3. QED
    BY <1>1, <1>2, <2>1, <2>2
<1>5. CASE ReceiveTimeout
  <2>1. /\ packetsToDrop' \in {0, packetsToDrop}
        /\ UNCHANGED <<queueVars, packetQueue, heard, sent, held, lost, faults>>
    BY <1>5 DEF ReceiveTimeout, netVars
  <2>2. NetOK' /\ (NoReordering' => NoReordering)
    BY <1>1, <2>1 DEF NetOK, NoReordering
  <2>3. QED
    BY <1>1, <1>2, <2>1, <2>2
<1>6. ASSUME NEW n \in held \cup {sent}, SkipBacklog(n) PROVE AudioInv'
  <2>1. /\ packetsToDrop > 0 /\ Arrives(n) /\ packetsToDrop' \in {packetsToDrop, packetsToDrop - 1}
        /\ UNCHANGED <<queueVars, packetQueue, heard>>
    BY <1>1, <1>6 DEF SkipBacklog
  <2>2. NetOK' /\ sent' \in Nat /\ sent <= sent' /\ (NoReordering' => NoReordering)
    BY <1>1, <2>1, Arrival
  <2>3. packetsToDrop' \in 0 .. InitialDrop
    BY <1>1, <2>1
  <2>4. QED
    BY <1>2, <2>1, <2>2, <2>3
<1>7. ASSUME NEW n \in held \cup {sent}, AddAndHandOver(n) PROVE AudioInv'
  <2> DEFINE it == Item("data", PacketAt(n).id)
  <2>1. /\ SafeNow(sent)' /\ NetOK' /\ UNCHANGED incompatibleServer /\ it \in Items
        /\ ~incompatibleServer => PacketAt(n).id = position /\ position' = position + 1
        /\ receivedOosData' \in BOOLEAN /\ FastRecovery'
    BY <1>7, AddAndHandOverStep
  <2>2. HandOver(it)
    BY <1>7 DEF AddAndHandOver
  <2>3. it.id = PacketAt(n).id
    BY DEF Item
  <2> HIDE DEF it
  <2>4. HandOK'
    BY <1>1, <2>1, <2>2, <2>3, HandOverStep
  <2>5. packetsToDrop' \in 0 .. InitialDrop
    BY <1>1, <2>2 DEF HandOver
  <2>6. QED
    BY <2>1, <2>4, <2>5 DEF AudioInv
<1>8. ASSUME NEW n \in held \cup {sent}, NEW waited \in BOOLEAN, AddAside(n, waited) PROVE AudioInv'
  <2>1. /\ SafeNow(sent)' /\ NetOK' /\ position' \in Nat /\ position <= position'
        /\ incompatibleServer => incompatibleServer'
        /\ receivedOosData' \in BOOLEAN /\ FastRecovery'
    BY <1>8, AddAsideStep
  <2>2. UNCHANGED <<packetsToDrop, packetQueue, heard>>
    BY <1>8 DEF AddAside
  <2>3. HandOK'
    BY <1>1, <2>1, <2>2, HandKept
  <2>4. QED
    BY <1>1, <2>1, <2>2, <2>3 DEF AudioInv
<1>9. CASE GetPlaceholder
  <2> DEFINE it == Item("lost", position)
  <2>1. (Conceals \/ Plays) /\ Advance /\ HandOver(it) /\ UNCHANGED <<receivedDataFromPeer, netVars>>
    BY <1>9 DEF GetPlaceholder
  <2>2. it \in Items
    BY <2>1, Gotten
  <2>3. it.id = position
    BY DEF Item
  <2> HIDE DEF it
  <2>4. QED
    BY <2>1, <2>2, <2>3, GetStep
<1>10. CASE GetPacket
  <2> DEFINE it == Item("data", Head(blocks).first + Head(blocks).nextDataPacketIndex)
  <2>1. (Conceals \/ Plays) /\ Advance /\ HandOver(it) /\ UNCHANGED <<receivedDataFromPeer, netVars>>
    BY <1>10 DEF GetPacket
  <2>2. it \in Items /\ it.id = position
    BY <2>1, Gotten DEF Item
  <2> HIDE DEF it
  <2>3. QED
    BY <2>1, <2>2, GetStep
<1>11. CASE NothingMore
  <2>1. Drained /\ UNCHANGED <<threadVars, netVars>>
    BY <1>11 DEF NothingMore
  <2>2. PICK s \in Nat : s = sent
    BY <1>1
  <2>3. SafeNow(s)
    BY <1>1, <2>2
  <2>4. SafeNext(s)
    BY <2>1, <2>3, OtherSteps
  <2>5. s = sent'
    BY <2>1, <2>2 DEF netVars
  <2>6. SafeNow(sent)'
    BY <2>4, <2>5, SafePrime
  <2>7. UNCHANGED <<position, incompatibleServer, receivedOosData, packetQueue, heard, packetsToDrop,
                    sent, held, lost, faults>>
    BY <2>1 DEF Drained, seqVars, oosVars, threadVars, netVars
  <2>8. HandOK'
    BY <1>1, <2>7, HandKept
  <2>9. NetOK' /\ receivedOosData' \in BOOLEAN /\ FastRecovery'
    BY <2>7 DEF AudioInv, NetOK, FastRecovery, NoReordering
  <2>10. QED
    BY <1>1, <2>6, <2>7, <2>8, <2>9 DEF AudioInv
<1>12. CASE Decode
  <2>1. UNCHANGED <<queueVars, packetsToDrop, sent, held, lost, faults>>
    BY <1>12 DEF Decode, netVars
  <2>2. HandOK'
    BY <1>1, <1>12, DecodeStep
  <2>3. NetOK' /\ (NoReordering' => NoReordering) /\ sent' \in Nat /\ sent <= sent'
    BY <1>1, <2>1 DEF NetOK, NoReordering
  <2>4. SafeNow(sent)' /\ receivedOosData' \in BOOLEAN /\ FastRecovery'
    BY <2>1, <2>3, QueueKept
  <2>5. QED
    BY <1>1, <2>1, <2>2, <2>3, <2>4 DEF AudioInv
<1>13. CASE UNCHANGED vars
  <2>1. UNCHANGED <<queueVars, packetQueue, heard, packetsToDrop, sent, held, lost, faults>>
    BY <1>13 DEF vars, threadVars, netVars
  <2>2. NetOK' /\ (NoReordering' => NoReordering) /\ sent' \in Nat /\ sent <= sent'
    BY <1>1, <2>1 DEF NetOK, NoReordering
  <2>3. QED
    BY <1>1, <1>2, <2>1, <2>2
<1>14. CASE Over
  BY <1>13, <1>14 DEF Over
<1> QED
  BY <1>3, <1>4, <1>5, <1>6, <1>7, <1>8, <1>9, <1>10, <1>11, <1>12, <1>13, <1>14 DEF Next

-----------------------------------------------------------------------------
(* What the invariant says of the blocks.                                  *)

LEMMA SoundBlocks ==
  ASSUME AudioInv
  PROVE  BlockStateValid
<1>1. PICK s \in Nat : s = sent
  BY DEF AudioInv, NetOK
<1>2. SafeNow(s)
  BY <1>1 DEF AudioInv
<1>3. /\ position \in Nat /\ ListOK(blocks, position, s) /\ nextRtpSequenceNumber = U16(position)
      /\ oldestRtpBaseSequenceNumber = U16(Floor(position))
  BY <1>2 DEF SafeNow, Safe
<1>4. blocks \in Seq(BlockRecords) /\ DOMAIN blocks = 1 .. Len(blocks) /\ Len(blocks) \in Nat
  BY <1>3 DEF ListOK
<1>5. DataShards \in Nat \ {0, 1} /\ Half \in Nat \ {0} /\ SeqModulus = 2 * Half /\ SeqModulus \in Nat \ {0}
  BY Modulus
<1>6. DataShards <= Half
  <2>1. PICK q \in Nat \ {0} : Half = q * DataShards
    BY Modulus
  <2>2. q - 1 \in Nat /\ q * DataShards = DataShards + (q - 1) * DataShards
    BY <1>5
  <2>3. (q - 1) * DataShards >= 0 /\ (q - 1) * DataShards \in Int
    BY <1>5, <2>2
  <2>4. QED
    BY <1>5, <2>1, <2>2, <2>3
<1> DEFINE f == Floor(position)
<1>7. f \in Int /\ f <= position /\ position < f + DataShards /\ f % DataShards = 0
  BY <1>3, FloorFacts
<1>8. \A i \in 1 .. Len(blocks) : /\ blocks[i] \in BlockRecords /\ blocks[i].first \in Nat
                                  /\ blocks[i].first % DataShards = 0
                                  /\ f <= blocks[i].first /\ blocks[i].first - f < Half
                                  /\ GoodBlock(blocks[i], position, s)
  BY <1>3, GoodFirst DEF ListOK
<1>9. \A m \in 0 .. s - 1 : FirstPosition <= BlockOf(m) /\ BlockOf(m) <= BlockOf(LastPacket)
                            /\ BlockOf(m) \in Nat
  <2> TAKE m \in 0 .. s - 1
  <2>1. m \in Nat /\ LastPacket \in Nat /\ m <= LastPacket
    BY <1>1, Totals DEF AudioInv, NetOK
  <2>2. QED
    BY <2>1, BlockFacts, BlocksGrow
<1>10. BlockOf(LastPacket) \in Nat /\ FirstPosition \in Nat
  BY Totals, BlockFacts
<1> HIDE DEF f
<1>11. TypeOK
  <2>1. ASSUME NEW i \in DOMAIN blocks
        PROVE  /\ blocks[i].first \in Positions /\ blocks[i].got \subseteq 0 .. Total - 1
               /\ blocks[i].nextDataPacketIndex \in 0 .. DataShards - 1
    <3> DEFINE b == blocks[i]
    <3>1. b \in BlockRecords /\ b.first \in Nat /\ GoodBlock(b, position, s)
      BY <1>4, <1>8, <2>1
    <3> HIDE DEF b
    <3>2. PICK m \in 0 .. s - 1 : BlockOf(m) = b.first
      BY <3>1 DEF GoodBlock
    <3>3. b.first \in Positions
      BY <1>5, <1>9, <1>10, <3>2 DEF Positions
    <3>4. b.nextDataPacketIndex = IF b.first = f THEN position - b.first ELSE 0
      BY <3>1 DEF GoodBlock, f
    <3>5. b.nextDataPacketIndex \in 0 .. DataShards - 1
      BY <1>3, <1>5, <1>7, <3>4
    <3>6. b.got \subseteq 0 .. Total - 1
      BY <3>1 DEF BlockRecords
    <3>7. QED
      BY <3>3, <3>5, <3>6 DEF b
  <2>2. position \in Positions \cup {0}
    <3>1. CASE position > 0
      <4>1. FirstPosition < position /\ \E m \in 0 .. s - 1 : position <= BlockOf(m) + DataShards
        BY <1>2, <3>1 DEF SafeNow, Safe
      <4>2. PICK m \in 0 .. s - 1 : position <= BlockOf(m) + DataShards
        BY <4>1
      <4>3. QED
        BY <1>3, <1>5, <1>9, <1>10, <4>1, <4>2 DEF Positions
    <3>2. QED
      BY <1>3, <3>1
  <2>3. oldestRtpBaseSequenceNumber \in 0 .. SeqModulus - 1
    BY <1>3, <1>7, U16Type DEF f
  <2>4. QED
    BY <1>3, <2>1, <2>2, <2>3 DEF TypeOK, AudioInv, HandOK
<1>12. ~IsBefore16(nextRtpSequenceNumber, oldestRtpBaseSequenceNumber)
  <2>1. position \in Int /\ position - f \in -Half .. Half - 1 /\ ~(position < f)
    BY <1>3, <1>5, <1>6, <1>7
  <2>2. IsBefore16(U16(position), U16(f)) <=> position < f
    BY <1>7, <2>1, Order
  <2>3. QED
    BY <1>3, <2>1, <2>2 DEF f
<1>13. ASSUME blocks # <<>>
       PROVE  /\ IsBefore16(nextRtpSequenceNumber, U16(Base(Head(blocks)) + DataShards))
              /\ ~IsBefore16(Base(Head(blocks)), oldestRtpBaseSequenceNumber)
  <2> DEFINE a == blocks[1].first
             e == a + DataShards
  <2>1. Head(blocks) = blocks[1] /\ 1 \in 1 .. Len(blocks)
    BY <1>4, <1>13
  <2>2. a \in Int /\ a % DataShards = 0 /\ f <= a /\ a - f < Half
    BY <1>8, <2>1
  <2>3. Base(Head(blocks)) = U16(a)
    BY <2>1 DEF Base
  <2> HIDE DEF a
  <2>4. e \in Int /\ e <= f + Half
    <3>1. a + DataShards <= f + Half
      BY <1>7, <2>2, WithinHalf
    <3>2. a + DataShards \in Int
      BY <1>5, <2>2
    <3> QED
      BY <3>1, <3>2
  <2>5. U16(U16(a) + DataShards) = U16(e)
    <3>1. DataShards \in Int
      BY <1>5
    <3>2. QED
      BY <2>2, <3>1, U16Sum
  <2>6. position \in Int /\ position - e \in -Half .. Half - 1 /\ position < e
    BY <1>3, <1>5, <1>6, <1>7, <2>2, <2>4
  <2> HIDE DEF e
  <2>7. IsBefore16(U16(position), U16(e))
    BY <2>4, <2>6, Order
  <2>8. a - f \in -Half .. Half - 1 /\ ~(a < f)
    BY <1>5, <1>7, <2>2
  <2>9. ~IsBefore16(U16(a), U16(f))
    BY <1>7, <2>2, <2>8, Order
  <2>10. QED
    BY <1>3, <2>3, <2>5, <2>7, <2>9 DEF f
<1>14. ASSUME NEW i \in 1 .. Len(blocks) - 1
       PROVE  IsBefore16(Base(blocks[i]), Base(blocks[i + 1]))
  <2> DEFINE a == blocks[i].first
             e == blocks[i + 1].first
  <2>1. i \in 1 .. Len(blocks) /\ i + 1 \in 1 .. Len(blocks) /\ i < i + 1
    BY <1>4
  <2>2. a < e
    BY <1>3, <2>1 DEF ListOK
  <2>3. a \in Nat /\ e \in Nat /\ f <= a /\ a - f < Half /\ f <= e /\ e - f < Half
    BY <1>8, <2>1
  <2> HIDE DEF a, e
  <2>4. a \in Int /\ e \in Int /\ a - e \in -Half .. Half - 1
    BY <1>5, <1>7, <2>3
  <2>5. IsBefore16(U16(a), U16(e))
    BY <2>2, <2>4, Order
  <2>6. QED
    BY <2>5 DEF Base, a, e
<1> QED
  BY <1>11, <1>12, <1>13, <1>14 DEF BlockStateValid

-----------------------------------------------------------------------------
(* The theorems.                                                           *)

(* RtpaAddPacket() and RtpaGetQueuedPacket(), whatever the network does,   *)
(* keep the invariant of the queue as long as nothing under way is half    *)
(* the range of sequence numbers away.                                     *)
THEOREM AudioInvariant == Spec /\ []Unambiguous => []AudioInv
<1>1. Init => AudioInv
  BY AudioInit
<1>2. AudioInv /\ Unambiguous /\ [Next]_vars => AudioInv'
  BY AudioStep
<1> QED
  BY <1>1, <1>2, PTL DEF Spec

(* validateFecBlockState(): the list of blocks is sorted and its head is   *)
(* neither behind what was given up nor behind the packet waited for.      *)
THEOREM BlocksValid == Spec /\ []Unambiguous => []BlockStateValid
<1>1. AudioInv => BlockStateValid
  BY SoundBlocks
<1> QED
  BY <1>1, AudioInvariant, PTL

(* The decoder gets the packets of the stream in order, each once, however *)
(* often packetQueue overflows.                                            *)
THEOREM InOrder == Spec /\ []Unambiguous => []PlayedInOrder
<1>1. AudioInv => PlayedInOrder
  BY DEF AudioInv, HandOK
<1> QED
  BY <1>1, AudioInvariant, PTL

(* Losses alone never make handleMissingPackets() wait.                    *)
THEOREM FastRecovered == Spec /\ []Unambiguous => []FastRecovery
<1>1. AudioInv => FastRecovery
  BY DEF AudioInv
<1> QED
  BY <1>1, AudioInvariant, PTL


-----------------------------------------------------------------------------
(* The queue implements the playout of AudioPlayout.                       *)

PlayoutVars == <<position, handed, ~incompatibleServer>>

LEMMA Stutter ==
  ASSUME UNCHANGED <<position, handed, incompatibleServer>>
  PROVE  UNCHANGED PlayoutVars
BY DEF PlayoutVars

(* A packet that is kept aside leaves the playout alone or skips whole     *)
(* blocks; one the host should not have sent ends it.                      *)
LEMMA AsidePlayout ==
  ASSUME AudioInv, Unambiguous, NEW n \in held \cup {sent}, NEW waited \in BOOLEAN,
         AddAside(n, waited)
  PROVE  Playout!SkipBlocks \/ Playout!Abandon \/ UNCHANGED PlayoutVars
<1> DEFINE p == PacketAt(n)
<1>1. /\ ~draining /\ Arrives(n) /\ KeepsAside(p, waited) /\ UNCHANGED handed
      /\ p = PacketAt(n)
  BY DEF AddAside, Receives
<1>2. NetOK' /\ sent' \in Nat /\ sent \in Nat /\ sent <= sent' /\ n \in 0 .. sent' - 1
  BY <1>1, Arrival DEF AudioInv
<1>3. PICK s \in Nat : s = sent'
  BY <1>2
<1>4. PICK t \in Nat : t = sent
  BY <1>2
<1>5. SafeNow(s) /\ n \in 0 .. s - 1 /\ InSight(n)
  <2>1. SafeNow(t) /\ t <= s
    BY <1>2, <1>3, <1>4 DEF AudioInv
  <2>2. QED
    BY <1>2, <1>3, <2>1, SafeGrows, Sight
<1>6. incompatibleServer \in BOOLEAN
  BY <1>5 DEF SafeNow, Safe
<1> HIDE DEF p
<1>7. ASSUME ~incompatibleServer, UNCHANGED incompatibleServer,
             position % DataShards = 0, position' > position, position' % DataShards = 0
      PROVE  Playout!SkipBlocks
  BY <1>1, <1>7 DEF Playout!SkipBlocks
<1>8. CASE PassThrough(p)
  BY <1>1, <1>8, Stutter DEF PassThrough, queueVars, seqVars
<1>9. CASE DisableFec(p)
  <2>1. incompatibleServer' = TRUE /\ UNCHANGED <<position, handed>>
    BY <1>1, <1>9 DEF DisableFec, seqVars
  <2>2. (~incompatibleServer') = FALSE
    BY <2>1
  <2>3. QED
    BY <2>1, <2>2 DEF Playout!Abandon
<1>10. CASE Synchronize(p)
  <2>1. position = 0 /\ position' \in Nat \ {0} /\ position' % DataShards = 0
        /\ UNCHANGED incompatibleServer
    BY <1>1, <1>5, <1>10, SynchronizeStep
  <2>2. ~incompatibleServer
    BY <1>10 DEF Synchronize
  <2>3. position % DataShards = 0
    <3>1. DataShards \in Nat \ {0}
      BY Modulus
    <3>2. 0 \in Int /\ 0 \in 0 .. DataShards - 1
      BY <3>1
    <3>3. (0 * DataShards + 0) % DataShards = 0 /\ 0 * DataShards + 0 = 0
      BY <3>1, <3>2, ModUnique
    <3>4. QED
      BY <2>1, <3>3
  <2>4. position' > position
    BY <2>1
  <2>5. QED
    BY <1>7, <2>1, <2>2, <2>3, <2>4
<1>11. CASE Reject(p)
  BY <1>1, <1>11, Stutter DEF Reject, seqVars
<1>12. CASE StoreReady(p) \/ GiveUp(p, waited) \/ Wait(p, waited)
  BY <1>1, <1>12, Stutter DEF StoreReady, GiveUp, Wait, seqVars
<1>13. CASE Resynchronize(p)
  <2>1. /\ UNCHANGED incompatibleServer /\ position' > position
        /\ position % DataShards = 0 /\ position' % DataShards = 0
    BY <1>1, <1>5, <1>13, ResynchronizeStep
  <2>2. ~incompatibleServer
    BY <1>13 DEF Resynchronize, Missing, StoresAside, Fresh, Acceptable
  <2>3. QED
    BY <1>7, <2>1, <2>2
<1> QED
  BY <1>1, <1>8, <1>9, <1>10, <1>11, <1>12, <1>13 DEF KeepsAside

(* What is handed over stands at the position, and moves it on.            *)
LEMMA HandedPlayout ==
  ASSUME NEW kind, NEW id, HandOver(Item(kind, id)), ~incompatibleServer,
         UNCHANGED incompatibleServer, id = position, position' = position + 1
  PROVE  Playout!Put(kind)
BY DEF Playout!Put, HandOver, Item

LEMMA PlayoutStep ==
  ASSUME AudioInv, Unambiguous, [Next]_vars
  PROVE  [Playout!Next]_PlayoutVars
<1>1. incompatibleServer \in BOOLEAN
  BY DEF AudioInv, SafeNow, Safe
<1>2. CASE UNCHANGED <<queueVars, handed>>
  BY <1>2, Stutter DEF queueVars, seqVars
<1>3. CASE Lose \/ Delay \/ ReceiveTimeout \/ Decode \/ Over \/ UNCHANGED vars
  BY <1>2, <1>3 DEF Lose, Delay, ReceiveTimeout, Decode, Over, vars, threadVars
<1>4. ASSUME NEW n \in held \cup {sent}, SkipBacklog(n) PROVE [Playout!Next]_PlayoutVars
  BY <1>2, <1>4 DEF SkipBacklog
<1>5. ASSUME NEW n \in held \cup {sent}, AddAndHandOver(n) PROVE [Playout!Next]_PlayoutVars
  <2>1. /\ UNCHANGED incompatibleServer
        /\ ~incompatibleServer => PacketAt(n).id = position /\ position' = position + 1
        /\ incompatibleServer => UNCHANGED position
    BY <1>5, AddAndHandOverStep
  <2>2. HandOver(Item("data", PacketAt(n).id))
    BY <1>5 DEF AddAndHandOver
  <2>3. CASE ~incompatibleServer
    BY <2>1, <2>2, <2>3, HandedPlayout DEF Playout!Next, Playout!Play
  <2>4. CASE incompatibleServer
    <3>1. handed'.kind = "data" /\ UNCHANGED position
      BY <2>1, <2>2, <2>4 DEF HandOver, Item
    <3>2. (~incompatibleServer') = (~incompatibleServer)
      BY <2>1
    <3>3. Playout!PlayAnything
      BY <2>4, <3>1, <3>2 DEF Playout!PlayAnything
    <3>4. QED
      BY <3>3 DEF Playout!Next
  <2>5. QED
    BY <2>3, <2>4
<1>6. ASSUME NEW n \in held \cup {sent}, NEW waited \in BOOLEAN, AddAside(n, waited)
      PROVE  [Playout!Next]_PlayoutVars
  BY <1>6, AsidePlayout DEF Playout!Next
<1>7. PICK s \in Nat : s = sent
  BY DEF AudioInv, NetOK
<1>8. SafeNow(s)
  BY <1>7 DEF AudioInv
<1>9. ASSUME NEW kind, NEW id, Conceals \/ Plays, Advance, HandOver(Item(kind, id)), id = position
      PROVE  Playout!Put(kind)
  <2>1. UNCHANGED incompatibleServer /\ position' = position + 1
    BY <1>8, <1>9, AdvanceStep
  <2>2. ~incompatibleServer
    BY <1>8, <1>9 DEF SafeNow, Safe, Conceals, Plays
  <2>3. QED
    BY <1>9, <2>1, <2>2, HandedPlayout
<1>10. CASE GetPlaceholder
  <2>1. Playout!Put("lost")
    BY <1>9, <1>10 DEF GetPlaceholder
  <2>2. QED
    BY <2>1 DEF Playout!Next, Playout!Conceal
<1>11. CASE GetPacket
  <2> DEFINE id == Head(blocks).first + Head(blocks).nextDataPacketIndex
  <2>1. (Conceals \/ Plays) /\ Advance /\ HandOver(Item("data", id))
    BY <1>11 DEF GetPacket
  <2>2. id = position
    BY <2>1, Gotten
  <2> HIDE DEF id
  <2>3. Playout!Put("data")
    BY <1>9, <2>1, <2>2
  <2>4. QED
    BY <2>3 DEF Playout!Next, Playout!Play
<1>12. CASE NothingMore
  <2>1. UNCHANGED <<position, handed, incompatibleServer>>
    BY <1>12 DEF NothingMore, Drained, seqVars, threadVars
  <2>2. QED
    BY <2>1, Stutter
<1> QED
  BY <1>3, <1>4, <1>5, <1>6, <1>10, <1>11, <1>12 DEF Next

(* Whatever the network does, what is handed to the decoder is a time line *)
(* on which every position is played or concealed once and in order, and   *)
(* which only ever leaves out whole blocks.                                *)
THEOREM PlaysOut == Spec /\ []Unambiguous => PlayoutSpec
<1>1. Init => Playout!Init
  <2>1. ASSUME Init PROVE incompatibleServer = FALSE /\ position = 0 /\ handed = Item("none", 0)
    BY <2>1 DEF Init, InitQueue
  <2>2. ASSUME Init PROVE (~incompatibleServer) = TRUE
    BY <2>1, <2>2
  <2>3. QED
    BY <2>1, <2>2 DEF Playout!Init, Item
<1>2. AudioInv /\ Unambiguous /\ [Next]_vars => [Playout!Next]_<<position, handed, ~incompatibleServer>>
  BY PlayoutStep DEF PlayoutVars
<1> QED
  BY <1>1, <1>2, AudioInvariant, PTL DEF Spec, PlayoutSpec, Playout!Spec


-----------------------------------------------------------------------------
(* Without reordering, what has been sent of the block being played and of *)
(* later ones is in the list or lost.                                      *)

HandedBefore ==
  \/ handed = Item("none", 0)
  \/ handed \in Items /\ (~incompatibleServer => handed.id < position)

AllUsed ==
  \A m \in 0 .. sent - 1 :
    Floor(position) <= BlockOf(m) => m \in lost \/ Covered(blocks, BlockOf(m), m % Total)

FecInv ==
  /\ HandedBefore
  /\ NoReordering /\ ~incompatibleServer /\ position > 0 =>
       packetsToDrop = 0 /\ Sparse(blocks) /\ AllUsed

LEMMA Multiple ==
  ASSUME NEW a \in Int, a % DataShards = 0
  PROVE  \E x \in Int : a = x * DataShards
<1> DEFINE d == a \div DataShards
           r == a % DataShards
<1>1. DataShards \in Nat \ {0}
  BY Modulus
<1>2. d \in Int /\ r \in 0 .. (DataShards - 1) /\ a = d * DataShards + r
  BY <1>1, Division
<1>3. r = 0
  OBVIOUS
<1> HIDE DEF d, r
<1> QED
  BY <1>1, <1>2, <1>3

(* The packets of a block are Total packets in a row.                      *)
LEMMA WholeBlock ==
  ASSUME NEW first \in Int, first % DataShards = 0, FirstPosition <= first
  PROVE  \E c \in Nat :
           /\ \A k \in 0 .. Total - 1 : BlockOf(c + k) = first /\ (c + k) % Total = k
           /\ \A n \in Nat : BlockOf(n) = first => n \in c .. c + Total - 1
<1>1. DataShards \in Nat \ {0} /\ Total \in Nat \ {0} /\ FirstPosition \in Nat
      /\ FirstPosition % DataShards = 0
  BY Modulus, Totals
<1>2. PICK x \in Int : FirstPosition = x * DataShards
  <2>1. FirstPosition \in Int
    BY <1>1
  <2>2. QED
    BY <1>1, <2>1, Multiple
<1>3. PICK y \in Int : first = y * DataShards
  BY <1>1, Multiple
<1> DEFINE q == y - x
           c == q * Total
<1>4. q \in Nat
  <2>1. SUFFICES ASSUME y < x PROVE FALSE
    BY <1>2, <1>3
  <2>2. x - y - 1 \in Nat /\ x * DataShards = y * DataShards + DataShards + (x - y - 1) * DataShards
    BY <1>1, <2>1
  <2>3. (x - y - 1) * DataShards >= 0
    BY <1>1, <2>2
  <2>4. QED
    BY <1>1, <1>2, <1>3, <2>2, <2>3
<1>5. first = FirstPosition + DataShards * q
  BY <1>1, <1>2, <1>3
<1>6. c \in Nat
  BY <1>1, <1>4
<1>7. ASSUME NEW k \in 0 .. Total - 1
      PROVE  BlockOf(c + k) = first /\ (c + k) % Total = k
  <2> HIDE DEF q
  <2>1. (q * Total + k) % Total = k /\ q \in Int /\ q * Total \in Int /\ k \in Int
    BY <1>1, <1>4, ModUnique
  <2> DEFINE z == (q * Total + k) \div Total
  <2>2. z \in Int /\ q * Total + k = z * Total + k
    <3>1. q * Total + k \in Int
      BY <2>1
    <3>2. QED
      BY <1>1, <2>1, <3>1, Division
  <2> HIDE DEF z
  <2>3. z = q
    <3>1. z * Total = q * Total /\ z * Total \in Int
      BY <1>1, <2>1, <2>2
    <3>2. ASSUME NEW u \in Int, NEW v \in Int, u < v, u * Total = v * Total PROVE FALSE
      <4>1. v - u - 1 \in Nat /\ v * Total = u * Total + Total + (v - u - 1) * Total
        BY <1>1, <3>2
      <4>2. (v - u - 1) * Total >= 0 /\ (v - u - 1) * Total \in Int /\ u * Total \in Int
        BY <1>1, <4>1
      <4>3. QED
        BY <1>1, <3>2, <4>1, <4>2
    <3>3. QED
      BY <2>1, <2>2, <3>1, <3>2
  <2>4. BlockOf(c + k) = FirstPosition + DataShards * z
    BY DEF BlockOf, z
  <2>5. QED
    BY <1>5, <2>1, <2>3, <2>4
<1>8. ASSUME NEW n \in Nat, BlockOf(n) = first
      PROVE  n \in c .. c + Total - 1
  <2>1. 0 \in 0 .. Total - 1
    BY <1>1
  <2>2. BlockOf(c) = first /\ c % Total = 0
    BY <1>6, <1>7, <2>1
  <2>3. n % Total \in 0 .. Total - 1
    BY BlockFacts
  <2> HIDE DEF c
  <2>4. CASE c <= n
    <3>1. n - c = (n % Total) - (c % Total)
      BY <1>6, <1>8, <2>2, <2>4, BlocksGrow
    <3>2. QED
      BY <1>1, <1>6, <2>2, <2>3, <3>1
  <2>5. CASE n <= c
    <3>1. c - n = (c % Total) - (n % Total)
      BY <1>6, <1>8, <2>2, <2>5, BlocksGrow
    <3>2. QED
      BY <1>1, <1>6, <2>2, <2>3, <2>5, <3>1
  <2>6. QED
    BY <1>6, <2>4, <2>5
<1> QED
  BY <1>6, <1>7, <1>8

(* A block before one that has been sent has been sent altogether.         *)
LEMMA SentBefore ==
  ASSUME NEW first \in Int, NEW m \in Nat, BlockOf(m) > first, NEW n \in Nat, BlockOf(n) = first
  PROVE  n < m
<1>1. BlockOf(m) \in Nat
  BY BlockFacts
<1>2. ~(m <= n)
  BY <1>1, BlocksGrow
<1> QED
  BY <1>2

LEMMA LostFinite ==
  ASSUME NetOK, NEW first
  PROVE  LostOf(first) \subseteq lost /\ IsFiniteSet(LostOf(first)) /\ lost \subseteq 0 .. sent - 1
<1>1. sent \in Nat /\ lost \subseteq 0 .. sent - 1
  BY Totals DEF NetOK
<1>2. LostOf(first) \in SUBSET (0 .. sent - 1)
  BY <1>1 DEF LostOf
<1>3. IsFiniteSet(0 .. sent - 1)
  BY <1>1, FS_Interval
<1> QED
  BY <1>1, <1>2, <1>3, FS_Subset DEF LostOf


LEMMA IntervalSize ==
  ASSUME NEW a \in Int, NEW n \in Nat \ {0}
  PROVE  IsFiniteSet(a .. a + n - 1) /\ Cardinality(a .. a + n - 1) = n
<1> DEFINE b == a + n - 1
<1>1. b \in Int /\ ~(a > b) /\ b - a + 1 = n
  OBVIOUS
<1> HIDE DEF b
<1>2. IsFiniteSet(a .. b) /\ Cardinality(a .. b) = IF a > b THEN 0 ELSE b - a + 1
  BY <1>1, FS_Interval
<1> QED
  BY <1>1, <1>2 DEF b

LEMMA RestSize ==
  ASSUME NEW S, IsFiniteSet(S), NEW T \in SUBSET S
  PROVE  /\ IsFiniteSet(S \ T) /\ Cardinality(T) \in Nat
         /\ Cardinality(S \ T) = Cardinality(S) - Cardinality(T)
<1>1. S \cap T = T
  OBVIOUS
<1>2. IsFiniteSet(S \ T) /\ Cardinality(S \ T) = Cardinality(S) - Cardinality(S \cap T)
  BY FS_Difference
<1>3. Cardinality(T) \in Nat
  BY FS_Subset, FS_CardinalityType
<1> QED
  BY <1>1, <1>2, <1>3

(* A block is concealed only when parity could not repair it.              *)
LEMMA ConcealedLost ==
  ASSUME AudioInv, FecInv, NoReordering, Conceals
  PROVE  Cardinality(LostOf(Head(blocks).first)) > FecShards
<1>1. /\ position \in Nat /\ ListOK(blocks, position, sent) /\ position > 0 /\ ~incompatibleServer
      /\ NetOK
  BY DEF AudioInv, SafeNow, Safe, Conceals
<1>2. Sparse(blocks) /\ AllUsed /\ sent \in Nat /\ FecShards \in Nat
  BY <1>1, Totals, ShardsAssumption DEF FecInv, NetOK
<1> DEFINE h == blocks[1]
           a == h.first
<1>3. /\ h = Head(blocks) /\ 1 \in 1 .. Len(blocks) /\ h \in BlockRecords
      /\ GoodBlock(h, position, sent)
  BY <1>1 DEF ListOK, Conceals
<1>4. h.allowDiscontinuity /\ h.nextDataPacketIndex \notin h.got
  BY <1>3 DEF Conceals, NextLacks
<1>5. \A i \in 1 .. Len(blocks) : blocks[i].first = a => i = 1
  <2>1. ASSUME NEW i \in 1 .. Len(blocks), blocks[i].first = a, i # 1 PROVE FALSE
    <3>1. 1 < i /\ a \in Nat
      BY <1>3, <2>1 DEF BlockRecords
    <3>2. a < blocks[i].first
      BY <1>1, <1>3, <2>1, <3>1 DEF ListOK
    <3>3. QED
      BY <2>1, <3>1, <3>2
  <2>2. QED
    BY <2>1
<1>6. SparseBlock(h)
  BY <1>2, <1>3 DEF Sparse
<1> HIDE DEF h
<1>7. a \in Nat /\ a % DataShards = 0 /\ FirstPosition <= a
  <2>1. PICK m \in 0 .. sent - 1 : BlockOf(m) = a
    BY <1>3 DEF GoodBlock
  <2>2. m \in Nat /\ FirstPosition \in Nat
    BY <1>2, Totals
  <2>3. QED
    BY <2>1, <2>2, BlockFacts
<1>8. PICK m \in 0 .. sent - 1 : BlockOf(m) > a
  BY <1>3, <1>4 DEF GoodBlock, Passed
<1>9. a = Floor(position) /\ Floor(position) \in Int /\ position < Floor(position) + DataShards
      /\ Floor(position) <= position
  BY <1>1, <1>3, <1>4, FloorFacts DEF GoodBlock
<1>10. h.nextDataPacketIndex \in 0 .. DataShards - 1
  <2>1. h.nextDataPacketIndex = position - a
    BY <1>3, <1>9 DEF GoodBlock
  <2>2. DataShards \in Nat
    BY Modulus
  <2>3. QED
    BY <1>1, <1>7, <1>9, <2>1, <2>2
<1>11. ~h.fullyReassembled
  BY <1>3, <1>4, <1>10 DEF GoodBlock
<1>12. h.got \subseteq 0 .. Total - 1
  BY <1>3 DEF BlockRecords
<1> HIDE DEF a
<1> DEFINE missing == (0 .. Total - 1) \ h.got
<1>13. Cardinality(missing) > FecShards
  <2>1. Total \in Nat /\ Total = DataShards + FecShards /\ DataShards \in Nat
    BY Totals, Modulus DEF Total
  <2>2. IsFiniteSet(0 .. 0 + Total - 1) /\ Cardinality(0 .. 0 + Total - 1) = Total
    <3>1. 0 \in Int /\ Total \in Nat \ {0}
      BY Totals
    <3>2. QED
      BY <3>1, IntervalSize
  <2>3. IsFiniteSet(0 .. Total - 1) /\ Cardinality(0 .. Total - 1) = Total
    <3>1. 0 + Total - 1 = Total - 1
      BY <2>1
    <3>2. QED
      BY <2>2, <3>1
  <2>4. Cardinality(h.got) \in Nat /\ Cardinality(missing) = Total - Cardinality(h.got)
    BY <1>12, <2>3, RestSize
  <2>6. Cardinality(h.got) < DataShards
    BY <1>6, <1>11 DEF SparseBlock
  <2> HIDE DEF missing
  <2>7. QED
    BY <1>2, <2>1, <2>4, <2>6
<1>14. PICK c \in Nat : \A k \in 0 .. Total - 1 : BlockOf(c + k) = a /\ (c + k) % Total = k
  <2>1. a \in Int
    BY <1>7
  <2>2. QED
    BY <1>7, <2>1, WholeBlock
<1> DEFINE f == [k \in missing |-> c + k]
<1>15. ASSUME NEW k \in missing PROVE c + k \in LostOf(a)
  <2>1. k \in 0 .. Total - 1 /\ k \notin h.got /\ c + k \in Nat /\ a \in Int /\ m \in Nat
    BY <1>2, <1>7
  <2>2. BlockOf(c + k) = a /\ (c + k) % Total = k
    BY <1>14, <2>1
  <2>3. c + k < m
    BY <1>8, <2>1, <2>2, SentBefore
  <2>4. c + k \in 0 .. sent - 1
    BY <1>2, <2>1, <2>3
  <2>5. Floor(position) <= BlockOf(c + k)
    BY <1>7, <1>9, <2>2
  <2>6. c + k \in lost \/ Covered(blocks, a, k)
    BY <1>2, <2>2, <2>4, <2>5 DEF AllUsed
  <2>7. ~Covered(blocks, a, k)
    BY <1>5, <1>11, <2>1 DEF Covered, h
  <2>8. QED
    BY <2>2, <2>6, <2>7 DEF LostOf
<1>16. f \in Injection(missing, LostOf(a))
  <2>1. f \in [missing -> LostOf(a)]
    BY <1>15
  <2>2. ASSUME NEW x \in missing, NEW y \in missing, f[x] = f[y] PROVE x = y
    <3>1. x \in Int /\ y \in Int /\ c + x = c + y
      BY <2>2
    <3>2. QED
      BY <3>1
  <2>3. QED
    BY <2>1, <2>2 DEF Injection, IsInjective
<1> HIDE DEF f, missing
<1>17. IsFiniteSet(LostOf(a))
  BY <1>1, LostFinite
<1>18. Cardinality(missing) <= Cardinality(LostOf(a)) /\ IsFiniteSet(missing)
  BY <1>16, <1>17, FS_Injection
<1>19. Cardinality(missing) \in Nat /\ Cardinality(LostOf(a)) \in Nat
  BY <1>17, <1>18, FS_CardinalityType
<1> QED
  BY <1>2, <1>3, <1>13, <1>18, <1>19 DEF a

LEMMA Between ==
  ASSUME NEW f \in Nat, NEW a \in Nat, NEW b \in Nat, f < a, NEW x \in a .. b - 1
  PROVE  x \in Nat /\ f <= x /\ a <= x /\ x < b /\ x \in Int
<1>1. x \in Int /\ a <= x /\ x <= b - 1
  OBVIOUS
<1> QED
  BY <1>1

(* A block is skipped only when nothing of it arrived.                     *)
LEMMA SkippedLost ==
  ASSUME AudioInv, FecInv, Unambiguous, NoReordering,
         NEW n \in held \cup {sent}, Arrives(n), Resynchronize(PacketAt(n)),
         NEW first \in position .. position' - 1, first % DataShards = 0
  PROVE  Cardinality(LostOf(first)) = Total
<1> DEFINE p == PacketAt(n)
<1>1. /\ NetOK /\ NetOK' /\ sent \in Nat /\ sent' \in Nat /\ sent <= sent' /\ n \in 0 .. sent' - 1
  BY Arrival DEF AudioInv
<1>2. n = sent /\ sent' = sent + 1
  <2>1. held = {}
    BY <1>1 DEF NetOK
  <2>2. n = sent
    BY <2>1
  <2>3. ~ArrivesLate(n)
    BY <2>1 DEF ArrivesLate
  <2>4. QED
    BY <2>2, <2>3 DEF Arrives, ArrivesInOrder, ArrivesTwice
<1>3. PICK s \in Nat : s = sent'
  BY <1>1
<1>4. PICK t \in Nat : t = sent
  BY <1>1
<1>5. SafeNow(s) /\ n \in 0 .. s - 1 /\ InSight(n)
  <2>1. SafeNow(t) /\ t <= s
    BY <1>1, <1>3, <1>4 DEF AudioInv
  <2>2. QED
    BY <1>1, <1>3, <2>1, SafeGrows, Sight
<1>6. p = PacketAt(n) /\ Resynchronize(p)
  OBVIOUS
<1> HIDE DEF p
<1>7. /\ SafeNext(s) /\ Takes(blocks, blocks', n) /\ position > 0 /\ position' > position
      /\ position % DataShards = 0
      /\ blocks' # <<>> /\ blocks'[1].first = position'
  BY <1>5, <1>6, ResynchronizeStep
<1>8. position \in Nat /\ position' \in Nat /\ FirstPosition < position
      /\ ListOK(blocks', position', s)
  BY <1>5, <1>7 DEF SafeNow, SafeNext, Safe
<1>9. first \in Nat /\ FirstPosition \in Nat /\ FirstPosition <= first /\ position <= first
      /\ first < position' /\ first \in Int
  <2>1. position \in Nat /\ position' \in Nat /\ FirstPosition < position /\ FirstPosition \in Nat
    BY <1>8, Totals
  <2>2. \A x \in position .. position' - 1 :
          x \in Nat /\ FirstPosition <= x /\ position <= x /\ x < position' /\ x \in Int
    BY <2>1, Between
  <2>3. QED
    BY <2>1, <2>2
<1>10. AllUsed
  BY <1>6, <1>7 DEF FecInv, Resynchronize, Missing, StoresAside, Fresh, Acceptable
<1>11. /\ 1 \in 1 .. Len(blocks') /\ GoodBlock(blocks'[1], position', s)
       /\ \A i \in 1 .. Len(blocks') : blocks'[i].first >= position'
  <2>1. 1 \in 1 .. Len(blocks') /\ Len(blocks') \in Nat
    BY <1>7, <1>8 DEF ListOK
  <2>2. ASSUME NEW i \in 1 .. Len(blocks') PROVE blocks'[i].first >= position'
    <3>1. i = 1 \/ 1 < i
      BY <2>1
    <3>2. 1 < i => blocks'[1].first < blocks'[i].first
      BY <1>8, <2>1 DEF ListOK
    <3>3. blocks'[i] \in BlockRecords
      BY <1>8 DEF ListOK
    <3>4. blocks'[i].first \in Nat
      BY <3>3 DEF BlockRecords
    <3>5. QED
      BY <1>7, <1>8, <3>1, <3>2, <3>4
  <2>3. QED
    BY <1>8, <2>1, <2>2 DEF ListOK
<1>12. PICK m \in 0 .. s - 1 : BlockOf(m) = position'
  BY <1>7, <1>11 DEF GoodBlock
<1>13. PICK c \in Nat :
         /\ \A k \in 0 .. Total - 1 : BlockOf(c + k) = first /\ (c + k) % Total = k
         /\ \A x \in Nat : BlockOf(x) = first => x \in c .. c + Total - 1
  BY <1>9, WholeBlock
<1>14. Total \in Nat \ {0}
  BY Totals
<1>15. ASSUME NEW x \in c .. c + Total - 1 PROVE x \in LostOf(first)
  <2>1. x - c \in 0 .. Total - 1 /\ c + (x - c) = x /\ x \in Nat
    BY <1>14
  <2>2. BlockOf(x) = first
    BY <1>13, <2>1
  <2>3. m \in Nat /\ BlockOf(m) > first
    BY <1>3, <1>8, <1>9, <1>12
  <2>4. x < m
    BY <1>9, <2>1, <2>2, <2>3, SentBefore
  <2>5. x \in 0 .. sent - 1
    BY <1>1, <1>2, <1>3, <2>1, <2>4
  <2>6. Floor(position) <= first
    <3>1. position \in Int
      BY <1>8
    <3>2. Floor(position) \in Int /\ Floor(position) <= position
      BY <3>1, FloorFacts
    <3>3. QED
      BY <1>9, <3>1, <3>2
  <2>7. x \in lost \/ Covered(blocks, first, x % Total)
    BY <1>10, <2>2, <2>5, <2>6 DEF AllUsed
  <2>8. ~Covered(blocks', first, x % Total)
    <3>1. ASSUME NEW i \in 1 .. Len(blocks') PROVE blocks'[i].first # first
      BY <1>8, <1>9, <1>11
    <3>2. QED
      BY <3>1 DEF Covered
  <2>9. ~Covered(blocks, first, x % Total)
    BY <1>7, <2>8 DEF Takes, Keeps
  <2>10. QED
    BY <2>2, <2>7, <2>9 DEF LostOf
<1>16. ASSUME NEW x \in LostOf(first) PROVE x \in c .. c + Total - 1
  <2>1. x \in Nat /\ BlockOf(x) = first
    BY <1>1 DEF NetOK, LostOf
  <2>2. QED
    BY <1>13, <2>1
<1>17. LostOf(first) = c .. c + Total - 1
  BY <1>15, <1>16
<1> QED
  <2>1. c \in Int
    OBVIOUS
  <2>2. Cardinality(c .. c + Total - 1) = Total
    BY <1>14, <2>1, IntervalSize
  <2>3. QED
    BY <1>17, <2>2


(* What is handed over, or skipped, is behind the position.                *)
LEMMA HandedStays ==
  ASSUME HandedBefore, UNCHANGED handed, position \in Nat, position' \in Nat,
         position <= position', incompatibleServer => incompatibleServer'
  PROVE  HandedBefore'
BY DEF HandedBefore, Items

LEMMA HandedMoves ==
  ASSUME NEW it \in Items, HandOver(it), it.id = position, position \in Nat,
         position' = position + 1
  PROVE  HandedBefore'
BY DEF HandedBefore, HandOver

LEMMA FloorGrows ==
  ASSUME NEW a \in Nat, NEW b \in Nat, a <= b
  PROVE  Floor(a) <= Floor(b)
<1>1. a \in Int /\ b \in Int /\ DataShards \in Nat \ {0}
  BY Modulus
<1>2. /\ Floor(a) \in Int /\ Floor(a) % DataShards = 0 /\ Floor(a) <= a
      /\ Floor(b) \in Int /\ Floor(b) % DataShards = 0 /\ b < Floor(b) + DataShards
  BY <1>1, FloorFacts
<1>3. PICK x \in Int : Floor(a) = x * DataShards
  BY <1>2, Multiple
<1>4. PICK y \in Int : Floor(b) = y * DataShards
  BY <1>2, Multiple
<1>5. CASE y < x
  <2>1. x - y - 1 \in Nat /\ x * DataShards = y * DataShards + DataShards + (x - y - 1) * DataShards
    BY <1>1, <1>5
  <2>2. (x - y - 1) * DataShards >= 0 /\ (x - y - 1) * DataShards \in Int
    BY <1>1, <2>1
  <2>3. QED
    BY <1>1, <1>2, <1>3, <1>4, <2>1, <2>2
<1>6. CASE x <= y
  <2>1. y - x \in Nat /\ y * DataShards = x * DataShards + (y - x) * DataShards
    BY <1>1, <1>6
  <2>2. (y - x) * DataShards >= 0 /\ (y - x) * DataShards \in Int
    BY <1>1, <2>1
  <2>3. QED
    BY <1>2, <1>3, <1>4, <2>1, <2>2
<1> QED
  BY <1>5, <1>6

(* The next packet of the host is taken in; nothing of the blocks still to *)
(* be played is forgotten.                                                 *)
LEMMA UsedMore ==
  ASSUME AllUsed, StillCovers, position \in Nat, position' \in Nat, position <= position',
         sent \in Nat, sent' = sent + 1, UNCHANGED lost,
         Floor(position') <= BlockOf(sent) => Covered(blocks', BlockOf(sent), sent % Total)
  PROVE  AllUsed'
<1> SUFFICES ASSUME NEW m \in 0 .. sent' - 1, Floor(position') <= BlockOf(m)
             PROVE  m \in lost' \/ Covered(blocks', BlockOf(m), m % Total)
  BY DEF AllUsed
<1>1. CASE m = sent
  BY <1>1
<1>2. CASE m # sent
  <2>1. m \in 0 .. sent - 1 /\ m \in Nat
    BY <1>2
  <2>2. Floor(position) <= Floor(position') /\ BlockOf(m) \in Int
        /\ Floor(position) \in Int /\ Floor(position') \in Int
    <3>1. position \in Int /\ position' \in Int
      OBVIOUS
    <3>2. Floor(position) <= Floor(position')
      BY FloorGrows
    <3>3. Floor(position) \in Int /\ Floor(position') \in Int
      BY <3>1, FloorFacts
    <3>4. BlockOf(m) \in Int
      BY <2>1, BlockFacts
    <3>5. QED
      BY <3>2, <3>3, <3>4
  <2>3. Floor(position) <= BlockOf(m)
    BY <2>2
  <2>4. m \in lost \/ Covered(blocks, BlockOf(m), m % Total)
    BY <2>1, <2>3 DEF AllUsed
  <2>5. QED
    BY <2>2, <2>4 DEF StillCovers
<1> QED
  BY <1>1, <1>2

LEMMA UsedStill ==
  ASSUME AllUsed, StillCovers, position \in Nat, position' \in Nat, position <= position',
         sent \in Nat, UNCHANGED <<sent, lost>>
  PROVE  AllUsed'
<1> SUFFICES ASSUME NEW m \in 0 .. sent - 1, Floor(position') <= BlockOf(m)
             PROVE  m \in lost \/ Covered(blocks', BlockOf(m), m % Total)
  BY DEF AllUsed
<1>1. m \in Nat /\ position \in Int /\ position' \in Int
  OBVIOUS
<1>2. Floor(position) <= Floor(position') /\ BlockOf(m) \in Int
      /\ Floor(position) \in Int /\ Floor(position') \in Int
  <2>1. Floor(position) <= Floor(position')
    BY FloorGrows
  <2>2. Floor(position) \in Int /\ Floor(position') \in Int
    BY <1>1, FloorFacts
  <2>3. BlockOf(m) \in Int
    BY <1>1, BlockFacts
  <2>4. QED
    BY <2>1, <2>2, <2>3
<1>3. Floor(position) <= BlockOf(m)
  BY <1>2
<1>4. m \in lost \/ Covered(blocks, BlockOf(m), m % Total)
  BY <1>3 DEF AllUsed
<1> QED
  BY <1>2, <1>4 DEF StillCovers

(* A packet that is lost is remembered until its block has been played.    *)
LEMMA UsedOrLost ==
  ASSUME AllUsed, NetOK, Lose, position \in Nat
  PROVE  AllUsed'
<1>1. /\ sent' = sent + 1 /\ sent \in Nat /\ UNCHANGED <<blocks, position>>
      /\ lost' = {n \in lost : BlockOf(n) + DataShards > position} \cup {sent}
  BY Totals DEF Lose, NetOK, queueVars, seqVars
<1> SUFFICES ASSUME NEW m \in 0 .. sent' - 1, Floor(position) <= BlockOf(m)
             PROVE  m \in lost' \/ Covered(blocks, BlockOf(m), m % Total)
  BY <1>1 DEF AllUsed
<1>2. CASE m = sent
  BY <1>1, <1>2
<1>3. CASE m # sent
  <2>1. m \in 0 .. sent - 1 /\ m \in Nat
    BY <1>1, <1>3
  <2>2. BlockOf(m) \in Int /\ position \in Int
    BY <2>1, BlockFacts
  <2>3. Floor(position) \in Int /\ position < Floor(position) + DataShards /\ DataShards \in Nat
    BY <2>2, FloorFacts, Modulus
  <2>4. BlockOf(m) + DataShards > position
    BY <2>2, <2>3
  <2>5. m \in lost \/ Covered(blocks, BlockOf(m), m % Total)
    BY <2>1 DEF AllUsed
  <2>6. QED
    BY <1>1, <2>4, <2>5
<1> QED
  BY <1>2, <1>3

LEMMA FecInit ==
  ASSUME Init
  PROVE  FecInv
<1>1. position = 0 /\ handed = Item("none", 0)
  BY DEF Init, InitQueue
<1> QED
  BY <1>1 DEF FecInv, HandedBefore

LEMMA KeptCovers ==
  /\ Keeps(blocks, blocks') => StillCovers
  /\ UNCHANGED blocks => StillCovers
BY DEF Keeps, StillCovers


FecUsed ==
  NoReordering /\ ~incompatibleServer =>
    /\ handed' # handed /\ handed'.kind = "lost" =>
         Cardinality(LostOf(Head(blocks).first)) > FecShards
    /\ Skips => \A first \in position .. position' - 1 :
                   first % DataShards = 0 => Cardinality(LostOf(first)) = Total

LEMMA AsideFec ==
  ASSUME AudioInv, FecInv, Unambiguous, NEW n \in held \cup {sent}, NEW waited \in BOOLEAN,
         AddAside(n, waited)
  PROVE  FecInv' /\ FecUsed
<1> DEFINE p == PacketAt(n)
<1>1. /\ ~draining /\ Arrives(n) /\ KeepsAside(p, waited) /\ packetsToDrop' = 0
      /\ UNCHANGED handed /\ p = PacketAt(n)
  BY DEF AddAside, Receives
<1>2. NetOK' /\ sent' \in Nat /\ sent \in Nat /\ sent <= sent' /\ n \in 0 .. sent' - 1
      /\ UNCHANGED lost
      /\ (NoReordering' => NoReordering /\ n = sent /\ sent' = sent + 1)
  BY <1>1, Arrival DEF AudioInv
<1>3. PICK s \in Nat : s = sent'
  BY <1>2
<1>4. PICK t \in Nat : t = sent
  BY <1>2
<1>5. SafeNow(s) /\ n \in 0 .. s - 1 /\ InSight(n)
  <2>1. SafeNow(t) /\ t <= s
    BY <1>2, <1>3, <1>4 DEF AudioInv
  <2>2. QED
    BY <1>2, <1>3, <2>1, SafeGrows, Sight
<1>6. /\ position \in Nat /\ position' \in Nat /\ position <= position'
      /\ (incompatibleServer => incompatibleServer')
  BY AddAsideStep
<1>7. HandedBefore'
  BY <1>1, <1>6, HandedStays DEF FecInv
<1> HIDE DEF p
<1>8. ASSUME ~incompatibleServer, position > 0, Sparse(blocks) => Sparse(blocks'), StillCovers,
             Floor(position') <= BlockOf(n) => Covered(blocks', BlockOf(n), n % Total)
      PROVE  FecInv'
  <2>1. SUFFICES ASSUME NoReordering' PROVE packetsToDrop' = 0 /\ Sparse(blocks') /\ AllUsed'
    BY <1>7 DEF FecInv
  <2>2. NoReordering /\ n = sent /\ sent' = sent + 1
    BY <1>2, <2>1
  <2>3. Sparse(blocks) /\ AllUsed
    BY <1>8, <2>2 DEF FecInv
  <2>4. AllUsed'
    BY <1>2, <1>6, <1>8, <2>2, <2>3, UsedMore
  <2>5. QED
    BY <1>1, <1>8, <2>3, <2>4
<1>9. ASSUME UNCHANGED position PROVE FecUsed
  BY <1>1, <1>6, <1>9 DEF FecUsed, Skips
<1>10. CASE PassThrough(p)
  <2>1. incompatibleServer /\ UNCHANGED <<position, incompatibleServer>>
    BY <1>10 DEF PassThrough, queueVars, seqVars
  <2>2. QED
    BY <1>7, <1>9, <2>1 DEF FecInv
<1>11. CASE DisableFec(p)
  <2>1. incompatibleServer' /\ UNCHANGED position
    BY <1>11 DEF DisableFec, seqVars
  <2>2. QED
    BY <1>7, <1>9, <2>1 DEF FecInv
<1>12. CASE Synchronize(p)
  <2>1. position' = BlockOf(n) + DataShards /\ position' % DataShards = 0 /\ blocks' = <<>>
    BY <1>1, <1>5, <1>12, SynchronizeStep
  <2>2. Sparse(blocks')
    BY <2>1 DEF Sparse
  <2>3. ASSUME NoReordering' PROVE AllUsed'
    <3>1. n = sent /\ sent' = sent + 1
      BY <1>2, <2>3
    <3>2. ASSUME NEW m \in 0 .. sent' - 1 PROVE ~(Floor(position') <= BlockOf(m))
      <4>1. m \in Nat /\ n \in Nat /\ m <= n
        BY <1>2, <3>1
      <4>2. BlockOf(m) <= BlockOf(n) /\ BlockOf(m) \in Int /\ BlockOf(n) \in Int
        BY <4>1, BlocksGrow, BlockFacts
      <4>3. Floor(position') = position'
        BY <1>6, <2>1 DEF Floor
      <4>4. DataShards \in Nat \ {0}
        BY Modulus
      <4>5. QED
        BY <2>1, <4>2, <4>3, <4>4
    <3>3. QED
      BY <3>2 DEF AllUsed
  <2>4. FecInv'
    BY <1>1, <1>7, <2>2, <2>3 DEF FecInv
  <2>5. FecUsed
    BY <1>1, <1>12 DEF FecUsed, Skips, Synchronize
  <2>6. QED
    BY <2>4, <2>5
<1>13. CASE Reject(p)
  <2>1. /\ UNCHANGED <<blocks, position>> /\ position > 0
        /\ Floor(position) <= BlockOf(n) => Covered(blocks, BlockOf(n), n % Total)
    BY <1>1, <1>5, <1>13, RejectStep
  <2>2. ~incompatibleServer
    BY <1>13 DEF Reject
  <2>3. StillCovers
    BY <2>1, KeptCovers
  <2>4. QED
    BY <1>8, <1>9, <2>1, <2>2, <2>3
<1>14. CASE StoreReady(p) \/ GiveUp(p, waited) \/ Wait(p, waited)
  <2>1. UNCHANGED position /\ position > 0 /\ Takes(blocks, blocks', n)
    BY <1>1, <1>5, <1>14, StoreSteps
  <2>2. ~incompatibleServer
    BY <1>14 DEF StoreReady, GiveUp, Wait, GivesUp, Missing, StoresAside, Fresh, Acceptable
  <2>3. StillCovers
    BY <2>1, KeptCovers DEF Takes
  <2>4. QED
    BY <1>8, <1>9, <2>1, <2>2, <2>3 DEF Takes
<1>15. CASE Resynchronize(p)
  <2>1. position > 0 /\ Takes(blocks, blocks', n)
    BY <1>1, <1>5, <1>15, ResynchronizeStep
  <2>2. ~incompatibleServer
    BY <1>15 DEF Resynchronize, Missing, StoresAside, Fresh, Acceptable
  <2>3. StillCovers
    BY <2>1, KeptCovers DEF Takes
  <2>4. FecInv'
    BY <1>8, <2>1, <2>2, <2>3 DEF Takes
  <2>5. FecUsed
    BY <1>1, <1>15, SkippedLost DEF FecUsed, p
  <2>6. QED
    BY <2>4, <2>5
<1> QED
  BY <1>1, <1>10, <1>11, <1>12, <1>13, <1>14, <1>15 DEF KeepsAside

LEMMA HandOverFec ==
  ASSUME AudioInv, FecInv, Unambiguous, NEW n \in held \cup {sent}, AddAndHandOver(n)
  PROVE  FecInv' /\ FecUsed
<1> DEFINE p == PacketAt(n)
           it == Item("data", p.id)
<1>1. /\ Arrives(n) /\ (HandleNow(p) \/ (PassThrough(p) /\ IsAudio(p))) /\ packetsToDrop' = 0
      /\ HandOver(it) /\ p = PacketAt(n)
  BY DEF AddAndHandOver, Receives, HandOver
<1>2. NetOK' /\ sent' \in Nat /\ sent \in Nat /\ sent <= sent' /\ n \in 0 .. sent' - 1
      /\ UNCHANGED lost
      /\ (NoReordering' => NoReordering /\ n = sent /\ sent' = sent + 1)
  BY <1>1, Arrival DEF AudioInv
<1>3. PICK s \in Nat : s = sent'
  BY <1>2
<1>4. PICK t \in Nat : t = sent
  BY <1>2
<1>5. SafeNow(s) /\ n \in 0 .. s - 1 /\ InSight(n)
  <2>1. SafeNow(t) /\ t <= s
    BY <1>2, <1>3, <1>4 DEF AudioInv
  <2>2. QED
    BY <1>2, <1>3, <2>1, SafeGrows, Sight
<1>6. /\ UNCHANGED incompatibleServer /\ it \in Items
      /\ ~incompatibleServer => /\ position > 0 /\ position \in Nat
                                /\ p.id = position /\ position' = position + 1
      /\ incompatibleServer => UNCHANGED position
  BY AddAndHandOverStep
<1>7. handed' = it /\ it.kind = "data" /\ it.id = p.id
  BY <1>1 DEF HandOver, Item
<1> HIDE DEF it, p
<1>8. CASE incompatibleServer
  <2>1. HandedBefore'
    BY <1>6, <1>7, <1>8 DEF HandedBefore
  <2>2. QED
    BY <1>6, <1>8, <2>1 DEF FecInv, FecUsed
<1>9. CASE ~incompatibleServer
  <2>1. HandleNow(p)
    BY <1>1, <1>9 DEF PassThrough
  <2>2. /\ StillCovers
        /\ Floor(position') <= BlockOf(n) => Covered(blocks', BlockOf(n), n % Total)
        /\ (n = s - 1 /\ Sparse(blocks) => Sparse(blocks'))
    BY <1>1, <1>5, <2>1, HandleNowStep
  <2>3. HandedBefore'
    BY <1>1, <1>6, <1>7, <1>9, HandedMoves
  <2>4. ASSUME NoReordering' PROVE packetsToDrop' = 0 /\ Sparse(blocks') /\ AllUsed'
    <3>1. NoReordering /\ n = sent /\ sent' = sent + 1 /\ n = s - 1
      BY <1>2, <1>3, <2>4
    <3>2. Sparse(blocks) /\ AllUsed
      BY <1>6, <1>9, <3>1 DEF FecInv
    <3>3. position' \in Nat /\ position <= position'
      BY <1>6, <1>9
    <3>4. AllUsed'
      BY <1>2, <1>6, <1>9, <2>2, <3>1, <3>2, <3>3, UsedMore
    <3>5. QED
      BY <1>1, <2>2, <3>1, <3>2, <3>4
  <2>5. FecInv'
    BY <2>3, <2>4 DEF FecInv
  <2>6. handed' # handed
    BY <1>6, <1>7, <1>9 DEF FecInv, HandedBefore, Item, Items
  <2>7. FecUsed
    BY <1>7, <2>6 DEF FecUsed, Skips
  <2>8. QED
    BY <2>5, <2>7
<1> QED
  BY <1>8, <1>9

LEMMA GetFec ==
  ASSUME AudioInv, FecInv, Conceals \/ Plays, Advance, NEW it \in Items, it.id = position,
         it.kind = "lost" => Conceals, HandOver(it), UNCHANGED netVars
  PROVE  FecInv' /\ FecUsed
<1>1. PICK s \in Nat : s = sent
  BY DEF AudioInv, NetOK
<1>2. SafeNow(s)
  BY <1>1 DEF AudioInv
<1>3. /\ UNCHANGED incompatibleServer /\ position > 0 /\ position' = position + 1
      /\ StillCovers /\ (Sparse(blocks) => Sparse(blocks'))
  BY <1>2, AdvanceStep
<1>4. position \in Nat /\ position' \in Nat /\ position <= position' /\ ~incompatibleServer
  BY <1>2, <1>3 DEF SafeNow, Safe, Conceals, Plays
<1>5. HandedBefore'
  BY <1>3, <1>4, HandedMoves
<1>6. handed' = it /\ handed' # handed /\ UNCHANGED packetsToDrop
  BY <1>4 DEF FecInv, HandedBefore, Item, Items, HandOver
<1>7. UNCHANGED <<sent, lost>> /\ (NoReordering' => NoReordering)
  BY DEF netVars, NoReordering
<1>8. ASSUME NoReordering' PROVE packetsToDrop' = 0 /\ Sparse(blocks') /\ AllUsed'
  <2>1. packetsToDrop = 0 /\ Sparse(blocks) /\ AllUsed
    BY <1>3, <1>4, <1>7, <1>8 DEF FecInv
  <2>2. AllUsed'
    BY <1>1, <1>3, <1>4, <1>7, <2>1, UsedStill
  <2>3. QED
    BY <1>3, <1>6, <2>1, <2>2
<1>9. FecInv'
  BY <1>5, <1>8 DEF FecInv
<1>10. FecUsed
  BY <1>6, ConcealedLost DEF FecUsed, Skips
<1> QED
  BY <1>9, <1>10

LEMMA FecStep ==
  ASSUME AudioInv, FecInv, Unambiguous, [Next]_vars
  PROVE  FecInv' /\ (FecUsed \/ UNCHANGED vars)
<1>1. position \in Nat /\ sent \in Nat /\ NetOK
  BY DEF AudioInv, SafeNow, Safe, NetOK
<1>2. ASSUME UNCHANGED <<position, handed>> PROVE FecUsed
  BY <1>1, <1>2 DEF FecUsed, Skips
<1>3. ASSUME UNCHANGED <<queueVars, handed>>, NoReordering' => NoReordering,
             packetsToDrop = 0 => packetsToDrop' = 0,
             NoReordering' /\ ~incompatibleServer /\ position > 0 => AllUsed'
      PROVE  FecInv' /\ FecUsed
  <2>1. UNCHANGED <<position, incompatibleServer, blocks, handed>>
    BY <1>3 DEF queueVars, seqVars
  <2>2. HandedBefore'
    BY <2>1 DEF FecInv, HandedBefore
  <2>3. FecInv'
    BY <1>3, <2>1, <2>2 DEF FecInv
  <2>4. QED
    BY <1>2, <2>1, <2>3
<1>4. ASSUME UNCHANGED <<queueVars, sent, lost, faults>>,
             NoReordering' /\ ~incompatibleServer /\ position > 0
      PROVE  AllUsed'
  BY <1>4 DEF AllUsed, FecInv, NoReordering, queueVars, seqVars
<1>5. CASE Lose
  <2>1. UNCHANGED <<queueVars, handed, packetsToDrop>> /\ (NoReordering' => NoReordering)
    BY <1>1, <1>5 DEF Lose, threadVars, NoReordering, NetOK
  <2>2. NoReordering' /\ ~incompatibleServer /\ position > 0 => AllUsed'
    BY <1>1, <1>5, <2>1, UsedOrLost DEF FecInv
  <2>3. QED
    BY <1>3, <2>1, <2>2
<1>6. CASE Delay
  <2>1. UNCHANGED <<queueVars, handed, packetsToDrop>>
    BY <1>6 DEF Delay, threadVars
  <2>2. ~NoReordering'
    BY <1>1, <1>6 DEF Delay, NoReordering, NetOK
  <2>3. QED
    BY <1>3, <2>1, <2>2
<1>7. CASE ReceiveTimeout
  <2>1. UNCHANGED <<queueVars, handed, sent, lost, faults>> /\ packetsToDrop' \in {0, packetsToDrop}
    BY <1>7 DEF ReceiveTimeout, netVars
  <2>2. QED
    BY <1>3, <1>4, <2>1 DEF NoReordering
<1>8. ASSUME NEW n \in held \cup {sent}, SkipBacklog(n) PROVE FecInv' /\ FecUsed
  <2>1. UNCHANGED <<queueVars, handed>> /\ packetsToDrop > 0 /\ Arrives(n)
    BY <1>8 DEF SkipBacklog
  <2>2. NoReordering' => NoReordering
    BY <1>1, <2>1, Arrival
  <2>3. ~(NoReordering' /\ ~incompatibleServer /\ position > 0)
    BY <2>1, <2>2 DEF FecInv
  <2>4. packetsToDrop # 0
    BY <2>1
  <2>5. QED
    BY <1>3, <2>1, <2>2, <2>3, <2>4
<1>9. ASSUME NEW n \in held \cup {sent}, AddAndHandOver(n) PROVE FecInv' /\ FecUsed
  BY <1>9, HandOverFec
<1>10. ASSUME NEW n \in held \cup {sent}, NEW waited \in BOOLEAN, AddAside(n, waited)
       PROVE  FecInv' /\ FecUsed
  BY <1>10, AsideFec
<1>11. CASE GetPlaceholder
  <2> DEFINE it == Item("lost", position)
  <2>1. Conceals /\ Advance /\ HandOver(it) /\ UNCHANGED netVars
    BY <1>11 DEF GetPlaceholder
  <2>2. it \in Items /\ it.id = position
    BY <2>1, Gotten DEF Item
  <2> HIDE DEF it
  <2>3. QED
    BY <2>1, <2>2, GetFec
<1>12. CASE GetPacket
  <2> DEFINE it == Item("data", Head(blocks).first + Head(blocks).nextDataPacketIndex)
  <2>1. Plays /\ Advance /\ HandOver(it) /\ UNCHANGED netVars
    BY <1>12 DEF GetPacket
  <2>2. it \in Items /\ it.id = position /\ it.kind # "lost"
    BY <2>1, Gotten DEF Item
  <2> HIDE DEF it
  <2>3. QED
    BY <2>1, <2>2, GetFec
<1>13. CASE NothingMore
  <2>1. UNCHANGED <<position, incompatibleServer, blocks, handed, packetsToDrop, sent, lost, faults>>
    BY <1>13 DEF NothingMore, Drained, seqVars, threadVars, netVars
  <2>2. FecInv'
    BY <2>1 DEF FecInv, HandedBefore, NoReordering, AllUsed
  <2>3. QED
    BY <1>2, <2>1, <2>2
<1>14. CASE Decode
  <2>1. UNCHANGED <<queueVars, handed, packetsToDrop, sent, lost, faults>>
    BY <1>14 DEF Decode, netVars
  <2>2. QED
    BY <1>3, <1>4, <2>1 DEF NoReordering
<1>15. CASE UNCHANGED vars
  <2>1. UNCHANGED <<queueVars, handed, packetsToDrop, sent, lost, faults>>
    BY <1>15 DEF vars, threadVars, netVars
  <2>2. QED
    BY <1>3, <1>4, <2>1 DEF NoReordering
<1>16. CASE Over
  BY <1>15, <1>16 DEF Over
<1> QED
  BY <1>5, <1>6, <1>7, <1>8, <1>9, <1>10, <1>11, <1>12, <1>13, <1>14, <1>15, <1>16 DEF Next

(* Without reordering, parity does what it is for: completeFecBlock()      *)
(* repairs every block that can be repaired, and only blocks of which      *)
(* nothing arrived are skipped.                                            *)
THEOREM ParitySuffices == Spec /\ []Unambiguous => FecSuffices
<1>1. Init => FecInv
  BY FecInit
<1>2. AudioInv /\ FecInv /\ Unambiguous /\ [Next]_vars => FecInv'
  BY FecStep
<1>3. AudioInv /\ FecInv /\ Unambiguous /\ [Next]_vars =>
        [NoReordering /\ ~incompatibleServer =>
           /\ handed' # handed /\ handed'.kind = "lost" =>
                Cardinality(LostOf(Head(blocks).first)) > FecShards
           /\ Skips => \A first \in position .. position' - 1 :
                          first % DataShards = 0 =>
                            Cardinality(LostOf(first)) = Total]_vars
  BY FecStep DEF FecUsed
<1> QED
  BY <1>1, <1>2, <1>3, AudioInvariant, PTL DEF Spec, FecSuffices
=============================================================================
