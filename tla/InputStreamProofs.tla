-------------------------- MODULE InputStreamProofs --------------------------
(***************************************************************************)
(* Proofs about InputStream, for any clients and events, any bound of the  *)
(* queue and the free list, any range of a motion and any wheel delta.     *)
(***************************************************************************)
EXTENDS InputStream, FiniteSetTheorems, TLAPS

Elems(s) == {s[i] : i \in 1..Len(s)}
Distinct(s) == \A i, j \in 1..Len(s) : s[i] = s[j] => i = j

(* The clients that have a holder in their hands, and these holders.       *)
Offering == {c \in Clients : client[c].pc = "offer"}
InHands == {client[c].holder : c \in Offering}

Motion(e) == e.kind = "move" => Len(e.val) = 1 /\ e.val[1] \in DeltaMin..DeltaMax

(* The types of the variables:                                             *)
QueueTypes ==
  /\ packetQueue \in Seq(Holders) /\ Len(packetQueue) <= QueueBound
  /\ freeList \in Seq(Holders) /\ Len(freeList) <= QueueBound
  /\ draining \in BOOLEAN /\ freeListShut \in BOOLEAN /\ initialized \in BOOLEAN
  /\ stopper \in {"streaming", "interrupted", "refusing", "freeListShut", "joining", "stopped",
                  "destroyed"}
  /\ transit \in {"none", "unacknowledged", "acknowledged"}

PacketTypes ==
  /\ packet \in [Holders -> Contents]
  /\ \A h \in Holders : Motion(packet[h])

ClientTypes ==
  /\ client \in [Clients -> [pc : {"idle", "allocate", "offer"}, event : Contents,
                             holder : Holders \cup {0}]]
  /\ \A c \in Clients : client[c].event.kind # "freed" /\ Motion(client[c].event)
  /\ \A c \in Offering : client[c].holder # 0

SenderTypes ==
  /\ sender \in [pc : {"wait", "peek", "poll", "send", "transit", "split", "drained", "failed"},
                 holder : Holders \cup {0}, peeked : Holders \cup {0}, total : Int,
                 rest : Seq(Int)]
  /\ sender.holder = 0 <=> sender.pc \in {"wait", "drained", "failed"}
  /\ stopper \in {"stopped", "destroyed"} => sender.pc \in {"drained", "failed"}

Types == QueueTypes /\ PacketTypes /\ ClientTypes /\ SenderTypes

(* The batched delta is what was asked for and not yet queued, in the      *)
(* direction of the scrolls; a notch that is on its way into the queue is  *)
(* still part of it.                                                       *)
Notch(d) == IF d > 0 THEN WheelDelta ELSE -WheelDelta
Whole(d) == d >= WheelDelta \/ -d >= WheelDelta
ScrollState ==
  /\ batchedScrollDelta \in Int
  /\ wheel \in [asked : Int, accepted : Int, exact : BOOLEAN]
  /\ batchedScrollDelta = wheel.asked - wheel.accepted
  /\ wheel.asked >= 0 => batchedScrollDelta >= 0 /\ wheel.accepted >= 0
  /\ wheel.asked <= 0 => batchedScrollDelta <= 0 /\ wheel.accepted <= 0
  /\ wheel.exact => ~Whole(batchedScrollDelta)
  /\ \A c \in Clients :
       client[c].event.kind = "scroll" =>
         /\ c \in Scrollers /\ client[c].event.val = <<Notch(batchedScrollDelta)>>
         /\ Whole(batchedScrollDelta)

(* The packet that was peeked at is still the first of the queue.          *)
PeekedFirst ==
  sender.pc = "poll" =>
    /\ packetQueue # <<>> /\ sender.peeked = Head(packetQueue)
    /\ packet[sender.peeked].kind = packet[sender.holder].kind

(* A holder is in one place only,                                          *)
Apart ==
  /\ Distinct(packetQueue) /\ Distinct(freeList)
  /\ Elems(packetQueue) \cap Elems(freeList) = {}
  /\ InHands \cap (Elems(packetQueue) \cup Elems(freeList)) = {}
  /\ sender.holder \notin Elems(packetQueue) \cup Elems(freeList) \cup InHands
  /\ \A c, d \in Offering : client[c].holder = client[d].holder => c = d

(* and in one exactly when it is allocated.                                *)
Accounted ==
  \A h \in Holders :
    packet[h] # Freed <=>
      h \in Elems(packetQueue) \cup Elems(freeList) \cup InHands \cup {sender.holder}

IInv == Types /\ ScrollState /\ PeekedFirst /\ Apart /\ Accounted

-----------------------------------------------------------------------------
(* Sequences without repetition.                                           *)

LEMMA Appended ==
  ASSUME NEW S, NEW s \in Seq(S), NEW e \in S
  PROVE  /\ Append(s, e) \in Seq(S) /\ Len(Append(s, e)) = Len(s) + 1
         /\ Elems(Append(s, e)) = Elems(s) \cup {e}
         /\ Distinct(s) /\ e \notin Elems(s) => Distinct(Append(s, e))
         /\ s # <<>> => Append(s, e) # <<>> /\ Head(Append(s, e)) = Head(s)
<1>1. /\ Append(s, e) \in Seq(S) /\ Len(Append(s, e)) = Len(s) + 1 /\ Len(s) \in Nat
      /\ \A i \in 1..Len(s) : Append(s, e)[i] = s[i]
      /\ Append(s, e)[Len(s) + 1] = e
  OBVIOUS
<1>2. 1..(Len(s) + 1) = 1..Len(s) \cup {Len(s) + 1}
  BY <1>1
<1>3. Elems(Append(s, e)) = Elems(s) \cup {e}
  BY <1>1, <1>2 DEF Elems
<1>4. ASSUME Distinct(s), e \notin Elems(s) PROVE Distinct(Append(s, e))
  <2>1. ASSUME NEW i \in 1..Len(s) PROVE s[i] # e
    BY <1>4 DEF Elems
  <2> QED
    BY <1>1, <1>2, <1>4, <2>1 DEF Distinct
<1>5. s # <<>> => Append(s, e) # <<>> /\ Head(Append(s, e)) = Head(s)
  BY <1>1
<1> QED
  BY <1>1, <1>3, <1>4, <1>5

LEMMA Taken ==
  ASSUME NEW S, NEW s \in Seq(S), s # <<>>
  PROVE  /\ Tail(s) \in Seq(S) /\ Len(Tail(s)) = Len(s) - 1 /\ Len(s) \in Nat
         /\ Head(s) \in S /\ Head(s) \in Elems(s)
         /\ Distinct(s) => Distinct(Tail(s)) /\ Elems(Tail(s)) = Elems(s) \ {Head(s)}
<1>1. /\ Tail(s) \in Seq(S) /\ Len(Tail(s)) = Len(s) - 1 /\ Len(s) \in Nat /\ Len(s) >= 1
      /\ Head(s) \in S /\ Head(s) = s[1]
      /\ \A i \in 1..Len(Tail(s)) : Tail(s)[i] = s[i + 1]
  OBVIOUS
<1>2. ASSUME NEW i \in 1..Len(Tail(s)) PROVE i + 1 \in 1..Len(s) /\ i + 1 # 1
  BY <1>1
<1>3. ASSUME NEW i \in 1..Len(s), i # 1 PROVE i - 1 \in 1..Len(Tail(s)) /\ (i - 1) + 1 = i
  BY <1>1, <1>3
<1>4. 1 \in 1..Len(s)
  BY <1>1
<1>5. Head(s) \in Elems(s)
  BY <1>1, <1>4 DEF Elems
<1>6. ASSUME Distinct(s) PROVE Distinct(Tail(s))
  <2> SUFFICES ASSUME NEW i \in 1..Len(Tail(s)), NEW j \in 1..Len(Tail(s)),
                      Tail(s)[i] = Tail(s)[j]
               PROVE  i = j
    BY DEF Distinct
  <2>1. i + 1 = j + 1
    BY <1>1, <1>2, <1>6 DEF Distinct
  <2> QED
    BY <2>1
<1>7. ASSUME Distinct(s) PROVE Elems(Tail(s)) = Elems(s) \ {Head(s)}
  <2>1. ASSUME NEW i \in 1..Len(Tail(s)) PROVE Tail(s)[i] \in Elems(s) \ {Head(s)}
    <3>1. Tail(s)[i] = s[i + 1] /\ i + 1 \in 1..Len(s) /\ i + 1 # 1
      BY <1>1, <1>2
    <3> QED
      BY <1>1, <1>4, <1>7, <3>1 DEF Distinct, Elems
  <2>2. ASSUME NEW i \in 1..Len(s), s[i] # Head(s) PROVE s[i] \in Elems(Tail(s))
    <3>1. i # 1
      BY <1>1, <2>2
    <3>2. i - 1 \in 1..Len(Tail(s)) /\ s[i] = Tail(s)[i - 1]
      BY <1>1, <1>3, <3>1
    <3> QED
      BY <3>2 DEF Elems
  <2> QED
    BY <2>1, <2>2 DEF Elems
<1> QED
  BY <1>1, <1>5, <1>6, <1>7

LEMMA ElemsIn ==
  ASSUME NEW S, NEW s \in Seq(S)
  PROVE  Elems(s) \subseteq S
BY DEF Elems

LEMMA Empty == Elems(<<>>) = {} /\ Distinct(<<>>) /\ \A S : <<>> \in Seq(S)
BY DEF Elems, Distinct

-----------------------------------------------------------------------------
(* The initial state.                                                      *)

LEMMA Revalued ==
  ASSUME NEW p \in Contents, NEW v \in Seq(Int)
  PROVE  /\ [p EXCEPT !.val = v] \in Contents
         /\ [p EXCEPT !.val = v].kind = p.kind /\ [p EXCEPT !.val = v].val = v
BY DEF Contents

LEMMA ContentsFacts ==
  /\ None \in Contents /\ Freed \in Contents /\ Blank \in Contents
  /\ None.kind = "none" /\ Freed.kind = "freed" /\ Blank.kind = "blank"
  /\ \A p \in Contents : p.val \in Seq(Int)
  /\ \A e \in Sent : e \in Contents /\ Motion(e) /\ e.kind \notin {"freed", "scroll", "none"}
  /\ \A n \in Int : Event("scroll", "", <<n>>) \in Contents
<1>1. \A n \in Int : <<n>> \in Seq(Int)
  OBVIOUS
<1>2. \A p \in Contents : p.val \in Seq(Int)
  BY DEF Contents
<1>3. /\ None \in Contents /\ Freed \in Contents /\ Blank \in Contents
      /\ None.kind = "none" /\ Freed.kind = "freed" /\ Blank.kind = "blank"
  BY DEF Contents, None, Freed, Blank, Event
<1>4. \A e \in Sent : e \in Contents /\ Motion(e) /\ e.kind \notin {"freed", "scroll", "none"}
  BY EventsAssumption DEF Motion, Kinds
<1>5. \A n \in Int : Event("scroll", "", <<n>>) \in Contents
  BY <1>1 DEF Contents, Event
<1> QED
  BY <1>2, <1>3, <1>4, <1>5

LEMMA InitIInv == Init => IInv
<1> SUFFICES ASSUME Init PROVE IInv
  OBVIOUS
<1> USE InputAssumption
<1>1. PICK e \in Early :
        /\ packetQueue = IF e = None THEN <<>> ELSE <<1>>
        /\ packet = [h \in Holders |-> IF h = 1 /\ e # None THEN e ELSE Freed]
  BY DEF Init
<1>2. e \in Contents /\ Motion(e) /\ e # Freed
  <2>1. CASE e = None
    BY <2>1, ContentsFacts DEF Motion
  <2>2. CASE e # None
    <3>1. e \in Sent
      BY <1>1, <2>2 DEF Sent
    <3>2. e \in Contents /\ Motion(e) /\ e.kind # "freed"
      BY <3>1, ContentsFacts
    <3> QED
      BY <3>2, ContentsFacts
  <2> QED
    BY <2>1, <2>2
<1>3. freeList = <<>> /\ sender = Waiting /\ client = [c \in Clients |-> Idle]
  BY DEF Init
<1>4. /\ packetQueue \in Seq(Holders) /\ Len(packetQueue) <= 1 /\ Distinct(packetQueue)
      /\ Elems(packetQueue) = IF e = None THEN {} ELSE {1}
  <2>1. CASE e = None
    BY <1>1, <2>1, Empty
  <2>2. CASE e # None
    BY <1>1, <2>2 DEF Elems, Distinct
  <2> QED
    BY <2>1, <2>2
<1>5. Offering = {} /\ InHands = {}
  BY <1>3 DEF Offering, InHands, Idle
<1>6. QueueTypes
  <2>1. freeList \in Seq(Holders) /\ Len(freeList) <= QueueBound
    BY <1>3, Empty
  <2>2. Len(packetQueue) <= QueueBound
    BY <1>4
  <2>3. /\ draining \in BOOLEAN /\ freeListShut \in BOOLEAN /\ initialized \in BOOLEAN
        /\ stopper = "streaming" /\ transit = "none"
    BY DEF Init
  <2> QED
    BY <1>4, <2>1, <2>2, <2>3 DEF QueueTypes
<1>7. PacketTypes
  BY <1>1, <1>2, ContentsFacts DEF PacketTypes, Motion, Freed, Event
<1>8. ClientTypes
  BY <1>3, <1>5, ContentsFacts DEF ClientTypes, Idle, Motion, None, Event
<1>9. SenderTypes
  BY <1>3 DEF Init, SenderTypes, Waiting
<1>s. ScrollState
  <2>1. batchedScrollDelta = 0 /\ wheel = [asked |-> 0, accepted |-> 0, exact |-> TRUE]
    BY DEF Init
  <2>2. \A c \in Clients : client[c].event.kind # "scroll"
    BY <1>3, ContentsFacts DEF Idle
  <2> QED
    BY <2>1, <2>2 DEF ScrollState, Whole
<1>10. PeekedFirst
  BY <1>3 DEF PeekedFirst, Waiting
<1>11. Apart
  BY <1>3, <1>4, <1>5, Empty DEF Apart, Waiting
<1>12. Accounted
  BY <1>1, <1>2, <1>3, <1>4, <1>5, Empty DEF Accounted, Waiting
<1> QED
  BY <1>6, <1>7, <1>8, <1>9, <1>s, <1>10, <1>11, <1>12 DEF IInv, Types

-----------------------------------------------------------------------------
(* What is freed, what is taken.                                        *)

LEMMA Hands ==
  ASSUME Types
  PROVE  /\ \A c \in Offering : client[c].holder \in Holders
         /\ \A c \in Clients : client[c].event \in Contents
         /\ sender.pc \notin {"wait", "drained", "failed"} => sender.holder \in Holders
         /\ 0 \notin Holders
BY InputAssumption DEF Types, ClientTypes, SenderTypes, Offering

LEMMA Freeing ==
  ASSUME Types, NEW h \in Holders, NEW p \in [Holders -> Contents],
         freeList' = ListWith(h), packet' = Without(p, h)
  PROVE  /\ freeList' \in Seq(Holders) /\ Len(freeList') <= QueueBound
         /\ h \notin Elems(freeList) /\ Distinct(freeList) => Distinct(freeList')
         /\ Elems(freeList') \in {Elems(freeList), Elems(freeList) \cup {h}}
         /\ packet' \in [Holders -> Contents]
         /\ \A k \in Holders \ {h} : packet'[k] = p[k]
         /\ packet'[h] \in {Blank, Freed}
         /\ h \notin Elems(freeList) => (packet'[h] # Freed <=> h \in Elems(freeList'))
<1>1. freeList \in Seq(Holders) /\ Len(freeList) <= QueueBound /\ QueueBound \in Nat
  BY InputAssumption DEF Types, QueueTypes
<1>2. CASE Keeps(h)
  <2>1. freeList' = Append(freeList, h) /\ packet' = [p EXCEPT ![h] = Blank]
    BY <1>2 DEF ListWith, Without
  <2>2. Len(freeList) < QueueBound /\ Len(freeList) \in Nat
    BY <1>1, <1>2 DEF Keeps
  <2>3. /\ freeList' \in Seq(Holders) /\ Len(freeList') <= QueueBound
        /\ h \notin Elems(freeList) /\ Distinct(freeList) => Distinct(freeList')
        /\ Elems(freeList') = Elems(freeList) \cup {h}
    BY <1>1, <2>1, <2>2, Appended
  <2>4. /\ packet' \in [Holders -> Contents] /\ packet'[h] = Blank /\ Blank # Freed
        /\ \A k \in Holders \ {h} : packet'[k] = p[k]
    BY <2>1, ContentsFacts
  <2> QED
    BY <2>3, <2>4
<1>3. CASE ~Keeps(h)
  BY <1>1, <1>3, ContentsFacts DEF ListWith, Without
<1> QED
  BY <1>2, <1>3

LEMMA FreshHolder ==
  ASSUME \E h \in Holders : packet[h] = Freed
  PROVE  Malloc \in Holders /\ packet[Malloc] = Freed
BY DEF Malloc

(* The senders' holder, and the packet that is merged into it.             *)
LEMMA Merging ==
  ASSUME Types, PeekedFirst, Poll
  PROVE  /\ sender.holder \in Holders /\ Head(packetQueue) \in Holders
         /\ sender.peeked = Head(packetQueue) /\ packetQueue # <<>>
         /\ sender' \in [pc : {"peek"}, holder : {sender.holder, Head(packetQueue)},
                         peeked : {0}, total : Int, rest : {sender.rest}]
         /\ \E p \in [Holders -> Contents], spare \in {sender.holder, Head(packetQueue)} :
              /\ {spare, sender'.holder} = {sender.holder, Head(packetQueue)}
              /\ \A h \in Holders : (p[h] = Freed <=> packet[h] = Freed) /\ Motion(p[h])
              /\ freeList' = ListWith(spare) /\ packet' = Without(p, spare)
<1> DEFINE polled == Head(packetQueue)
           old == packet[sender.holder]
           new == packet[sender.peeked]
           spare == IF old.kind = "position" THEN sender.holder ELSE polled
           p == IF old.kind = "controller" THEN [packet EXCEPT ![sender.holder].val = new.val]
                ELSE packet
<1>1. /\ packetQueue # <<>> /\ packetQueue \in Seq(Holders) /\ sender.pc = "poll"
      /\ sender' = [sender EXCEPT !.pc = "peek", !.peeked = 0,
              !.holder = IF old.kind = "position" THEN polled ELSE @,
              !.total = IF old.kind = "move" THEN @ + new.val[1] ELSE @]
      /\ freeList' = ListWith(spare) /\ packet' = Without(p, spare)
  BY DEF Poll, Types, QueueTypes
<1>2. polled \in Holders
  BY <1>1, Taken
<1>3. sender.holder \in Holders /\ sender.peeked = polled /\ new.kind = old.kind
  BY <1>1, <1>2, Hands DEF PeekedFirst
<1>4. old \in Contents /\ new \in Contents /\ Motion(old) /\ Motion(new)
  BY <1>2, <1>3 DEF Types, PacketTypes
<1>5. /\ p \in [Holders -> Contents]
      /\ \A h \in Holders : (p[h] = Freed <=> packet[h] = Freed) /\ Motion(p[h])
  <2>1. CASE old.kind = "controller"
    <3>1. /\ [old EXCEPT !.val = new.val] \in Contents
          /\ [old EXCEPT !.val = new.val].kind = "controller"
      BY <1>4, <2>1, Revalued, ContentsFacts
    <3>2. p = [packet EXCEPT ![sender.holder] = [old EXCEPT !.val = new.val]]
      BY <2>1
    <3> QED
      BY <1>3, <2>1, <3>1, <3>2, ContentsFacts DEF Types, PacketTypes, Motion
  <2>2. CASE old.kind # "controller"
    BY <2>2 DEF Types, PacketTypes
  <2> QED
    BY <2>1, <2>2
<1>6. old.kind = "move" => new.val[1] \in Int
  BY <1>3, <1>4, InputAssumption DEF Motion
<1>7. sender' \in [pc : {"peek"}, holder : {sender.holder, polled}, peeked : {0},
                   total : Int, rest : {sender.rest}]
  <2> DEFINE h == IF old.kind = "position" THEN polled ELSE sender.holder
             t == IF old.kind = "move" THEN sender.total + new.val[1] ELSE sender.total
  <2>1. sender' = [sender EXCEPT !.pc = "peek", !.peeked = 0, !.holder = h, !.total = t]
    BY <1>1
  <2>2. sender.total \in Int
    BY DEF Types, SenderTypes
  <2>3. t \in Int /\ h \in {sender.holder, polled}
    BY <1>6, <2>2
  <2> HIDE DEF h, t
  <2> QED
    BY <2>1, <2>3 DEF Types, SenderTypes
<1>8. spare \in {sender.holder, polled} /\ {spare, sender'.holder} = {sender.holder, polled}
  BY <1>1 DEF Types, SenderTypes
<1> QED
  BY <1>1, <1>2, <1>3, <1>5, <1>7, <1>8

(* A 16-bit cast gives a 16-bit value.                                     *)
LEMMA InRange ==
  ASSUME NEW n \in Int
  PROVE  Short(n) \in DeltaMin..DeltaMax
<1>1. DeltaMax - DeltaMin + 1 \in Nat /\ DeltaMax - DeltaMin + 1 > 0 /\ n - DeltaMin \in Int
  BY InputAssumption
<1>2. (n - DeltaMin) % (DeltaMax - DeltaMin + 1) \in 0..(DeltaMax - DeltaMin)
  BY <1>1, InputAssumption
<1> QED
  BY <1>2, InputAssumption DEF Short

-----------------------------------------------------------------------------
(* The arithmetic of scrolls.                                              *)

LEMMA AbsFacts ==
  ASSUME NEW n \in Int
  PROVE  /\ Abs(n) = IF n >= 0 THEN n ELSE -n
         /\ Sign(n) * WheelDelta =
              IF n > 0 THEN WheelDelta ELSE IF n < 0 THEN -WheelDelta ELSE 0
BY InputAssumption DEF Abs, Sign

LEMMA ProductFacts ==
  ASSUME NEW m \in Int, NEW n \in Int
  PROVE  m * n < 0 <=> (m > 0 /\ n < 0) \/ (m < 0 /\ n > 0)
<1>1. CASE m > 0
  <2>1. CASE n > 0
    BY <1>1, <2>1
  <2>2. CASE n < 0
    BY <1>1, <2>2
  <2>3. CASE n = 0
    BY <1>1, <2>3
  <2> QED
    BY <2>1, <2>2, <2>3
<1>2. CASE m < 0
  <2>1. CASE n > 0
    BY <1>2, <2>1
  <2>2. CASE n < 0
    BY <1>2, <2>2
  <2>3. CASE n = 0
    BY <1>2, <2>3
  <2> QED
    BY <2>1, <2>2, <2>3
<1>3. CASE m = 0
  BY <1>3
<1> QED
  BY <1>1, <1>2, <1>3

LEMMA ScrollOnFacts ==
  ASSUME NEW d \in Int
  PROVE  /\ Notch(d) \in Int
         /\ Whole(d) => ScrollOn(d) = [pc |-> "allocate",
                                       event |-> Event("scroll", "", <<Notch(d)>>), holder |-> 0]
         /\ ~Whole(d) => ScrollOn(d) = Idle
<1>1. WheelDelta \in Nat /\ WheelDelta > 0
  BY InputAssumption
<1>2. Whole(d) <=> Abs(d) >= WheelDelta
  BY <1>1, AbsFacts DEF Whole
<1>3. Whole(d) => Sign(d) * WheelDelta = Notch(d)
  BY <1>1, AbsFacts DEF Whole, Notch
<1>4. Notch(d) \in Int
  BY <1>1 DEF Notch
<1> QED
  BY <1>2, <1>3, <1>4 DEF ScrollOn

(* A client that starts a notch, or is done with its call.                 *)
LEMMA Started ==
  ASSUME NEW d \in Int
  PROVE  /\ ScrollOn(d) \in [pc : {"idle", "allocate"}, event : Contents, holder : {0}]
         /\ ScrollOn(d).event.kind # "freed" /\ Motion(ScrollOn(d).event)
<1>2. Idle \in [pc : {"idle", "allocate"}, event : Contents, holder : {0}]
  BY ContentsFacts DEF Idle
<1>3. Idle.event.kind = "none"
  BY ContentsFacts DEF Idle
<1>4. ASSUME NEW n \in Int
      PROVE  LET start == [pc |-> "allocate", event |-> Event("scroll", "", <<n>>),
                           holder |-> 0]
             IN  /\ start \in [pc : {"idle", "allocate"}, event : Contents, holder : {0}]
                 /\ start.event.kind = "scroll"
  <2>1. Event("scroll", "", <<n>>) \in Contents /\ Event("scroll", "", <<n>>).kind = "scroll"
    BY ContentsFacts DEF Event
  <2> QED
    BY <2>1
<1> QED
  BY <1>2, <1>3, <1>4, ScrollOnFacts DEF Motion

(* Whether it is done shows whether a whole notch is left.                 *)
LEMMA StartedOn ==
  ASSUME NEW d \in Int
  PROVE  /\ ScrollOn(d).pc = "idle" => ~Whole(d)
         /\ ScrollOn(d).event.kind = "scroll" =>
              ScrollOn(d).event.val = <<Notch(d)>> /\ Whole(d)
<1>1. Idle.event.kind = "none"
  BY ContentsFacts DEF Idle
<1>2. CASE Whole(d)
  <2>1. \A e : LET start == [pc |-> "allocate", event |-> e, holder |-> 0]
               IN  start.pc = "allocate" /\ start.event = e
    OBVIOUS
  <2>2. Event("scroll", "", <<Notch(d)>>).val = <<Notch(d)>>
    BY DEF Event
  <2> QED
    BY <1>2, <2>1, <2>2, ScrollOnFacts, Zenon
<1>3. CASE ~Whole(d)
  BY <1>1, <1>3, ScrollOnFacts
<1> QED
  BY <1>2, <1>3

LEMMA OneScroller ==
  ASSUME ScrollState
  PROVE  \A c \in Scrollers : \A d \in Clients \ {c} : client[d].event.kind # "scroll"
BY InputAssumption DEF ScrollState

-----------------------------------------------------------------------------
(* IInv is inductive: one lemma for each of its parts.                     *)

(* The queue and the free list keep to their bounds.                       *)
LEMMA QueueTypesStep ==
  ASSUME IInv, [Next]_vars
  PROVE  QueueTypes'
<1> USE InputAssumption DEF queueVars, clientVars, sendVars, stopVars, controlVars
<1>0. Scrollers \subseteq Clients
  BY InputAssumption
<1>pt. packet \in [Holders -> Contents]
  BY DEF IInv, Types, PacketTypes
<1>1. ASSUME NEW c \in Clients, AllocateRecycled(c)
     PROVE  QueueTypes'
  BY <1>1, Taken DEF AllocateRecycled, Fill, IInv, Types, QueueTypes
<1>2. ASSUME NEW c \in Clients, Offer(c)
     PROVE  QueueTypes'
  BY <1>2, Appended, Hands DEF Offer, Offering, IInv, Types, QueueTypes
<1>3. ASSUME NEW c \in Clients, OfferFails(c)
     PROVE  QueueTypes'
  BY <1>3, Freeing, Hands, <1>pt
  DEF OfferFails, FreePacketHolder, Offering, IInv, Types, QueueTypes
<1>4. CASE Take
  BY <1>4, Taken DEF Take, IInv, Types, QueueTypes
<1>5. CASE Poll
  <2>1. /\ packetQueue' = Tail(packetQueue) /\ packetQueue # <<>>
        /\ UNCHANGED <<draining, freeListShut, initialized, stopper, transit>>
    BY <1>5 DEF Poll
  <2>2. PICK p \in [Holders -> Contents], spare \in Holders :
          freeList' = ListWith(spare) /\ packet' = Without(p, spare)
    BY <1>5, Merging DEF IInv
  <2>3. freeList' \in Seq(Holders) /\ Len(freeList') <= QueueBound
    BY <2>2, Freeing DEF IInv
  <2> QED
    BY <2>1, <2>3, Taken DEF IInv, Types, QueueTypes
<1>6. CASE Send
  BY <1>6, Freeing, Hands, <1>pt
  DEF Send, FreePacketHolder, Done, SendMessage, IInv, Types, QueueTypes
<1>7. CASE SendFails
  BY <1>7, Freeing, Hands, <1>pt
  DEF SendFails, FreePacketHolder, Done, IInv, Types, QueueTypes
<1>8. CASE EndText
  BY <1>8, Freeing, Hands, <1>pt
  DEF EndText, FreePacketHolder, Done, IInv, Types, QueueTypes
<1>9. CASE SendCodePoint
  BY <1>9 DEF SendCodePoint, SendMessage, IInv, Types, QueueTypes
<1>10. CASE Destroy
  BY <1>10, Empty DEF Destroy, IInv, Types, QueueTypes
<1>11. ASSUME NEW c \in Clients, NEW e \in Events[c], Call(c, e)
     PROVE  QueueTypes'
  BY <1>11 DEF Call, IInv, Types, QueueTypes
<1>12. ASSUME NEW c \in Scrollers, NEW amount \in Amounts, Scroll(c, amount)
     PROVE  QueueTypes'
  BY <1>12 DEF Scroll, IInv, Types, QueueTypes
<1>13. ASSUME NEW c \in Clients, AllocateFails(c)
     PROVE  QueueTypes'
  BY <1>13 DEF AllocateFails, IInv, Types, QueueTypes
<1>14. ASSUME NEW c \in Clients, AllocateNew(c)
     PROVE  QueueTypes'
  BY <1>14 DEF AllocateNew, Fill, IInv, Types, QueueTypes
<1>15. CASE EndsDrained \/ Peek \/ EndBatch \/ TextWaited
  BY <1>15 DEF EndsDrained, Peek, EndBatch, TextWaited, IInv, Types, QueueTypes
<1>16. CASE Interrupt \/ RefuseCalls \/ ShutFreeList \/ Drain \/ Join
  BY <1>16
  DEF Interrupt, RefuseCalls, ShutFreeList, Drain, Join, IInv, Types, QueueTypes
<1>17. CASE HostAcknowledges \/ ReceiveThreadServes \/ ReceiveThreadEnds \/ Ping
          \/ PeerLost
  BY <1>17
  DEF HostAcknowledges, ReceiveThreadServes, ReceiveThreadEnds, Ping, PeerLost,
      IInv, Types, QueueTypes
<1>18. CASE UNCHANGED vars
  BY <1>18 DEF vars, IInv, Types, QueueTypes
<1> QED
  BY <1>0, <1>1, <1>2, <1>3, <1>4, <1>5, <1>6, <1>7, <1>8, <1>9, <1>10, <1>11,
     <1>12, <1>13, <1>14, <1>15, <1>16, <1>17, <1>18
  DEF Next, ClientStep, SenderStep, StopStep, ReceiveStep, Over

(* Every holder has contents, and no motion is out of range.               *)
LEMMA PacketTypesStep ==
  ASSUME IInv, [Next]_vars
  PROVE  PacketTypes'
<1> USE DEF queueVars, clientVars, sendVars, stopVars, controlVars
<1>0. Scrollers \subseteq Clients
  BY InputAssumption
<1>b. Motion(Blank) /\ Motion(Freed)
  BY DEF Motion, Blank, Freed, Event
<1>q. freeList \in Seq(Holders)
  BY DEF IInv, Types, QueueTypes
<1>1. ASSUME NEW c \in Clients, AllocateRecycled(c)
     PROVE  PacketTypes'
  BY <1>1, Taken, <1>q, Hands
  DEF AllocateRecycled, Fill, ClientTypes, IInv, Types, PacketTypes
<1>2. ASSUME NEW c \in Clients, AllocateNew(c)
     PROVE  PacketTypes'
  BY <1>2, FreshHolder, Hands
  DEF AllocateNew, Fill, ClientTypes, IInv, Types, PacketTypes
<1>3. ASSUME NEW c \in Clients, OfferFails(c)
     PROVE  PacketTypes'
  BY <1>3, Freeing, Hands, <1>b
  DEF OfferFails, FreePacketHolder, Offering, IInv, Types, PacketTypes
<1>4. CASE EndBatch
  <2>1. CASE packet[sender.holder].kind = "move"
    <3>1. /\ sender.holder \in Holders
          /\ packet' = [packet EXCEPT ![sender.holder].val = <<Short(sender.total)>>]
      BY <1>4, <2>1, Hands DEF EndBatch, IInv
    <3>2. <<Short(sender.total)>> \in Seq(Int) /\ Len(<<Short(sender.total)>>) = 1
          /\ Short(sender.total) \in DeltaMin..DeltaMax
      BY InRange DEF IInv, Types, SenderTypes
    <3>3. PICK q \in Contents :
            q = [packet[sender.holder] EXCEPT !.val = <<Short(sender.total)>>]
                                 /\ q.val = <<Short(sender.total)>>
      BY <3>1, <3>2, Revalued DEF IInv, Types, PacketTypes
    <3>4. packet' = [packet EXCEPT ![sender.holder] = q]
      BY <3>1, <3>3
    <3> QED
      BY <3>1, <3>2, <3>3, <3>4 DEF IInv, Types, PacketTypes, Motion
  <2>2. CASE packet[sender.holder].kind # "move"
    BY <1>4, <2>2 DEF EndBatch, IInv, Types, PacketTypes
  <2> QED
    BY <2>1, <2>2
<1>5. CASE Poll
  <2>1. PICK p \in [Holders -> Contents], spare \in Holders :
          /\ \A h \in Holders : Motion(p[h])
          /\ freeList' = ListWith(spare) /\ packet' = Without(p, spare)
    BY <1>5, Merging DEF IInv
  <2>2. /\ packet' \in [Holders -> Contents] /\ packet'[spare] \in {Blank, Freed}
        /\ \A k \in Holders \ {spare} : packet'[k] = p[k]
    BY <2>1, Freeing DEF IInv
  <2> QED
    BY <2>1, <2>2, <1>b DEF PacketTypes
<1>6. CASE Send
  BY <1>6, Freeing, Hands, <1>b
  DEF Send, FreePacketHolder, Done, SendMessage, IInv, Types, PacketTypes
<1>7. CASE SendFails
  BY <1>7, Freeing, Hands, <1>b
  DEF SendFails, FreePacketHolder, Done, IInv, Types, PacketTypes
<1>8. CASE EndText
  BY <1>8, Freeing, Hands, <1>b
  DEF EndText, FreePacketHolder, Done, IInv, Types, PacketTypes
<1>9. CASE SendCodePoint
  BY <1>9 DEF SendCodePoint, SendMessage, IInv, Types, PacketTypes
<1>10. CASE Destroy
  BY <1>10, <1>b, ContentsFacts DEF Destroy, IInv, Types, PacketTypes
<1>11. ASSUME NEW c \in Clients, NEW e \in Events[c], Call(c, e)
     PROVE  PacketTypes'
  BY <1>11 DEF Call, IInv, Types, PacketTypes
<1>12. ASSUME NEW c \in Scrollers, NEW amount \in Amounts, Scroll(c, amount)
     PROVE  PacketTypes'
  BY <1>12 DEF Scroll, IInv, Types, PacketTypes
<1>13. ASSUME NEW c \in Clients, AllocateFails(c)
     PROVE  PacketTypes'
  BY <1>13 DEF AllocateFails, IInv, Types, PacketTypes
<1>14. ASSUME NEW c \in Clients, Offer(c)
     PROVE  PacketTypes'
  BY <1>14 DEF Offer, IInv, Types, PacketTypes
<1>15. CASE Take \/ EndsDrained \/ Peek \/ TextWaited
  BY <1>15 DEF Take, EndsDrained, Peek, TextWaited, IInv, Types, PacketTypes
<1>16. CASE Interrupt \/ RefuseCalls \/ ShutFreeList \/ Drain \/ Join
  BY <1>16
  DEF Interrupt, RefuseCalls, ShutFreeList, Drain, Join, IInv, Types,
      PacketTypes
<1>17. CASE HostAcknowledges \/ ReceiveThreadServes \/ ReceiveThreadEnds \/ Ping
          \/ PeerLost
  BY <1>17
  DEF HostAcknowledges, ReceiveThreadServes, ReceiveThreadEnds, Ping, PeerLost,
      IInv, Types, PacketTypes
<1>18. CASE UNCHANGED vars
  BY <1>18 DEF vars, IInv, Types, PacketTypes
<1> QED
  BY <1>0, <1>1, <1>2, <1>3, <1>4, <1>5, <1>6, <1>7, <1>8, <1>9, <1>10, <1>11,
     <1>12, <1>13, <1>14, <1>15, <1>16, <1>17, <1>18
  DEF Next, ClientStep, SenderStep, StopStep, ReceiveStep, Over

(* What a client is about to send can be sent.                             *)
LEMMA ClientTypesStep ==
  ASSUME IInv, [Next]_vars
  PROVE  ClientTypes'
<1> USE InputAssumption DEF queueVars, clientVars, sendVars, stopVars, controlVars
<1>0. Scrollers \subseteq Clients
  BY InputAssumption
<1>i. /\ Idle \in [pc : {"idle"}, event : Contents, holder : {0}]
      /\ Idle.event.kind # "freed" /\ Motion(Idle.event)
  BY ContentsFacts DEF Idle, Motion
<1>q. freeList \in Seq(Holders)
  BY DEF IInv, Types, QueueTypes
<1>1. ASSUME NEW c \in Clients, NEW e \in Events[c], Call(c, e)
     PROVE  ClientTypes'
  <2>1. e \in Contents /\ Motion(e) /\ e.kind # "freed"
    BY <1>1, ContentsFacts DEF Sent
  <2>2. client' = [client EXCEPT ![c] = [pc |-> "allocate", event |-> e, holder |-> 0]]
    BY <1>1 DEF Call
  <2> QED
    BY <2>1, <2>2 DEF IInv, Types, ClientTypes, Offering
<1>2. ASSUME NEW c \in Scrollers, NEW amount \in Amounts, Scroll(c, amount)
     PROVE  ClientTypes'
  <2>1. /\ client' = [client EXCEPT ![c] = ScrollOn(batchedScrollDelta')]
        /\ batchedScrollDelta' \in Int
    BY <1>2, InputAssumption DEF Scroll, IInv, ScrollState
  <2> QED
    BY <2>1, Started DEF IInv, Types, ClientTypes, Offering
<1>3. ASSUME NEW c \in Clients, AllocateFails(c)
     PROVE  ClientTypes'
  BY <1>3, <1>i DEF AllocateFails, Offering, IInv, Types, ClientTypes, Offering
<1>4. ASSUME NEW c \in Clients, AllocateRecycled(c)
     PROVE  ClientTypes'
  <2>1. Head(freeList) \in Holders
    BY <1>4, Taken, <1>q DEF AllocateRecycled
  <2>2. client' = [client EXCEPT ![c].pc = "offer", ![c].holder = Head(freeList)]
    BY <1>4 DEF AllocateRecycled, Fill
  <2> QED
    BY <2>1, <2>2, ZenonT(30) DEF IInv, Types, ClientTypes, Offering
<1>5. ASSUME NEW c \in Clients, AllocateNew(c)
     PROVE  ClientTypes'
  BY <1>5, FreshHolder
  DEF AllocateNew, Fill, Offering, IInv, Types, ClientTypes, Offering
<1>6. ASSUME NEW c \in Clients, Offer(c)
     PROVE  ClientTypes'
  <2>1. CASE client[c].event.kind = "scroll"
    <3>1. client[c].event.val[1] = Notch(batchedScrollDelta)
      BY <2>1 DEF IInv, ScrollState
    <3>2. /\ client' = [client EXCEPT ![c] = ScrollOn(batchedScrollDelta')]
          /\ batchedScrollDelta' = batchedScrollDelta - client[c].event.val[1]
      BY <1>6, <2>1 DEF Offer
    <3>3. batchedScrollDelta' \in Int
      <4>1. batchedScrollDelta \in Int /\ Notch(batchedScrollDelta) \in Int
        BY ScrollOnFacts DEF IInv, ScrollState
      <4> QED
        BY <3>1, <3>2, <4>1
    <3> QED
      BY <3>2, <3>3, Started DEF IInv, Types, ClientTypes, Offering
  <2>2. CASE client[c].event.kind # "scroll"
    <3>1. client' = [client EXCEPT ![c] = Idle]
      BY <1>6, <2>2 DEF Offer
    <3> QED
      BY <3>1, <1>i DEF IInv, Types, ClientTypes, Offering
  <2> QED
    BY <2>1, <2>2
<1>7. ASSUME NEW c \in Clients, OfferFails(c)
     PROVE  ClientTypes'
  BY <1>7, <1>i DEF OfferFails, Offering, IInv, Types, ClientTypes, Offering
<1>8. CASE Take \/ EndsDrained \/ Peek \/ EndBatch \/ Poll \/ Send \/ SendFails
          \/ TextWaited \/ SendCodePoint \/ EndText
  BY <1>8
  DEF Take, EndsDrained, Peek, EndBatch, Poll, Send, SendFails, TextWaited,
      SendCodePoint, EndText, IInv, Types, ClientTypes, Offering
<1>9. CASE Interrupt \/ RefuseCalls \/ ShutFreeList \/ Drain \/ Join \/ Destroy
  BY <1>9
  DEF Interrupt, RefuseCalls, ShutFreeList, Drain, Join, Destroy, IInv, Types,
      ClientTypes, Offering
<1>10. CASE HostAcknowledges \/ ReceiveThreadServes \/ ReceiveThreadEnds \/ Ping
          \/ PeerLost
  BY <1>10
  DEF HostAcknowledges, ReceiveThreadServes, ReceiveThreadEnds, Ping, PeerLost,
      IInv, Types, ClientTypes, Offering
<1>11. CASE UNCHANGED vars
  BY <1>11 DEF vars, IInv, Types, ClientTypes, Offering
<1> QED
  BY <1>0, <1>1, <1>2, <1>3, <1>4, <1>5, <1>6, <1>7, <1>8, <1>9, <1>10, <1>11
  DEF Next, ClientStep, SenderStep, StopStep, ReceiveStep, Over

(* The scrolls.                                                            *)
LEMMA ScrollStep ==
  ASSUME IInv, [Next]_vars
  PROVE  ScrollState'
<1> USE DEF queueVars, clientVars, sendVars, stopVars, controlVars
<1>0. Scrollers \subseteq Clients
  BY InputAssumption
<1>i. Idle.event.kind # "scroll"
  BY ContentsFacts DEF Idle
<1>1. ASSUME NEW c \in Clients, NEW e \in Events[c], Call(c, e)
     PROVE  ScrollState'
  <2>1. e.kind # "scroll"
    BY <1>1, ContentsFacts DEF Sent
  <2>2. /\ client' = [client EXCEPT ![c] = [pc |-> "allocate", event |-> e, holder |-> 0]]
        /\ UNCHANGED <<batchedScrollDelta, wheel>>
    BY <1>1 DEF Call
  <2> QED
    BY <2>1, <2>2 DEF IInv, Types, ClientTypes, ScrollState
<1>2. ASSUME NEW c \in Scrollers, NEW amount \in Amounts, Scroll(c, amount)
     PROVE  ScrollState'
  <2>1. /\ client[c].pc = "idle" /\ wheel' = Asked(amount, client'[c].pc = "idle")
        /\ client' = [client EXCEPT ![c] = ScrollOn(batchedScrollDelta')]
        /\ batchedScrollDelta' =
             amount + (IF batchedScrollDelta * amount < 0 THEN 0 ELSE batchedScrollDelta)
    BY <1>2 DEF Scroll
  <2>2. amount \in Int /\ amount # 0
    BY InputAssumption
  <2>3. ASSUME NEW exact \in BOOLEAN
        PROVE  /\ Asked(amount, exact) \in [asked : Int, accepted : Int, exact : {exact}]
               /\ batchedScrollDelta' \in Int
               /\ batchedScrollDelta' =
                    Asked(amount, exact).asked - Asked(amount, exact).accepted
               /\ Asked(amount, exact).asked >= 0 =>
                    batchedScrollDelta' >= 0 /\ Asked(amount, exact).accepted >= 0
               /\ Asked(amount, exact).asked <= 0 =>
                    batchedScrollDelta' <= 0 /\ Asked(amount, exact).accepted <= 0
    <3>1. /\ batchedScrollDelta \in Int /\ wheel.asked \in Int /\ wheel.accepted \in Int
          /\ batchedScrollDelta = wheel.asked - wheel.accepted
          /\ wheel.asked >= 0 => batchedScrollDelta >= 0 /\ wheel.accepted >= 0
          /\ wheel.asked <= 0 => batchedScrollDelta <= 0 /\ wheel.accepted <= 0
      BY DEF IInv, ScrollState
    <3>2. CASE wheel.asked * amount < 0
      <4>1. Asked(amount, exact) = [asked |-> amount, accepted |-> 0, exact |-> exact]
        BY <2>2, <3>2 DEF Asked
      <4>2. batchedScrollDelta' = amount
        BY <2>1, <2>2, <3>1, <3>2, ProductFacts
      <4> QED
        BY <2>2, <4>1, <4>2
    <3>3. CASE ~(wheel.asked * amount < 0)
      <4>1. Asked(amount, exact) = [asked |-> amount + wheel.asked,
                                    accepted |-> wheel.accepted, exact |-> exact]
        BY <3>3 DEF Asked
      <4>2. batchedScrollDelta' = amount + batchedScrollDelta
        BY <2>1, <2>2, <3>1, <3>3, ProductFacts
      <4>3. ~(wheel.asked > 0 /\ amount < 0) /\ ~(wheel.asked < 0 /\ amount > 0)
        BY <2>2, <3>1, <3>3, ProductFacts
      <4> QED
        BY <2>2, <3>1, <4>1, <4>2, <4>3
    <3> QED
      BY <3>2, <3>3
  <2>4. /\ c \in Clients /\ client'[c] = ScrollOn(batchedScrollDelta')
        /\ \A d \in Clients \ {c} : client'[d] = client[d]
    BY <2>1, <1>0 DEF IInv, Types, ClientTypes
  <2>5. /\ client'[c].pc = "idle" => ~Whole(batchedScrollDelta')
        /\ client'[c].event.kind = "scroll" =>
             /\ client'[c].event.val = <<Notch(batchedScrollDelta')>>
             /\ Whole(batchedScrollDelta')
    BY <2>3, <2>4, StartedOn
  <2>6. wheel' = Asked(amount, wheel'.exact) /\ wheel'.exact = (client'[c].pc = "idle")
    BY <2>1 DEF Asked
  <2>7. wheel' \in [asked : Int, accepted : Int, exact : BOOLEAN]
    BY <2>3, <2>6
  <2> QED
    BY <2>3, <2>4, <2>5, <2>6, <2>7, OneScroller DEF IInv, ScrollState
<1>3. ASSUME NEW c \in Clients, AllocateFails(c)
     PROVE  ScrollState'
  BY <1>3, <1>i DEF AllocateFails, IInv, Types, ClientTypes, ScrollState
<1>4. ASSUME NEW c \in Clients, AllocateRecycled(c)
     PROVE  ScrollState'
  BY <1>4, OneScroller
  DEF AllocateRecycled, Fill, IInv, Types, ClientTypes, ScrollState
<1>5. ASSUME NEW c \in Clients, AllocateNew(c)
     PROVE  ScrollState'
  BY <1>5, OneScroller
  DEF AllocateNew, Fill, IInv, Types, ClientTypes, ScrollState
<1>6. ASSUME NEW c \in Clients, Offer(c)
     PROVE  ScrollState'
  <2>1. CASE client[c].event.kind = "scroll"
    <3> DEFINE amount == client[c].event.val[1]
    <3>1. /\ amount = Notch(batchedScrollDelta) /\ Whole(batchedScrollDelta)
          /\ c \in Scrollers
      BY <2>1 DEF IInv, ScrollState
    <3>2. /\ client' = [client EXCEPT ![c] = ScrollOn(batchedScrollDelta')]
          /\ batchedScrollDelta' = batchedScrollDelta - amount
          /\ wheel' = [wheel EXCEPT !.accepted = wheel.accepted + amount,
                                     !.exact = client'[c].pc = "idle"]
      BY <1>6, <2>1 DEF Offer
    <3>3. /\ batchedScrollDelta' \in Int /\ amount \in Int
          /\ batchedScrollDelta \in Int
          /\ wheel.asked \in Int /\ wheel.accepted \in Int
      <4>1. /\ batchedScrollDelta \in Int /\ Notch(batchedScrollDelta) \in Int
            /\ wheel.asked \in Int /\ wheel.accepted \in Int
        BY ScrollOnFacts DEF IInv, ScrollState
      <4> QED
        BY <3>1, <3>2, <4>1
    <3>4. /\ client'[c] = ScrollOn(batchedScrollDelta')
          /\ \A d \in Clients \ {c} : client'[d] = client[d]
      BY <3>2 DEF IInv, Types, ClientTypes
    <3>5. /\ client'[c].pc = "idle" => ~Whole(batchedScrollDelta')
          /\ client'[c].event.kind = "scroll" =>
               /\ client'[c].event.val = <<Notch(batchedScrollDelta')>>
               /\ Whole(batchedScrollDelta')
      BY <3>3, <3>4, StartedOn
    <3>6. /\ wheel' \in [asked : Int, accepted : Int, exact : BOOLEAN]
          /\ wheel'.asked = wheel.asked /\ wheel'.accepted = wheel.accepted + amount
          /\ wheel'.exact = (client'[c].pc = "idle")
      <4> HIDE DEF amount
      <4>1. wheel \in [asked : Int, accepted : Int, exact : BOOLEAN]
        BY DEF IInv, ScrollState
      <4>2. (client'[c].pc = "idle") \in BOOLEAN /\ wheel.accepted + amount \in Int
        BY <3>3
      <4> QED
        BY <3>2, <4>1, <4>2
    <3>7. /\ batchedScrollDelta' = wheel'.asked - wheel'.accepted
          /\ wheel'.asked >= 0 => batchedScrollDelta' >= 0 /\ wheel'.accepted >= 0
          /\ wheel'.asked <= 0 => batchedScrollDelta' <= 0 /\ wheel'.accepted <= 0
      <4> HIDE DEF amount
      <4> QED
        BY <3>1, <3>2, <3>3, <3>6, InputAssumption DEF IInv, ScrollState, Notch, Whole
    <3> QED
      BY <3>1, <3>3, <3>4, <3>5, <3>6, <3>7, OneScroller DEF IInv, ScrollState
  <2>2. CASE client[c].event.kind # "scroll"
    <3>1. /\ client' = [client EXCEPT ![c] = Idle]
          /\ UNCHANGED <<batchedScrollDelta, wheel>>
      BY <1>6, <2>2 DEF Offer
    <3> QED
      BY <3>1, <1>i DEF IInv, Types, ClientTypes, ScrollState
  <2> QED
    BY <2>1, <2>2
<1>7. ASSUME NEW c \in Clients, OfferFails(c)
     PROVE  ScrollState'
  BY <1>7, <1>i
  DEF OfferFails, FreePacketHolder, IInv, Types, ClientTypes, ScrollState
<1>8. CASE Take \/ EndsDrained \/ Peek \/ EndBatch \/ Poll \/ Send \/ SendFails
          \/ TextWaited \/ SendCodePoint \/ EndText
  BY <1>8
  DEF Take, EndsDrained, Peek, EndBatch, Poll, Send, SendFails, TextWaited,
      SendCodePoint, EndText, IInv, Types, ClientTypes, ScrollState
<1>9. CASE Interrupt \/ RefuseCalls \/ ShutFreeList \/ Drain \/ Join \/ Destroy
  BY <1>9
  DEF Interrupt, RefuseCalls, ShutFreeList, Drain, Join, Destroy, IInv, Types,
      ClientTypes, ScrollState
<1>10. CASE HostAcknowledges \/ ReceiveThreadServes \/ ReceiveThreadEnds \/ Ping
          \/ PeerLost
  BY <1>10
  DEF HostAcknowledges, ReceiveThreadServes, ReceiveThreadEnds, Ping, PeerLost,
      IInv, Types, ClientTypes, ScrollState
<1>11. CASE UNCHANGED vars
  BY <1>11 DEF vars, IInv, Types, ClientTypes, ScrollState
<1> QED
  BY <1>0, <1>1, <1>2, <1>3, <1>4, <1>5, <1>6, <1>7, <1>8, <1>9, <1>10, <1>11
  DEF Next, ClientStep, SenderStep, StopStep, ReceiveStep, Over

(* Where the sender is.                                                    *)
LEMMA SenderTypesStep ==
  ASSUME IInv, [Next]_vars
  PROVE  SenderTypes'
<1> USE DEF queueVars, clientVars, sendVars, stopVars, controlVars
<1>0. Scrollers \subseteq Clients
  BY InputAssumption
<1>k. sender.pc = "wait" => stopper \notin {"stopped", "destroyed"}
  BY DEF IInv, Types, SenderTypes
<1>1. CASE Take
  <2>1. Head(packetQueue) \in Holders /\ Head(packetQueue) # 0
    BY <1>1, Taken, InputAssumption DEF Take, IInv, Types, QueueTypes
  <2> DEFINE h == Head(packetQueue)
             at == IF packet[h].kind \in Batched THEN "peek"
                   ELSE IF packet[h].kind = "text" THEN "transit" ELSE "send"
             total == IF packet[h].kind = "move" THEN packet[h].val[1] ELSE 0
             rest == IF packet[h].kind = "text" THEN packet[h].val ELSE <<>>
  <2>2. /\ sender' = [Waiting EXCEPT !.holder = h, !.pc = at, !.total = total, !.rest = rest]
        /\ stopper' = stopper /\ sender.pc = "wait"
    BY <1>1 DEF Take
  <2>3. packet[h] \in Contents /\ Motion(packet[h])
    BY <2>1 DEF IInv, Types, PacketTypes
  <2>4. total \in Int
    BY <2>3, InputAssumption DEF Motion
  <2>5. rest \in Seq(Int)
    BY <2>3, ContentsFacts, Empty
  <2>6. at \in {"peek", "transit", "send"}
    OBVIOUS
  <2>7. stopper \notin {"stopped", "destroyed"}
    BY <1>k, <2>2
  <2> HIDE DEF at, total, rest
  <2> QED
    BY <2>1, <2>2, <2>4, <2>5, <2>6, <2>7 DEF SenderTypes, Waiting
<1>2. CASE EndsDrained
  BY <1>2 DEF EndsDrained, IInv, Types, SenderTypes
<1>3. CASE Peek
  <2>1. Head(packetQueue) \in Holders /\ sender.holder # 0
    BY <1>3, Taken DEF Peek, IInv, Types, QueueTypes, SenderTypes
  <2> QED
    BY <1>3, <2>1 DEF Peek, IInv, Types, SenderTypes
<1>4. CASE EndBatch
  BY <1>4 DEF EndBatch, IInv, Types, SenderTypes
<1>5. CASE Poll
  <2>1. /\ sender.holder \in Holders /\ Head(packetQueue) \in Holders
        /\ sender' \in [pc : {"peek"}, holder : {sender.holder, Head(packetQueue)},
                         peeked : {0}, total : Int, rest : {sender.rest}]
    BY <1>5, Merging DEF IInv
  <2>2. sender.pc = "poll" /\ stopper' = stopper
    BY <1>5 DEF Poll
  <2> QED
    BY <2>1, <2>2, Hands DEF IInv, Types, SenderTypes
<1>6. CASE Send
  BY <1>6, Empty DEF Send, Waiting, IInv, Types, SenderTypes
<1>7. CASE SendFails
  <2>1. /\ sender.pc \in {"send", "split"} /\ stopper' = stopper
        /\ sender' = [Waiting EXCEPT !.pc = "failed"]
    BY <1>7 DEF SendFails
  <2>2. sender' = [pc |-> "failed", holder |-> 0, peeked |-> 0, total |-> 0, rest |-> <<>>]
    BY <2>1 DEF Waiting
  <2>3. <<>> \in Seq(Int)
    OBVIOUS
  <2>4. sender'.pc = "failed" /\ sender'.holder = 0
    BY <2>2
  <2>5. sender' \in [pc : {"failed"}, holder : {0}, peeked : {0}, total : {0}, rest : Seq(Int)]
    BY <2>2, <2>3
  <2> QED
    BY <2>1, <2>4, <2>5 DEF SenderTypes
<1>8. CASE EndText
  BY <1>8, Empty DEF EndText, Waiting, IInv, Types, SenderTypes
<1>9. CASE TextWaited
  BY <1>9 DEF TextWaited, IInv, Types, SenderTypes
<1>10. CASE SendCodePoint
  <2>1. Tail(sender.rest) \in Seq(Int)
    BY <1>10 DEF SendCodePoint, IInv, Types, SenderTypes
  <2> QED
    BY <1>10, <2>1 DEF SendCodePoint, IInv, Types, SenderTypes
<1>11. CASE Join
  BY <1>11 DEF Join, IInv, Types, SenderTypes
<1>12. CASE Destroy
  BY <1>12 DEF Destroy, IInv, Types, SenderTypes
<1>13. ASSUME NEW c \in Clients, NEW e \in Events[c], Call(c, e)
     PROVE  SenderTypes'
  BY <1>13 DEF Call, IInv, Types, SenderTypes
<1>14. ASSUME NEW c \in Scrollers, NEW amount \in Amounts, Scroll(c, amount)
     PROVE  SenderTypes'
  BY <1>14 DEF Scroll, IInv, Types, SenderTypes
<1>15. ASSUME NEW c \in Clients, AllocateFails(c)
     PROVE  SenderTypes'
  BY <1>15 DEF AllocateFails, IInv, Types, SenderTypes
<1>16. ASSUME NEW c \in Clients, AllocateRecycled(c)
     PROVE  SenderTypes'
  BY <1>16 DEF AllocateRecycled, Fill, IInv, Types, SenderTypes
<1>17. ASSUME NEW c \in Clients, AllocateNew(c)
     PROVE  SenderTypes'
  BY <1>17 DEF AllocateNew, Fill, IInv, Types, SenderTypes
<1>18. ASSUME NEW c \in Clients, Offer(c)
     PROVE  SenderTypes'
  BY <1>18 DEF Offer, IInv, Types, SenderTypes
<1>19. ASSUME NEW c \in Clients, OfferFails(c)
     PROVE  SenderTypes'
  BY <1>19 DEF OfferFails, IInv, Types, SenderTypes
<1>20. CASE Interrupt \/ RefuseCalls \/ ShutFreeList \/ Drain
  BY <1>20
  DEF Interrupt, RefuseCalls, ShutFreeList, Drain, IInv, Types, SenderTypes
<1>21. CASE HostAcknowledges \/ ReceiveThreadServes \/ ReceiveThreadEnds \/ Ping
          \/ PeerLost
  BY <1>21
  DEF HostAcknowledges, ReceiveThreadServes, ReceiveThreadEnds, Ping, PeerLost,
      IInv, Types, SenderTypes
<1>22. CASE UNCHANGED vars
  BY <1>22 DEF vars, IInv, Types, SenderTypes
<1> QED
  BY <1>0, <1>1, <1>2, <1>3, <1>4, <1>5, <1>6, <1>7, <1>8, <1>9, <1>10, <1>11,
     <1>12, <1>13, <1>14, <1>15, <1>16, <1>17, <1>18, <1>19, <1>20, <1>21, <1>22
  DEF Next, ClientStep, SenderStep, StopStep, ReceiveStep, Over

(* Whose hands hold what.                                                  *)
LEMMA HandsKept ==
  ASSUME Types, NEW c \in Clients \ Offering, NEW r, r.pc # "offer",
         client' = [client EXCEPT ![c] = r]
  PROVE  /\ Offering' = Offering /\ InHands' = InHands
         /\ \A d \in Offering : client'[d].holder = client[d].holder
BY DEF Types, ClientTypes, Offering, InHands

LEMMA HandsTaken ==
  ASSUME Types, NEW c \in Clients \ Offering, NEW h,
         client' = [client EXCEPT ![c].pc = "offer", ![c].holder = h]
  PROVE  /\ Offering' = Offering \cup {c} /\ InHands' = InHands \cup {h}
         /\ \A d \in Offering : client'[d].holder = client[d].holder
         /\ client'[c].holder = h
<1>1. /\ client'[c].pc = "offer" /\ client'[c].holder = h
      /\ \A d \in Clients \ {c} : client'[d] = client[d]
  BY DEF Types, ClientTypes
<1>2. Offering' = Offering \cup {c}
  BY <1>1 DEF Offering
<1>3. \A d \in Offering : client'[d].holder = client[d].holder
  BY <1>1 DEF Offering
<1> QED
  BY <1>1, <1>2, <1>3, ZenonT(30) DEF InHands

LEMMA HandsReleased ==
  ASSUME Types, Apart, NEW c \in Offering, NEW r, r.pc # "offer",
         client' = [client EXCEPT ![c] = r]
  PROVE  /\ Offering' = Offering \ {c} /\ InHands' = InHands \ {client[c].holder}
         /\ \A d \in Offering' : client'[d].holder = client[d].holder
<1>1. client'[c] = r /\ \A d \in Clients \ {c} : client'[d] = client[d]
  BY DEF Types, ClientTypes, Offering
<1>2. Offering' = Offering \ {c}
  BY <1>1 DEF Offering
<1>3. \A d \in Offering' : client'[d].holder = client[d].holder
  BY <1>1, <1>2 DEF Offering
<1> QED
  BY <1>2, <1>3 DEF InHands, Apart

(* Every allocated holder stays in exactly one place.                      *)
LEMMA OwnedStep ==
  ASSUME IInv, [Next]_vars
  PROVE  (Apart /\ Accounted)'
<1> USE DEF queueVars, clientVars, sendVars, stopVars, controlVars
<1>0. Scrollers \subseteq Clients
  BY InputAssumption
<1>p. packet \in [Holders -> Contents]
  BY DEF IInv, Types, PacketTypes
<1>q. packetQueue \in Seq(Holders) /\ freeList \in Seq(Holders)
  BY DEF IInv, Types, QueueTypes
<1>h. 0 \notin Holders
  BY InputAssumption
<1>1. ASSUME NEW c \in Clients, NEW e \in Events[c], Call(c, e)
     PROVE  (Apart /\ Accounted)'
  <2>1. /\ client' = [client EXCEPT ![c] = [pc |-> "allocate", event |-> e, holder |-> 0]]
        /\ c \notin Offering /\ UNCHANGED <<packetQueue, freeList, packet, sender>>
    BY <1>1 DEF Call, Offering
  <2>2. Offering' = Offering /\ InHands' = InHands
        /\ \A d \in Offering : client'[d].holder = client[d].holder
    BY <2>1, HandsKept DEF IInv
  <2> QED
    BY <2>1, <2>2 DEF IInv, Apart, Accounted
<1>2. ASSUME NEW c \in Scrollers, NEW amount \in Amounts, Scroll(c, amount)
     PROVE  (Apart /\ Accounted)'
  <2>1. /\ client' = [client EXCEPT ![c] = ScrollOn(batchedScrollDelta')]
        /\ c \in Clients \ Offering /\ UNCHANGED <<packetQueue, freeList, packet, sender>>
    BY <1>2, <1>0 DEF Scroll, Offering
  <2>2. batchedScrollDelta' \in Int
    BY ScrollStep DEF ScrollState
  <2>3. ScrollOn(batchedScrollDelta').pc # "offer"
    BY <2>2, Started
  <2>4. Offering' = Offering /\ InHands' = InHands
        /\ \A d \in Offering : client'[d].holder = client[d].holder
    BY <2>1, <2>3, HandsKept DEF IInv
  <2> QED
    BY <2>1, <2>4 DEF IInv, Apart, Accounted
<1>3. ASSUME NEW c \in Clients, AllocateFails(c)
     PROVE  (Apart /\ Accounted)'
  <2>1. /\ client' = [client EXCEPT ![c] = Idle] /\ Idle.pc # "offer"
        /\ c \notin Offering /\ UNCHANGED <<packetQueue, freeList, packet, sender>>
    BY <1>3 DEF AllocateFails, Offering, Idle
  <2>2. Offering' = Offering /\ InHands' = InHands
        /\ \A d \in Offering : client'[d].holder = client[d].holder
    BY <2>1, HandsKept DEF IInv
  <2> QED
    BY <2>1, <2>2 DEF IInv, Apart, Accounted
<1>4. ASSUME NEW c \in Clients, AllocateRecycled(c)
     PROVE  (Apart /\ Accounted)'
  <2> DEFINE h == Head(freeList)
  <2>1. /\ client' = [client EXCEPT ![c].pc = "offer", ![c].holder = h]
        /\ packet' = [packet EXCEPT ![h] = client[c].event] /\ freeList' = Tail(freeList)
        /\ c \in Clients \ Offering /\ freeList # <<>> /\ UNCHANGED <<packetQueue, sender>>
    BY <1>4 DEF AllocateRecycled, Fill, Offering
  <2>2. /\ h \in Holders /\ h \in Elems(freeList) /\ Distinct(freeList')
        /\ Elems(freeList') = Elems(freeList) \ {h}
    BY <1>q, <2>1, Taken DEF IInv, Apart
  <2>3. /\ Offering' = Offering \cup {c} /\ InHands' = InHands \cup {h}
        /\ \A d \in Offering : client'[d].holder = client[d].holder
        /\ client'[c].holder = h
    BY <2>1, HandsTaken DEF IInv
  <2>4. \A d \in Offering : client[d].holder \in InHands
    BY DEF InHands
  <2>5. packet'[h] # Freed /\ \A k \in Holders \ {h} : packet'[k] = packet[k]
    BY <1>p, <2>1, <2>2, ContentsFacts DEF IInv, Types, ClientTypes
  <2> HIDE DEF h
  <2>6. /\ h \notin InHands /\ h \notin Elems(packetQueue) /\ h # sender.holder
        /\ h \notin Elems(freeList')
    BY <2>1, <2>2 DEF IInv, Apart, Accounted
  <2>7. /\ Distinct(packetQueue') /\ Distinct(freeList')
        /\ Elems(packetQueue') \cap Elems(freeList') = {}
        /\ InHands' \cap (Elems(packetQueue') \cup Elems(freeList')) = {}
        /\ sender'.holder \notin Elems(packetQueue') \cup Elems(freeList') \cup InHands'
    BY <2>1, <2>2, <2>3, <2>6 DEF IInv, Apart
  <2>8. \A d, e \in Offering' : client'[d].holder = client'[e].holder => d = e
    BY <2>3, <2>4, <2>6 DEF IInv, Apart
  <2>9. Accounted'
    BY <2>1, <2>2, <2>3, <2>5, <2>6 DEF IInv, Accounted
  <2> QED
    BY <2>7, <2>8, <2>9 DEF Apart
<1>5. ASSUME NEW c \in Clients, AllocateNew(c)
     PROVE  (Apart /\ Accounted)'
  <2> DEFINE h == Malloc
  <2>1. /\ client' = [client EXCEPT ![c].pc = "offer", ![c].holder = h]
        /\ packet' = [packet EXCEPT ![h] = client[c].event]
        /\ c \in Clients \ Offering /\ UNCHANGED <<packetQueue, freeList, sender>>
    BY <1>5 DEF AllocateNew, Fill, Offering
  <2>2. h \in Holders /\ packet[h] = Freed
    BY <1>5, FreshHolder DEF AllocateNew
  <2>3. /\ Offering' = Offering \cup {c} /\ InHands' = InHands \cup {h}
        /\ \A d \in Offering : client'[d].holder = client[d].holder
        /\ client'[c].holder = h
    BY <2>1, HandsTaken DEF IInv
  <2>4. \A d \in Offering : client[d].holder \in InHands
    BY DEF InHands
  <2>5. packet'[h] # Freed /\ \A k \in Holders \ {h} : packet'[k] = packet[k]
    BY <1>p, <2>1, <2>2, ContentsFacts DEF IInv, Types, ClientTypes
  <2> HIDE DEF h
  <2>6. /\ h \notin InHands /\ h \notin Elems(packetQueue) /\ h # sender.holder
        /\ h \notin Elems(freeList')
    BY <2>1, <2>2 DEF IInv, Apart, Accounted
  <2>7. /\ Distinct(packetQueue') /\ Distinct(freeList')
        /\ Elems(packetQueue') \cap Elems(freeList') = {}
        /\ InHands' \cap (Elems(packetQueue') \cup Elems(freeList')) = {}
        /\ sender'.holder \notin Elems(packetQueue') \cup Elems(freeList') \cup InHands'
    BY <2>1, <2>2, <2>3, <2>6 DEF IInv, Apart
  <2>8. \A d, e \in Offering' : client'[d].holder = client'[e].holder => d = e
    BY <2>3, <2>4, <2>6 DEF IInv, Apart
  <2>9. Accounted'
    BY <2>1, <2>2, <2>3, <2>5, <2>6 DEF IInv, Accounted
  <2> QED
    BY <2>7, <2>8, <2>9 DEF Apart
<1>6. ASSUME NEW c \in Clients, Offer(c)
     PROVE  (Apart /\ Accounted)'
  <2> DEFINE h == client[c].holder
  <2>1. /\ c \in Offering /\ packetQueue' = Append(packetQueue, h)
        /\ UNCHANGED <<freeList, packet, sender>>
    BY <1>6 DEF Offer, Offering
  <2>2. PICK r : client' = [client EXCEPT ![c] = r] /\ r.pc # "offer"
    <3>1. CASE client[c].event.kind = "scroll"
      <4>1. client' = [client EXCEPT ![c] = ScrollOn(batchedScrollDelta')]
        BY <1>6, <3>1 DEF Offer
      <4>2. batchedScrollDelta' \in Int
        BY ScrollStep DEF ScrollState
      <4> QED
        BY <4>1, <4>2, Started
    <3>2. CASE client[c].event.kind # "scroll"
      <4>1. client' = [client EXCEPT ![c] = Idle]
        BY <1>6, <3>2 DEF Offer
      <4>2. Idle.pc # "offer"
        BY DEF Idle
      <4> QED
        BY <4>1, <4>2
    <3> QED
      BY <3>1, <3>2
  <2>3. /\ Offering' = Offering \ {c} /\ InHands' = InHands \ {h}
        /\ \A d \in Offering' : client'[d].holder = client[d].holder
    BY <2>1, <2>2, HandsReleased DEF IInv
  <2>4. h \in InHands /\ h \in Holders
    BY <2>1, Hands DEF InHands, IInv
  <2>5. Elems(packetQueue') = Elems(packetQueue) \cup {h} /\ Distinct(packetQueue')
    BY <1>q, <2>1, <2>4, Appended DEF IInv, Apart
  <2> HIDE DEF h
  <2> QED
    BY <2>1, <2>3, <2>4, <2>5 DEF IInv, Apart, Accounted
<1>7. ASSUME NEW c \in Clients, OfferFails(c)
     PROVE  (Apart /\ Accounted)'
  <2> DEFINE h == client[c].holder
  <2>1. /\ c \in Offering /\ client' = [client EXCEPT ![c] = Idle] /\ Idle.pc # "offer"
        /\ freeList' = ListWith(h) /\ packet' = Without(packet, h)
        /\ UNCHANGED <<packetQueue, sender>>
    BY <1>7 DEF OfferFails, Offering, Idle, FreePacketHolder
  <2>3. /\ Offering' = Offering \ {c} /\ InHands' = InHands \ {h}
        /\ \A d \in Offering' : client'[d].holder = client[d].holder
    BY <2>1, HandsReleased DEF IInv
  <2>4. h \in InHands /\ h \in Holders /\ h \notin Elems(freeList)
    BY <2>1, Hands DEF InHands, IInv, Apart
  <2> HIDE DEF h
  <2>5. /\ Distinct(freeList')
        /\ Elems(freeList') \in {Elems(freeList), Elems(freeList) \cup {h}}
        /\ \A k \in Holders \ {h} : packet'[k] = packet[k]
        /\ packet'[h] # Freed <=> h \in Elems(freeList')
    BY <1>p, <2>1, <2>4, Freeing DEF IInv, Apart
  <2> QED
    BY <2>1, <2>3, <2>4, <2>5 DEF IInv, Apart, Accounted
<1>8. CASE Take
  <2> DEFINE h == Head(packetQueue)
  <2>1. /\ sender.pc = "wait" /\ packetQueue # <<>> /\ packetQueue' = Tail(packetQueue)
        /\ sender'.holder = h /\ UNCHANGED <<freeList, packet, client>>
    BY <1>8 DEF Take, Waiting
  <2>2. Offering' = Offering /\ InHands' = InHands
    BY <2>1 DEF Offering, InHands
  <2>3. /\ h \in Holders /\ h \in Elems(packetQueue) /\ Distinct(packetQueue')
        /\ Elems(packetQueue') = Elems(packetQueue) \ {h}
    BY <1>q, <2>1, Taken DEF IInv, Apart
  <2>4. sender.holder = 0
    BY <2>1 DEF IInv, Types, SenderTypes
  <2> HIDE DEF h
  <2> QED
    BY <1>h, <2>1, <2>2, <2>3, <2>4 DEF IInv, Apart, Accounted
<1>9. CASE EndBatch
  <2>1. /\ UNCHANGED <<packetQueue, freeList, client>> /\ sender'.holder = sender.holder
        /\ sender.holder \in Holders
    BY <1>9, Hands DEF EndBatch, IInv, Types, SenderTypes
  <2>2. \A h \in Holders : packet'[h] # Freed <=> packet[h] # Freed
    <3>1. CASE packet[sender.holder].kind = "move"
      <4>1. packet' = [packet EXCEPT ![sender.holder].val = <<Short(sender.total)>>]
        BY <1>9, <3>1 DEF EndBatch
      <4>2. /\ packet'[sender.holder].kind = "move"
            /\ \A h \in Holders \ {sender.holder} : packet'[h] = packet[h]
        BY <1>p, <2>1, <3>1, <4>1 DEF Contents
      <4> QED
        BY <3>1, <4>2, ContentsFacts
    <3>2. CASE packet[sender.holder].kind # "move"
      BY <1>9, <3>2 DEF EndBatch
    <3> QED
      BY <3>1, <3>2
  <2>3. Offering' = Offering /\ InHands' = InHands
    BY <2>1 DEF Offering, InHands
  <2> QED
    BY <2>1, <2>2, <2>3 DEF IInv, Apart, Accounted
<1>10. CASE Poll
  <2> DEFINE h == Head(packetQueue)
  <2>1. /\ packetQueue' = Tail(packetQueue) /\ client' = client
    BY <1>10 DEF Poll
  <2>2. PICK p \in [Holders -> Contents], spare \in {sender.holder, h} :
          /\ {spare, sender'.holder} = {sender.holder, h}
          /\ \A k \in Holders : p[k] = Freed <=> packet[k] = Freed
          /\ freeList' = ListWith(spare) /\ packet' = Without(p, spare)
    BY <1>10, Merging DEF IInv
  <2>3. sender.holder \in Holders /\ h \in Holders /\ packetQueue # <<>>
    BY <1>10, Merging DEF IInv
  <2>4. /\ h \in Elems(packetQueue) /\ Distinct(packetQueue')
        /\ Elems(packetQueue') = Elems(packetQueue) \ {h}
    BY <1>q, <2>1, <2>3, Taken DEF IInv, Apart
  <2> HIDE DEF h
  <2>5. spare \in Holders /\ spare \notin Elems(freeList) /\ sender.holder # h
    BY <2>2, <2>3, <2>4 DEF IInv, Apart
  <2>6. /\ Distinct(freeList')
        /\ Elems(freeList') \in {Elems(freeList), Elems(freeList) \cup {spare}}
        /\ \A k \in Holders \ {spare} : packet'[k] = p[k]
        /\ packet'[spare] # Freed <=> spare \in Elems(freeList')
    BY <2>2, <2>5, Freeing DEF IInv, Apart
  <2>7. Offering' = Offering /\ InHands' = InHands
    BY <2>1 DEF Offering, InHands
  <2>8. /\ Elems(packetQueue') \cap Elems(freeList') = {}
        /\ InHands' \cap (Elems(packetQueue') \cup Elems(freeList')) = {}
        /\ sender'.holder \notin Elems(packetQueue') \cup Elems(freeList') \cup InHands'
    <3>1. h \notin Elems(freeList) /\ h \notin InHands /\ h \notin Elems(packetQueue')
      BY <2>4 DEF IInv, Apart
    <3>2. sender.holder \notin Elems(freeList) \cup InHands \cup Elems(packetQueue')
      BY <2>4 DEF IInv, Apart
    <3>3. sender'.holder \in {sender.holder, h} /\ sender'.holder # spare
      BY <2>2, <2>5
    <3> QED
      BY <2>2, <2>4, <2>6, <2>7, <3>1, <3>2, <3>3 DEF IInv, Apart
  <2>9. Apart'
    BY <2>1, <2>4, <2>6, <2>7, <2>8 DEF IInv, Apart
  <2>10. Accounted'
    <3> SUFFICES ASSUME NEW k \in Holders
                 PROVE  packet'[k] # Freed <=>
                          k \in Elems(packetQueue') \cup Elems(freeList') \cup InHands'
                                 \cup {sender'.holder}
      BY DEF Accounted
    <3>1. packet[k] # Freed <=>
            k \in Elems(packetQueue) \cup Elems(freeList) \cup InHands \cup {sender.holder}
      BY DEF IInv, Accounted
    <3>2. CASE k = spare
      <4>1. k \notin InHands /\ k \notin Elems(packetQueue') /\ k # sender'.holder
        BY <2>2, <2>4, <2>5, <3>2 DEF IInv, Apart
      <4> QED
        BY <2>6, <2>7, <3>2, <4>1
    <3>3. CASE k # spare
      <4>1. packet'[k] # Freed <=> packet[k] # Freed
        BY <2>2, <2>6, <3>3
      <4>2. k \in Elems(freeList') <=> k \in Elems(freeList)
        BY <2>6, <3>3
      <4>3. k \in Elems(packetQueue') \/ k = sender'.holder <=>
              k \in Elems(packetQueue) \/ k = sender.holder
        BY <2>2, <2>4, <2>5, <3>3
      <4> QED
        BY <2>7, <3>1, <4>1, <4>2, <4>3
    <3> QED
      BY <3>2, <3>3
  <2> QED
    BY <2>9, <2>10
<1>11. CASE Send
  <2>1. /\ sender.holder \in Holders /\ sender'.holder = 0
        /\ freeList' = ListWith(sender.holder) /\ packet' = Without(packet, sender.holder)
        /\ UNCHANGED <<packetQueue, client>>
    BY <1>11, Hands DEF Send, Done, FreePacketHolder, Waiting, IInv
  <2>2. sender.holder \notin Elems(freeList)
    BY DEF IInv, Apart
  <2>3. Offering' = Offering /\ InHands' = InHands
    BY <2>1 DEF Offering, InHands
  <2>4. /\ Distinct(freeList')
        /\ Elems(freeList') \in {Elems(freeList), Elems(freeList) \cup {sender.holder}}
        /\ \A k \in Holders \ {sender.holder} : packet'[k] = packet[k]
        /\ packet'[sender.holder] # Freed <=> sender.holder \in Elems(freeList')
    BY <1>p, <2>1, <2>2, Freeing DEF IInv, Apart
  <2>5. 0 \notin Elems(packetQueue) \cup Elems(freeList') \cup InHands
    BY <1>h, <1>q, <2>1, <2>4, Hands, ElemsIn DEF IInv, InHands
  <2>6. Apart'
    BY <2>1, <2>2, <2>3, <2>4, <2>5 DEF IInv, Apart
  <2>7. Accounted'
    BY <1>h, <2>1, <2>3, <2>4 DEF IInv, Apart, Accounted
  <2> QED
    BY <2>6, <2>7
<1>12. CASE SendFails
  <2>1. /\ sender.holder \in Holders /\ sender'.holder = 0
        /\ freeList' = ListWith(sender.holder) /\ packet' = Without(packet, sender.holder)
        /\ UNCHANGED <<packetQueue, client>>
    BY <1>12, Hands DEF SendFails, Done, FreePacketHolder, Waiting, IInv
  <2>2. sender.holder \notin Elems(freeList)
    BY DEF IInv, Apart
  <2>3. Offering' = Offering /\ InHands' = InHands
    BY <2>1 DEF Offering, InHands
  <2>4. /\ Distinct(freeList')
        /\ Elems(freeList') \in {Elems(freeList), Elems(freeList) \cup {sender.holder}}
        /\ \A k \in Holders \ {sender.holder} : packet'[k] = packet[k]
        /\ packet'[sender.holder] # Freed <=> sender.holder \in Elems(freeList')
    BY <1>p, <2>1, <2>2, Freeing DEF IInv, Apart
  <2>5. 0 \notin Elems(packetQueue) \cup Elems(freeList') \cup InHands
    BY <1>h, <1>q, <2>1, <2>4, Hands, ElemsIn DEF IInv, InHands
  <2>6. Apart'
    BY <2>1, <2>2, <2>3, <2>4, <2>5 DEF IInv, Apart
  <2>7. Accounted'
    BY <1>h, <2>1, <2>3, <2>4 DEF IInv, Apart, Accounted
  <2> QED
    BY <2>6, <2>7
<1>13. CASE EndText
  <2>1. /\ sender.holder \in Holders /\ sender'.holder = 0
        /\ freeList' = ListWith(sender.holder) /\ packet' = Without(packet, sender.holder)
        /\ UNCHANGED <<packetQueue, client>>
    BY <1>13, Hands DEF EndText, Done, FreePacketHolder, Waiting, IInv
  <2>2. sender.holder \notin Elems(freeList)
    BY DEF IInv, Apart
  <2>3. Offering' = Offering /\ InHands' = InHands
    BY <2>1 DEF Offering, InHands
  <2>4. /\ Distinct(freeList')
        /\ Elems(freeList') \in {Elems(freeList), Elems(freeList) \cup {sender.holder}}
        /\ \A k \in Holders \ {sender.holder} : packet'[k] = packet[k]
        /\ packet'[sender.holder] # Freed <=> sender.holder \in Elems(freeList')
    BY <1>p, <2>1, <2>2, Freeing DEF IInv, Apart
  <2>5. 0 \notin Elems(packetQueue) \cup Elems(freeList') \cup InHands
    BY <1>h, <1>q, <2>1, <2>4, Hands, ElemsIn DEF IInv, InHands
  <2>6. Apart'
    BY <2>1, <2>2, <2>3, <2>4, <2>5 DEF IInv, Apart
  <2>7. Accounted'
    BY <1>h, <2>1, <2>3, <2>4 DEF IInv, Apart, Accounted
  <2> QED
    BY <2>6, <2>7
<1>14. CASE EndsDrained \/ Peek \/ TextWaited \/ SendCodePoint
  <2>1. /\ UNCHANGED <<packetQueue, freeList, packet, client>> /\ sender'.holder = sender.holder
    BY <1>14 DEF EndsDrained, Peek, TextWaited, SendCodePoint, IInv, Types, SenderTypes
  <2>2. Offering' = Offering /\ InHands' = InHands
    BY <2>1 DEF Offering, InHands
  <2> QED
    BY <2>1, <2>2 DEF IInv, Apart, Accounted
<1>15. CASE Destroy
  <2>1. /\ packetQueue' = <<>> /\ freeList' = <<>> /\ UNCHANGED <<client, sender>>
        /\ packet' = [h \in Holders |->
             IF \E i \in DOMAIN packetQueue : packetQueue[i] = h THEN Freed
             ELSE IF \E i \in DOMAIN freeList : freeList[i] = h THEN Freed ELSE packet[h]]
    BY <1>15 DEF Destroy
  <2>2. Offering = {} /\ Offering' = {} /\ InHands = {} /\ InHands' = {}
    BY <1>15, <2>1 DEF Destroy, Offering, InHands
  <2>3. sender.holder = 0
    BY <1>15 DEF Destroy, IInv, Types, SenderTypes
  <2>4. DOMAIN packetQueue = 1..Len(packetQueue) /\ DOMAIN freeList = 1..Len(freeList)
    BY <1>q
  <2>5. \A h \in Holders : packet'[h] = Freed
    BY <1>h, <2>1, <2>2, <2>3, <2>4 DEF IInv, Accounted, Elems
  <2> QED
    BY <1>h, <2>1, <2>2, <2>3, <2>5, Empty DEF Apart, Accounted
<1>16. CASE Interrupt \/ RefuseCalls \/ ShutFreeList \/ Drain \/ Join
  BY <1>16
  DEF Interrupt, RefuseCalls, ShutFreeList, Drain, Join, IInv, Apart, Accounted,
      Offering, InHands
<1>17. CASE HostAcknowledges \/ ReceiveThreadServes \/ ReceiveThreadEnds \/ Ping
          \/ PeerLost
  BY <1>17
  DEF HostAcknowledges, ReceiveThreadServes, ReceiveThreadEnds, Ping, PeerLost,
      IInv, Apart, Accounted, Offering, InHands
<1>18. CASE UNCHANGED vars
  BY <1>18 DEF vars, IInv, Apart, Accounted, Offering, InHands
<1> QED
  BY <1>0, <1>1, <1>2, <1>3, <1>4, <1>5, <1>6, <1>7, <1>8, <1>9, <1>10, <1>11,
     <1>12, <1>13, <1>14, <1>15, <1>16, <1>17, <1>18
  DEF Next, ClientStep, SenderStep, StopStep, ReceiveStep, Over

(* Only the sender takes packets out of the queue.                         *)
LEMMA PeekedStep ==
  ASSUME IInv, [Next]_vars
  PROVE  PeekedFirst'
<1> USE DEF queueVars, clientVars, sendVars, stopVars, controlVars
<1>0. Scrollers \subseteq Clients
  BY InputAssumption
<1>h. sender.pc = "poll" =>
        /\ Head(packetQueue) \in Holders /\ Head(packetQueue) \in Elems(packetQueue)
        /\ sender.holder \in Holders
  BY Taken, Hands DEF IInv, Types, QueueTypes, PeekedFirst
<1>1. ASSUME NEW c \in Clients, AllocateRecycled(c)
     PROVE  PeekedFirst'
  <2> DEFINE h == client'[c].holder
  <2>1. /\ packet' = [packet EXCEPT ![h] = client[c].event] /\ h \in Holders
        /\ UNCHANGED <<packetQueue, sender>>
        /\ h \notin Elems(packetQueue) /\ h # sender.holder
    <3>1. /\ client' = [client EXCEPT ![c].pc = "offer", ![c].holder = Head(freeList)]
          /\ packet' = [packet EXCEPT ![Head(freeList)] = client[c].event]
          /\ freeList # <<>> /\ UNCHANGED <<packetQueue, sender>>
      BY <1>1 DEF AllocateRecycled, Fill
    <3>2. Head(freeList) \in Elems(freeList) /\ Head(freeList) \in Holders
      BY <3>1, Taken DEF IInv, Types, QueueTypes
    <3>3. h = Head(freeList)
      BY <3>1 DEF IInv, Types, ClientTypes
    <3> QED
      BY <3>1, <3>2, <3>3 DEF IInv, Apart
  <2>2. \A k \in Holders \ {h} : packet'[k] = packet[k]
    BY <2>1
  <2> HIDE DEF h
  <2> QED
    BY <1>h, <2>1, <2>2 DEF IInv, PeekedFirst
<1>2. ASSUME NEW c \in Clients, AllocateNew(c)
     PROVE  PeekedFirst'
  <2> DEFINE h == client'[c].holder
  <2>1. /\ packet' = [packet EXCEPT ![h] = client[c].event] /\ h \in Holders
        /\ UNCHANGED <<packetQueue, sender>>
        /\ h \notin Elems(packetQueue) /\ h # sender.holder
    <3>1. /\ client' = [client EXCEPT ![c].pc = "offer", ![c].holder = Malloc]
          /\ packet' = [packet EXCEPT ![Malloc] = client[c].event]
          /\ UNCHANGED <<packetQueue, sender>>
      BY <1>2 DEF AllocateNew, Fill
    <3>2. Malloc \in Holders /\ packet[Malloc] = Freed
      BY <1>2, FreshHolder DEF AllocateNew
    <3>3. h = Malloc
      BY <3>1 DEF IInv, Types, ClientTypes
    <3> QED
      BY <3>1, <3>2, <3>3 DEF IInv, Accounted
  <2>2. \A k \in Holders \ {h} : packet'[k] = packet[k]
    BY <2>1
  <2> HIDE DEF h
  <2> QED
    BY <1>h, <2>1, <2>2 DEF IInv, PeekedFirst
<1>3. ASSUME NEW c \in Clients, Offer(c)
     PROVE  PeekedFirst'
  <2>1. /\ packetQueue' = Append(packetQueue, client[c].holder) /\ c \in Offering
        /\ UNCHANGED <<packet, sender>>
    BY <1>3 DEF Offer, Offering
  <2>2. packetQueue # <<>> => packetQueue' # <<>> /\ Head(packetQueue') = Head(packetQueue)
    BY <2>1, Hands, Appended DEF IInv, Types, QueueTypes
  <2> QED
    BY <2>1, <2>2 DEF IInv, PeekedFirst
<1>4. ASSUME NEW c \in Clients, OfferFails(c)
     PROVE  PeekedFirst'
  <2> DEFINE h == client[c].holder
  <2>1. /\ c \in Offering /\ freeList' = ListWith(h) /\ packet' = Without(packet, h)
        /\ UNCHANGED <<packetQueue, sender>>
    BY <1>4 DEF OfferFails, Offering, FreePacketHolder
  <2>2. h \in InHands /\ h \in Holders
    BY <2>1, Hands DEF InHands, IInv
  <2> HIDE DEF h
  <2>3. h \notin Elems(packetQueue) /\ h # sender.holder
    BY <2>2 DEF IInv, Apart
  <2>4. \A k \in Holders \ {h} : packet'[k] = packet[k]
    BY <2>1, <2>2, Freeing DEF IInv, Types, PacketTypes
  <2> QED
    BY <1>h, <2>1, <2>3, <2>4 DEF IInv, PeekedFirst
<1>5. CASE Poll
  <2>1. sender'.pc # "poll"
    BY <1>5, Merging DEF IInv
  <2> QED
    BY <2>1 DEF PeekedFirst
<1>6. CASE Take
  <2>1. sender'.pc # "poll"
    BY <1>6 DEF Take, Waiting
  <2> QED
    BY <2>1 DEF PeekedFirst
<1>7. CASE Send \/ SendFails \/ EndText
  <2>1. sender'.pc # "poll"
    BY <1>7 DEF Send, SendFails, EndText, Waiting
  <2> QED
    BY <2>1 DEF PeekedFirst
<1>8. CASE EndBatch \/ TextWaited \/ EndsDrained \/ SendCodePoint
  <2>1. sender'.pc # "poll"
    BY <1>8 DEF EndBatch, TextWaited, EndsDrained, SendCodePoint, IInv, Types, SenderTypes
  <2> QED
    BY <2>1 DEF PeekedFirst
<1>9. CASE Peek
  BY <1>9 DEF Peek, Types, SenderTypes, Batches, IInv, PeekedFirst
<1>10. CASE Destroy
  <2>1. sender'.pc # "poll"
    BY <1>10 DEF Destroy, IInv, Types, SenderTypes
  <2> QED
    BY <2>1 DEF PeekedFirst
<1>11. ASSUME NEW c \in Clients, NEW e \in Events[c], Call(c, e)
     PROVE  PeekedFirst'
  BY <1>11 DEF Call, IInv, PeekedFirst
<1>12. ASSUME NEW c \in Scrollers, NEW amount \in Amounts, Scroll(c, amount)
     PROVE  PeekedFirst'
  BY <1>12 DEF Scroll, IInv, PeekedFirst
<1>13. ASSUME NEW c \in Clients, AllocateFails(c)
     PROVE  PeekedFirst'
  BY <1>13 DEF AllocateFails, IInv, PeekedFirst
<1>14. CASE Interrupt \/ RefuseCalls \/ ShutFreeList \/ Drain \/ Join
  BY <1>14
  DEF Interrupt, RefuseCalls, ShutFreeList, Drain, Join, IInv, PeekedFirst
<1>15. CASE HostAcknowledges \/ ReceiveThreadServes \/ ReceiveThreadEnds \/ Ping
          \/ PeerLost
  BY <1>15
  DEF HostAcknowledges, ReceiveThreadServes, ReceiveThreadEnds, Ping, PeerLost,
      IInv, PeekedFirst
<1>16. CASE UNCHANGED vars
  BY <1>16 DEF vars, IInv, PeekedFirst
<1> QED
  BY <1>0, <1>1, <1>2, <1>3, <1>4, <1>5, <1>6, <1>7, <1>8, <1>9, <1>10, <1>11,
     <1>12, <1>13, <1>14, <1>15, <1>16
  DEF Next, ClientStep, SenderStep, StopStep, ReceiveStep, Over

LEMMA Inductive == IInv /\ [Next]_vars => IInv'
BY QueueTypesStep, PacketTypesStep, ClientTypesStep, SenderTypesStep, ScrollStep, PeekedStep,
   OwnedStep DEF IInv, Types

LEMMA Invariant == Spec => []IInv
BY InitIInv, Inductive, PTL DEF Spec

-----------------------------------------------------------------------------
(* From places to numbers.                                                 *)

LEMMA TimesIn ==
  ASSUME NEW s \in Seq(Holders), Distinct(s), NEW h
  PROVE  Cardinality({i \in DOMAIN s : s[i] = h}) = IF h \in Elems(s) THEN 1 ELSE 0
<1>1. DOMAIN s = 1..Len(s)
  OBVIOUS
<1>2. CASE h \in Elems(s)
  <2>1. PICK i \in 1..Len(s) : s[i] = h
    BY <1>2 DEF Elems
  <2>2. {j \in DOMAIN s : s[j] = h} = {i}
    BY <1>1, <2>1 DEF Distinct
  <2> QED
    BY <1>2, <2>2, FS_Singleton
<1>3. CASE h \notin Elems(s)
  <2>1. {j \in DOMAIN s : s[j] = h} = {}
    BY <1>1, <1>3 DEF Elems
  <2> QED
    BY <1>3, <2>1, FS_EmptySet
<1> QED
  BY <1>2, <1>3

LEMMA TimesHeld ==
  ASSUME Apart, NEW h
  PROVE  Cardinality({c \in Clients : client[c].pc = "offer" /\ client[c].holder = h})
           = IF h \in InHands THEN 1 ELSE 0
<1> DEFINE S == {c \in Clients : client[c].pc = "offer" /\ client[c].holder = h}
<1>1. CASE h \in InHands
  <2>1. PICK c \in Offering : client[c].holder = h
    BY <1>1 DEF InHands
  <2>2. S = {c}
    BY <2>1 DEF Apart, Offering
  <2> QED
    BY <1>1, <2>2, FS_Singleton
<1>2. CASE h \notin InHands
  <2>1. S = {}
    BY <1>2 DEF InHands, Offering
  <2> QED
    BY <1>2, <2>1, FS_EmptySet
<1> QED
  BY <1>1, <1>2

(* Every holder that is allocated is in exactly one place, and a freed one *)
(* in none, whatever the clients send, whatever fails, and when the stream *)
(* is stopped and destroyed.                                               *)
THEOREM Owned == Spec => []HoldersOwned
<1>1. ASSUME IInv PROVE HoldersOwned
  <2>1. TypeOK
    <3>1. \A h \in Holders : packet[h].kind = "move" => packet[h].val[1] \in DeltaMin..DeltaMax
      BY <1>1 DEF IInv, Types, PacketTypes, Motion
    <3>2. /\ \A c \in Clients : client[c].pc \in {"idle", "allocate", "offer"}
          /\ sender.pc \in {"wait", "peek", "poll", "send", "transit", "split", "drained",
                            "failed"}
      BY <1>1 DEF IInv, Types, ClientTypes, SenderTypes
    <3> QED
      BY <1>1, <3>1, <3>2 DEF IInv, Types, QueueTypes, TypeOK
  <2>2. ASSUME NEW h \in Holders
        PROVE  Cardinality({i \in DOMAIN packetQueue : packetQueue[i] = h})
               + Cardinality({i \in DOMAIN freeList : freeList[i] = h})
               + (Cardinality({c \in Clients : client[c].pc = "offer" /\ client[c].holder = h})
                  + (IF sender.holder = h THEN 1 ELSE 0))
                 = IF packet[h] = Freed THEN 0 ELSE 1
    <3>1. /\ Cardinality({i \in DOMAIN packetQueue : packetQueue[i] = h})
               = IF h \in Elems(packetQueue) THEN 1 ELSE 0
          /\ Cardinality({i \in DOMAIN freeList : freeList[i] = h})
               = IF h \in Elems(freeList) THEN 1 ELSE 0
      BY <1>1, TimesIn DEF IInv, Types, QueueTypes, Apart
    <3>2. Cardinality({c \in Clients : client[c].pc = "offer" /\ client[c].holder = h})
            = IF h \in InHands THEN 1 ELSE 0
      BY <1>1, TimesHeld DEF IInv
    <3>3. /\ h \in Elems(packetQueue) =>
               h \notin Elems(freeList) /\ h \notin InHands /\ sender.holder # h
          /\ h \in Elems(freeList) => h \notin InHands /\ sender.holder # h
          /\ h \in InHands => sender.holder # h
      BY <1>1 DEF IInv, Apart
    <3>4. packet[h] # Freed <=> \/ h \in Elems(packetQueue) \/ h \in Elems(freeList)
                                \/ h \in InHands \/ sender.holder = h
      BY <1>1 DEF IInv, Accounted
    <3> QED
      BY <3>1, <3>2, <3>3, <3>4
  <2> QED
    BY <2>1, <2>2 DEF HoldersOwned
<1> QED
  BY <1>1, Invariant, PTL

(* After a call that succeeds, less than a notch of what was asked for     *)
(* since the direction changed is not queued, and nothing in the other     *)
(* direction.                                                              *)
THEOREM Exact == Spec => []ScrollExact
<1>1. ASSUME IInv PROVE ScrollExact
  <2>1. /\ wheel.asked \in Int /\ wheel.accepted \in Int
        /\ batchedScrollDelta = wheel.asked - wheel.accepted
        /\ wheel.exact => ~Whole(batchedScrollDelta)
        /\ wheel.asked >= 0 => wheel.accepted >= 0
        /\ wheel.asked <= 0 => wheel.accepted <= 0
    BY <1>1 DEF IInv, ScrollState
  <2>2. wheel.exact => Abs(wheel.asked - wheel.accepted) < WheelDelta
    BY <2>1, AbsFacts, InputAssumption DEF Whole
  <2>3. wheel.accepted * wheel.asked >= 0
    <3>1. ~(wheel.accepted * wheel.asked < 0)
      BY <2>1, ProductFacts
    <3>2. wheel.accepted * wheel.asked \in Int
      BY <2>1
    <3> QED
      BY <3>1, <3>2
  <2> QED
    BY <2>2, <2>3 DEF ScrollExact
<1> QED
  BY <1>1, Invariant, PTL

-----------------------------------------------------------------------------
(* While the host is there and has not acknowledged all input, reliable    *)
(* data is in transit.                                                     *)
Unheard ==
  /\ transit \in {"none", "unacknowledged", "acknowledged"}
  /\ connected /\ unheard => transit = "unacknowledged"

LEMMA UnheardStep ==
  ASSUME Unheard, [Next]_vars
  PROVE  Unheard'
<1> USE DEF queueVars, clientVars, sendVars, stopVars, controlVars
<1>0. Scrollers \subseteq Clients
  BY InputAssumption
<1>1. CASE Send
  BY <1>1 DEF Send, SendMessage, Unheard
<1>2. CASE SendCodePoint
  BY <1>2 DEF SendCodePoint, SendMessage, Unheard
<1>3. ASSUME NEW c \in Clients, NEW e \in Events[c], Call(c, e)
     PROVE  Unheard'
  BY <1>3 DEF Call, Unheard
<1>4. ASSUME NEW c \in Scrollers, NEW amount \in Amounts, Scroll(c, amount)
     PROVE  Unheard'
  BY <1>4 DEF Scroll, Unheard
<1>5. ASSUME NEW c \in Clients, AllocateFails(c)
     PROVE  Unheard'
  BY <1>5 DEF AllocateFails, Unheard
<1>6. ASSUME NEW c \in Clients, AllocateRecycled(c)
     PROVE  Unheard'
  BY <1>6 DEF AllocateRecycled, Fill, Unheard
<1>7. ASSUME NEW c \in Clients, AllocateNew(c)
     PROVE  Unheard'
  BY <1>7 DEF AllocateNew, Fill, Unheard
<1>8. ASSUME NEW c \in Clients, Offer(c)
     PROVE  Unheard'
  BY <1>8 DEF Offer, Unheard
<1>9. ASSUME NEW c \in Clients, OfferFails(c)
     PROVE  Unheard'
  BY <1>9 DEF OfferFails, Unheard
<1>10. CASE Take \/ EndsDrained \/ Peek \/ EndBatch \/ Poll \/ SendFails \/
          TextWaited \/ EndText
  BY <1>10
  DEF Take, EndsDrained, Peek, EndBatch, Poll, SendFails, TextWaited, EndText,
      Unheard
<1>11. CASE Interrupt \/ RefuseCalls \/ ShutFreeList \/ Drain \/ Join \/ Destroy
  BY <1>11
  DEF Interrupt, RefuseCalls, ShutFreeList, Drain, Join, Destroy, Unheard
<1>12. CASE HostAcknowledges \/ ReceiveThreadServes \/ ReceiveThreadEnds \/ Ping
          \/ PeerLost
  BY <1>12
  DEF HostAcknowledges, ReceiveThreadServes, ReceiveThreadEnds, Ping, PeerLost,
      Unheard
<1>13. CASE UNCHANGED vars
  BY <1>13 DEF vars, Unheard
<1> QED
  BY <1>0, <1>1, <1>2, <1>3, <1>4, <1>5, <1>6, <1>7, <1>8, <1>9, <1>10, <1>11,
     <1>12, <1>13
  DEF Next, ClientStep, SenderStep, StopStep, ReceiveStep, Over

TextLeaves == sender.pc = "transit" /\ sender'.pc = "split" => ~unheard \/ ~connected

LEMMA TextStep ==
  ASSUME Types, Unheard, [Next]_vars
  PROVE  TextLeaves
<1> USE DEF queueVars, clientVars, sendVars, stopVars, controlVars
<1>0. Scrollers \subseteq Clients
  BY InputAssumption
<1>1. CASE Take
  BY <1>1 DEF Take, TextLeaves
<1>2. CASE Poll
  BY <1>2 DEF Poll, TextLeaves
<1>3. CASE EndBatch
  BY <1>3 DEF EndBatch, TextLeaves
<1>4. CASE EndText
  BY <1>4 DEF EndText, TextLeaves
<1>5. CASE SendCodePoint
  BY <1>5 DEF SendCodePoint, TextLeaves
<1>6. CASE Send
  BY <1>6 DEF Send, TextLeaves
<1>7. CASE SendFails
  BY <1>7 DEF SendFails, TextLeaves
<1>8. CASE EndsDrained
  BY <1>8 DEF EndsDrained, Types, SenderTypes, TextLeaves
<1>9. CASE Peek
  BY <1>9 DEF Peek, Types, SenderTypes, TextLeaves
<1>10. CASE TextWaited
  BY <1>10 DEF TextWaited, Unheard, TextLeaves
<1>11. ASSUME NEW c \in Clients, NEW e \in Events[c], Call(c, e)
     PROVE  TextLeaves
  BY <1>11 DEF Call, TextLeaves
<1>12. ASSUME NEW c \in Scrollers, NEW amount \in Amounts, Scroll(c, amount)
     PROVE  TextLeaves
  BY <1>12 DEF Scroll, TextLeaves
<1>13. ASSUME NEW c \in Clients, AllocateFails(c)
     PROVE  TextLeaves
  BY <1>13 DEF AllocateFails, TextLeaves
<1>14. ASSUME NEW c \in Clients, AllocateRecycled(c)
     PROVE  TextLeaves
  BY <1>14 DEF AllocateRecycled, Fill, TextLeaves
<1>15. ASSUME NEW c \in Clients, AllocateNew(c)
     PROVE  TextLeaves
  BY <1>15 DEF AllocateNew, Fill, TextLeaves
<1>16. ASSUME NEW c \in Clients, Offer(c)
     PROVE  TextLeaves
  BY <1>16 DEF Offer, TextLeaves
<1>17. ASSUME NEW c \in Clients, OfferFails(c)
     PROVE  TextLeaves
  BY <1>17 DEF OfferFails, TextLeaves
<1>18. CASE Interrupt \/ RefuseCalls \/ ShutFreeList \/ Drain \/ Join \/ Destroy
  BY <1>18
  DEF Interrupt, RefuseCalls, ShutFreeList, Drain, Join, Destroy, TextLeaves
<1>19. CASE HostAcknowledges \/ ReceiveThreadServes \/ ReceiveThreadEnds \/ Ping
          \/ PeerLost
  BY <1>19
  DEF HostAcknowledges, ReceiveThreadServes, ReceiveThreadEnds, Ping, PeerLost,
      TextLeaves
<1>20. CASE UNCHANGED vars
  BY <1>20 DEF vars, TextLeaves
<1> QED
  BY <1>0, <1>1, <1>2, <1>3, <1>4, <1>5, <1>6, <1>7, <1>8, <1>9, <1>10, <1>11,
     <1>12, <1>13, <1>14, <1>15, <1>16, <1>17, <1>18, <1>19, <1>20
  DEF Next, ClientStep, SenderStep, StopStep, ReceiveStep, Over

(* A text leaves only when the host has acknowledged all earlier input, or *)
(* is lost.                                                                *)
THEOREM TextWaits == Spec => TextAfterInput
<1>1. Init => Unheard
  BY DEF Init, Unheard
<1>2. Unheard /\ [Next]_vars => Unheard'
  BY UnheardStep
<1>3. IInv /\ Unheard /\ [Next]_vars => [TextLeaves]_vars
  BY TextStep DEF IInv
<1> QED
  BY <1>1, <1>2, <1>3, Invariant, PTL DEF Spec, TextAfterInput, TextLeaves
=============================================================================
