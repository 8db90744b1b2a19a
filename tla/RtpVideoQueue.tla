--------------------------- MODULE RtpVideoQueue ---------------------------
(***************************************************************************)
(* RtpVideoQueue.c: collecting the packets of a frame, FEC block by FEC    *)
(* block, recovering what parity allows, handing whole frames to the       *)
(* depacketizer and telling it of the frames that will not come.           *)
(*                                                                         *)
(* RtpvAddPacket() runs on the video receive thread alone and is one       *)
(* action.  The interleaving is that of the network, which loses, reorders *)
(* and duplicates packets.  Sequence numbers wrap at SeqModulus as 16 bit  *)
(* numbers do; parity packets follow the data packets of their block.      *)
(***************************************************************************)
EXTENDS Integers, Sequences, FiniteSets, SequencesExt

CONSTANTS Blocks,        \* Blocks[f]: FEC blocks of frame f
          Data,          \* data packets of a block
          Parity,        \* parity packets of a block
          Extra,         \* parity packets of a block beyond the announced ones
          SeqModulus,    \* sequence numbers are taken modulo this
          FirstSeq,      \* the sequence number a stream begins with
          Cooldown,      \* SPECULATIVE_RFI_COOLDOWN_PERIOD_MS, in frames
          Window,        \* bound: packets in flight
          MaxLost,       \* bound: packets lost
          MaxReorder,    \* bound: packets delivered before an older one
          MaxDup,        \* bound: packets delivered twice
          DupAndReorder  \* both may happen in one behaviour

Frames == DOMAIN Blocks
Size == Data + Parity

(* A frame has up to 4 blocks, as two bits number them.  A block has some  *)
(* hundred packets at most, sequence numbers have 16 bits.                 *)
ASSUME QueueAssumption ==
  /\ Blocks \in Seq(1..4)
  /\ Data \in Nat \ {0} /\ Parity \in Nat /\ Extra \in Nat
  /\ SeqModulus \in Nat \ {0, 1} /\ FirstSeq \in Nat
  /\ Size + Extra <= SeqModulus \div 2
  /\ Cooldown \in Nat
  /\ {Window, MaxLost, MaxReorder, MaxDup} \subseteq Nat /\ DupAndReorder \in BOOLEAN

VARIABLES
  currentFrameNumber, multiFecCurrentBlockNumber,
  buf,                     \* the FEC block being collected
  completedFecBlockList,   \* packets of the blocks before it
  receivedOosData, lastOosFrame,
  \* external: the host and the network
  toSend, net, echo, lost, faults,
  \* history: what the depacketizer was given and told
  submitted, notes

queueVars == <<currentFrameNumber, multiFecCurrentBlockNumber, buf,
               completedFecBlockList, receivedOosData, lastOosFrame>>
netVars == <<toSend, net, echo, lost, faults>>
vars == <<queueVars, netVars, submitted, notes>>

U16(n) == n % SeqModulus
IsBefore16(x, y) == U16(x - y) >= SeqModulus \div 2

(* A fresh block.  next is nextContiguousSequenceNumber, highest           *)
(* receivedHighestSequenceNumber, pending the list in order of arrival.    *)
Block(lowest, lastBlock) ==
  [lowest |-> lowest, next |-> lowest, highest |-> 0, missing |-> 0,
   data |-> 0, parity |-> 0, lastBlock |-> lastBlock, reported |-> FALSE,
   pending |-> <<>>]

Init ==
  /\ currentFrameNumber = 1 /\ multiFecCurrentBlockNumber = 0
  /\ buf = Block(0, 0)
  /\ completedFecBlockList = <<>>
  /\ receivedOosData = FALSE /\ lastOosFrame = 0
  /\ toSend = [frame |-> 1, block |-> 0, index |-> 0, id |-> FirstSeq]
  /\ net = {} /\ echo = {} /\ lost = {} /\ faults = [reorder |-> 0, dup |-> 0]
  /\ submitted = <<>> /\ notes = <<>>

-----------------------------------------------------------------------------
(* Packets, and what the queue computes from one.                          *)

Seqnum(p) == U16(p.id)
FecLowest(p) == U16(Seqnum(p) - p.index)
FirstParity(b) == U16(b.lowest + Data)
HighestSeqnum(b) == U16(b.lowest + Size - 1)
IsData(b, p) == IsBefore16(Seqnum(p), FirstParity(b))
Pending(b) == {Seqnum(b.pending[i]) : i \in DOMAIN b.pending}

(* queuePacket(): the next contiguous packet is not compared with the      *)
(* pending ones.                                                           *)
Contiguous(b, p) == Seqnum(p) = b.next

Duplicate(b, p) == ~Contiguous(b, p) /\ Seqnum(p) \in Pending(b)

OutOfSequence(b, p) ==
  IF Contiguous(b, p) THEN b.missing # 0
  ELSE \E s \in Pending(b) : IsBefore16(Seqnum(p), s)

Queued(b, p) ==
  [b EXCEPT !.next = IF Contiguous(b, p) THEN U16(Seqnum(p) + 1) ELSE @,
            !.pending = Append(@, p)]

(* Mutant: the packet itself is counted as missing. *)
NewlyMissingOffByOne(b, p) ==
  IF Len(b.pending) = 1 THEN U16(Seqnum(p) - b.lowest)
  ELSE U16(Seqnum(p) - b.highest)

(* The counters after p was queued as b.                                   *)
NewlyMissing(b, p) ==
  IF Len(b.pending) = 1 THEN U16(Seqnum(p) - b.lowest)
  ELSE U16(Seqnum(p) - b.highest - 1)

Counted(b, p) ==
  LET above == Len(b.pending) = 1 \/ IsBefore16(b.highest, Seqnum(p))
  IN  [b EXCEPT
        !.missing = IF above THEN @ + NewlyMissing(b, p) ELSE @ - 1,
        !.highest = IF above THEN Seqnum(p) ELSE @,
        !.data = IF IsData(b, p) THEN @ + 1 ELSE @,
        !.parity = IF IsData(b, p) THEN @ ELSE @ + 1]

(* Mutant: parity packets do not count. *)
ReconstructsFromData(b) == b.data >= Data

(* reconstructFrame(): enough packets, whichever they are.                 *)
Reconstructs(b) == Len(b.pending) >= Data

Hopeless(b) == b.missing > Parity

(* Data packets parity brings back; they are queued in order.              *)
Recovered(b) ==
  IF b.data = Data THEN <<>>
  ELSE LET have == {b.pending[i].index : i \in DOMAIN b.pending}
           some == b.pending[1]
           At(i) == [some EXCEPT !.index = i, !.id = (some.id - some.index) + i]
           absent == SetToSortSeq((0..(Data - 1)) \ have, <)
       IN  [i \in DOMAIN absent |-> At(absent[i])]

(* stageCompleteFecBlock(): the data packets by sequence number.           *)
Staged(b) ==
  LET all == b.pending \o Recovered(b)
      data == {i \in DOMAIN all : IsData(b, all[i])}
      Earlier(i, j) == \/ all[i].index < all[j].index
                       \/ all[i].index = all[j].index /\ i < j
      order == SetToSortSeq(data, Earlier)
  IN  [k \in DOMAIN order |-> [block |-> all[order[k]].block,
                               index |-> all[order[k]].index]]

(* The recovered packets are queued in order: those that continue the      *)
(* contiguous ones move the end of these on.                               *)
RecoveredNext(b) ==
  LET recovered == {Seqnum(Recovered(b)[i]) : i \in DOMAIN Recovered(b)}
      run == {n \in 0..(Data - 1) : \A m \in 0..n : U16(b.next + m) \in recovered}
  IN  U16(b.next + Cardinality(run))

-----------------------------------------------------------------------------
(* RtpvAddPacket(), one action for each way out.                           *)

BlockStarts(p) ==
  \/ buf.pending = <<>>
  \/ currentFrameNumber # p.frame
  \/ multiFecCurrentBlockNumber # p.block

ExpectedBlock(p) ==
  IF currentFrameNumber = p.frame THEN multiFecCurrentBlockNumber ELSE 0

Note(f, speculative) ==
  [frame |-> f, speculative |-> speculative, after |-> Len(submitted)]

(* Behind the window, an earlier frame, or an earlier block of this one.   *)
Outdated(p) ==
  \/ IsBefore16(Seqnum(p), buf.next)
  \/ p.frame < currentFrameNumber
  \/ p.frame = currentFrameNumber /\ p.block < multiFecCurrentBlockNumber

RejectOutdated(p) == Outdated(p) /\ UNCHANGED <<queueVars, submitted, notes>>

(* A later block of the current frame before the block is complete.        *)
BlockUnfinished(p) ==
  /\ ~Outdated(p) /\ BlockStarts(p)
  /\ buf.pending # <<>> /\ buf.lastBlock # 0 /\ currentFrameNumber = p.frame

(* Or a frame, or a block, whose beginning was lost.                       *)
BlocksSkipped(p) ==
  /\ ~Outdated(p) /\ BlockStarts(p) /\ ~BlockUnfinished(p)
  /\ p.block # ExpectedBlock(p)

AbandonFrame(f) ==
  /\ buf' = [buf EXCEPT !.pending = <<>>, !.reported = TRUE]
  /\ completedFecBlockList' = <<>>
  /\ notes' = IF buf.reported THEN notes
              ELSE Append(notes, Note(currentFrameNumber, FALSE))
  /\ currentFrameNumber' = f + 1
  /\ multiFecCurrentBlockNumber' = 0
  /\ UNCHANGED <<receivedOosData, lastOosFrame, submitted>>

RejectUnfinished(p) == BlockUnfinished(p) /\ AbandonFrame(currentFrameNumber)
RejectSkipped(p) == BlocksSkipped(p) /\ AbandonFrame(p.frame)

Considered(p) == ~Outdated(p) /\ ~BlockUnfinished(p) /\ ~BlocksSkipped(p)

RejectExtraParity(p) ==
  /\ Considered(p) /\ ~BlockStarts(p)
  /\ IsBefore16(HighestSeqnum(buf), Seqnum(p))
  /\ UNCHANGED <<queueVars, submitted, notes>>

RejectDuplicate(p) ==
  /\ Considered(p) /\ ~BlockStarts(p)
  /\ Duplicate(buf, p)
  /\ UNCHANGED <<queueVars, submitted, notes>>

(* The block p goes into, and what is told when a frame went missing.      *)
BlockOf(p) ==
  IF BlockStarts(p) THEN Block(FecLowest(p), Blocks[p.frame] - 1) ELSE buf

(* Mutant: the frame that arrives is told instead of the one before. *)
LossToldOffByOne(p) ==
  IF /\ currentFrameNumber # p.frame
     /\ currentFrameNumber + 1 # p.frame \/ ~buf.reported
  THEN <<Note(p.frame, FALSE)>> ELSE <<>>

LossTold(p) ==
  IF /\ currentFrameNumber # p.frame
     /\ currentFrameNumber + 1 # p.frame \/ ~buf.reported
  THEN <<Note(p.frame - 1, FALSE)>> ELSE <<>>

(* queuePacket() and the counters, then the outcome of reconstructFrame(). *)
Accepted(p) ==
  /\ Considered(p)
  /\ BlockStarts(p) \/ ~IsBefore16(HighestSeqnum(buf), Seqnum(p))
  /\ BlockStarts(p) \/ ~Duplicate(buf, p)
  /\ lastOosFrame' = IF OutOfSequence(BlockOf(p), p) THEN p.frame ELSE lastOosFrame

Collected(p) == Counted(Queued(BlockOf(p), p), p)

OosAfter(p) ==
  OutOfSequence(BlockOf(p), p)
    \/ (receivedOosData /\ p.frame <= lastOosFrame + Cooldown)

(* Mutant: the blocks of an abandoned frame stay. *)
CompletedKept(p) == completedFecBlockList

Completed(p) ==
  IF currentFrameNumber = p.frame THEN completedFecBlockList ELSE <<>>

AwaitMore(p) ==
  /\ Accepted(p)
  /\ LET b == Collected(p)
         predicted == ~b.reported /\ ~OosAfter(p) /\ Hopeless(b)
     IN  /\ ~Reconstructs(b)
         /\ buf' = [b EXCEPT !.reported = @ \/ predicted]
         /\ notes' = notes \o LossTold(p)
                        \o (IF predicted THEN <<Note(p.frame, TRUE)>> ELSE <<>>)
  /\ receivedOosData' = OosAfter(p)
  /\ currentFrameNumber' = p.frame
  /\ multiFecCurrentBlockNumber' = p.block
  /\ completedFecBlockList' = Completed(p)
  /\ UNCHANGED submitted

(* The block is staged and, after the last one, the frame submitted.       *)
CompleteBlock(p) ==
  /\ Accepted(p)
  /\ LET b == Collected(p)
         staged == Completed(p) \o Staged(b)
     IN  /\ Reconstructs(b)
         /\ buf' = [b EXCEPT !.pending = <<>>, !.next = RecoveredNext(b)]
         /\ receivedOosData' = (OosAfter(p) \/ b.reported)
         /\ notes' = notes \o LossTold(p)
         /\ \/ /\ p.block < b.lastBlock
               /\ completedFecBlockList' = staged
               /\ multiFecCurrentBlockNumber' = p.block + 1
               /\ currentFrameNumber' = p.frame
               /\ UNCHANGED submitted
            \/ /\ p.block = b.lastBlock
               /\ completedFecBlockList' = <<>>
               /\ multiFecCurrentBlockNumber' = 0
               /\ currentFrameNumber' = p.frame + 1
               /\ submitted' = Append(submitted, [frame |-> p.frame, packets |-> staged])

AddPacket(p) ==
  \/ RejectOutdated(p) \/ RejectUnfinished(p) \/ RejectSkipped(p)
  \/ RejectExtraParity(p) \/ RejectDuplicate(p)
  \/ AwaitMore(p) \/ CompleteBlock(p)

-----------------------------------------------------------------------------
(* External: the host sends packet after packet; the network loses,        *)
(* overtakes and repeats them.                                             *)

NextPacket(p) ==
  [frame |-> IF p.index + 1 < Size + Extra \/ p.block + 1 < Blocks[p.frame]
             THEN p.frame ELSE p.frame + 1,
   block |-> IF p.index + 1 < Size + Extra THEN p.block
             ELSE IF p.block + 1 < Blocks[p.frame] THEN p.block + 1 ELSE 0,
   index |-> (p.index + 1) % (Size + Extra),
   id    |-> p.id + 1]

Send ==
  /\ toSend.frame \in Frames
  /\ Cardinality(net) < Window
  /\ net' = net \cup {toSend}
  /\ toSend' = NextPacket(toSend)
  /\ UNCHANGED <<queueVars, echo, lost, faults, submitted, notes>>

Lose(p) ==
  /\ Cardinality(lost) < MaxLost
  /\ net' = net \ {p} /\ lost' = lost \cup {p}
  /\ UNCHANGED <<queueVars, toSend, echo, faults, submitted, notes>>

Overtakes(p) == \E q \in net : q.id < p.id

Receive(p) ==
  /\ net' = net \ {p}
  /\ \E again \in BOOLEAN :
       /\ echo' = IF again THEN echo \cup {p} ELSE echo
       /\ faults' = [reorder |-> faults.reorder + IF Overtakes(p) THEN 1 ELSE 0,
                     dup     |-> faults.dup + IF again THEN 1 ELSE 0]
  /\ faults'.reorder <= MaxReorder /\ faults'.dup <= MaxDup
  /\ DupAndReorder \/ faults'.reorder = 0 \/ faults'.dup = 0
  /\ AddPacket(p)
  /\ UNCHANGED <<toSend, lost>>

ReceiveAgain(p) ==
  /\ echo' = echo \ {p}
  /\ AddPacket(p)
  /\ UNCHANGED <<toSend, net, lost, faults>>

Next ==
  \/ Send
  \/ \E p \in net : Lose(p) \/ Receive(p)
  \/ \E p \in echo : ReceiveAgain(p)

Spec == Init /\ [][Next]_vars

-----------------------------------------------------------------------------
Packet == [frame : Nat, block : 0..3, index : 0..(Size + Extra - 1), id : Nat]

(* Every variable has its type; the block being collected is one that the  *)
(* current frame has, or is empty.                                         *)
TypeOK ==
  /\ currentFrameNumber \in Nat \ {0}
  /\ buf.pending \in Seq(Packet)
  /\ {buf.lowest, buf.next, buf.highest} \subseteq 0..(SeqModulus - 1)
  /\ buf.reported \in BOOLEAN /\ receivedOosData \in BOOLEAN
  /\ net \subseteq Packet /\ echo \subseteq Packet /\ lost \subseteq Packet
  /\ buf.pending # <<>> =>
       /\ currentFrameNumber \in Frames
       /\ multiFecCurrentBlockNumber <= buf.lastBlock
       /\ buf.lastBlock = Blocks[currentFrameNumber] - 1

(* What is pending is of the current block, nothing twice, and the         *)
(* counters agree with it: the holes below the highest packet, the data    *)
(* and the parity packets; there is no hole below the next contiguous      *)
(* packet (asserts at 116, 713-740; comment at 725-726).                   *)
Offset(n) == U16(n - buf.lowest)
Offsets == {Offset(n) : n \in Pending(buf)}
CountersAgree ==
  TypeOK /\ (buf.pending # <<>> =>
    /\ \A i \in DOMAIN buf.pending :
         /\ buf.pending[i].frame = currentFrameNumber
         /\ buf.pending[i].block = multiFecCurrentBlockNumber
    /\ Cardinality(Offsets) = Len(buf.pending)
    /\ buf.missing = Cardinality((0..Offset(buf.highest)) \ Offsets)
    /\ buf.data = Cardinality({o \in Offsets : o < Data})
    /\ buf.parity = Cardinality({o \in Offsets : o >= Data})
    /\ \A o \in 0..(Offset(buf.next) - 1) : o \in Offsets)

(* A submitted frame is every data packet of its blocks, once and in       *)
(* order, and frames are submitted in order.                               *)
Whole(f) == [k \in 1..(Blocks[f] * Data) |->
               [block |-> (k - 1) \div Data, index |-> (k - 1) % Data]]
SubmittedWhole ==
  /\ \A i \in DOMAIN submitted : submitted[i].packets = Whole(submitted[i].frame)
  /\ \A i, j \in DOMAIN submitted : i < j => submitted[i].frame < submitted[j].frame

SubmittedFrames == {submitted[i].frame : i \in DOMAIN submitted}

(* Frames are reported lost in order, again only after a prediction, never *)
(* one up to the newest submitted (assert at VideoDepacketizer.c 1002),    *)
(* and never submitted afterwards unless the report was a prediction.      *)
ReportsOrdered ==
  /\ \A i, j \in DOMAIN notes : i < j =>
       \/ notes[i].frame < notes[j].frame
       \/ notes[i].frame = notes[j].frame /\ notes[i].speculative
  /\ \A i \in DOMAIN notes :
       /\ notes[i].after # 0 => submitted[notes[i].after].frame < notes[i].frame
       /\ ~notes[i].speculative => notes[i].frame \notin SubmittedFrames

(* A prediction comes true as long as the network keeps the order (comment *)
(* at 203-206).                                                            *)
PredictionsTrue ==
  faults.reorder = 0 => \A i \in DOMAIN notes : notes[i].frame \notin SubmittedFrames

(* Both are what the depacketizer may rely on.                             *)
ReportsSound == ReportsOrdered /\ PredictionsTrue

(* When no block loses more packets than it has parity and the order is    *)
(* kept, every frame is submitted and none is reported, whatever is        *)
(* repeated.                                                               *)
LostOf(f, k) == {p \in lost : p.frame = f /\ p.block = k /\ p.index < Size}
FecSuffices ==
  (/\ faults.reorder = 0
   /\ \A p \in lost : Cardinality(LostOf(p.frame, p.block)) <= Parity)
    => notes = <<>> /\ Len(submitted) = currentFrameNumber - 1

(* When a frame begins and the frame before it was lost, that frame has    *)
(* been reported (comments at 656-661).                                    *)
Begins(f) == currentFrameNumber' = f /\ buf'.pending # <<>>
MostRecentLossReported ==
  [][\A f \in Frames \ {1} :
       Begins(f) /\ f - 1 \notin SubmittedFrames =>
         \E i \in DOMAIN notes' : notes'[i].frame = f - 1]_vars

(* A packet that is accepted behind the highest one fills a hole (assert   *)
(* and comment at 725-727).                                                *)
AcceptedFillsHole == buf.missing >= 0
=============================================================================
