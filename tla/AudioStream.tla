---------------------------- MODULE AudioStream ----------------------------
(***************************************************************************)
(* AudioStream.c over RtpAudioQueue.c: the receive thread puts the packets *)
(* of the network in order and hands them, with placeholders for what is   *)
(* lost, to the decoder thread through a bounded queue, or decodes them    *)
(* itself (CAPABILITY_DIRECT_SUBMIT).                                      *)
(*                                                                         *)
(* The host sends, for each block, its data packets and then its parity    *)
(* packets.  The network loses, delays and duplicates them.                *)
(***************************************************************************)
EXTENDS RtpAudioQueue

CONSTANTS DirectSubmit,   \* CAPABILITY_DIRECT_SUBMIT
          QueueBound,     \* bound of packetQueue (30)
          InitialDrop,    \* packetsToDrop at the start (500 ms of packets)
          FirstPosition,  \* position of the first packet the host sends
          LastPacket,     \* bound: packets sent, data and parity
          Odd,            \* packets of a different size
          Crooked,        \* parity packets with a misaligned base
          Window,         \* bound: packets sent while one is delayed
          MaxWaiting,     \* bound: blocks sent during RTPQ_OOS_WAIT_TIME_MS
          MaxLost,        \* bound: packets lost
          MaxStray        \* bound: packets delayed or delivered twice

ASSUME StreamAssumption ==
  /\ DirectSubmit \in BOOLEAN /\ QueueBound \in Nat \ {0}
  /\ FirstPosition \in Nat /\ FirstPosition % DataShards = 0
  /\ {InitialDrop, LastPacket, Window, MaxWaiting, MaxLost, MaxStray} \subseteq Nat

VARIABLES
  packetsToDrop, receivedDataFromPeer,   \* of the receive thread
  packetQueue,                           \* to the decoder thread
  heard,      \* history: position of the last packet decoded
  handed,     \* history: what the receive thread handed over last
  \* external: the network
  sent,       \* packets 0 .. sent-1 have been sent
  held,       \* those of them that are still under way
  lost,       \* history: those that were lost, from the oldest block on
  faults

threadVars == <<packetsToDrop, receivedDataFromPeer, packetQueue, heard, handed>>
netVars == <<sent, held, lost, faults>>
vars == <<queueVars, threadVars, netVars>>

(* What is handed over: a packet, or a placeholder of size 0.              *)
Item(kind, id) == [kind |-> kind, id |-> id]

Init ==
  /\ InitQueue
  /\ packetsToDrop = InitialDrop /\ receivedDataFromPeer = FALSE
  /\ packetQueue = <<>> /\ heard = -1 /\ handed = Item("none", 0)
  /\ sent = 0 /\ held = {} /\ lost = {}
  /\ faults = [lost |-> 0, stray |-> 0]

(* Packet n of the host.                                                   *)
BlockOf(n) == FirstPosition + DataShards * (n \div Total)
PacketAt(n) ==
  LET shard == n % Total
      size == IF n \in Odd THEN 2 ELSE 1
  IN  IF shard < DataShards
      THEN [kind |-> "audio", id |-> BlockOf(n) + shard, index |-> 0, base |-> 0,
            size |-> size]
      ELSE [kind |-> "fec", id |-> BlockOf(n), index |-> shard - DataShards,
            base |-> BlockOf(n) + (IF n \in Crooked THEN 1 ELSE 0), size |-> size]

-----------------------------------------------------------------------------
(* The network.  A packet is handled the moment it arrives.                *)

SendsNext == sent < LastPacket /\ \A m \in held : sent - m < Window

Lose ==
  /\ ~draining /\ SendsNext /\ faults.lost < MaxLost
  /\ faults' = [faults EXCEPT !.lost = @ + 1]
  /\ lost' = {n \in lost : BlockOf(n) + DataShards > position} \cup {sent}
  /\ sent' = sent + 1
  /\ UNCHANGED <<queueVars, threadVars, held>>

Delay ==
  /\ ~draining /\ SendsNext /\ faults.stray < MaxStray
  /\ faults' = [faults EXCEPT !.stray = @ + 1]
  /\ held' = held \cup {sent} /\ sent' = sent + 1
  /\ UNCHANGED <<queueVars, threadVars, lost>>

ArrivesInOrder(n) ==
  /\ n = sent /\ SendsNext
  /\ sent' = sent + 1
  /\ UNCHANGED <<held, lost, faults>>

ArrivesTwice(n) ==
  /\ n = sent /\ SendsNext /\ faults.stray < MaxStray
  /\ sent' = sent + 1 /\ held' = held \cup {n}
  /\ faults' = [faults EXCEPT !.stray = @ + 1]
  /\ UNCHANGED lost

ArrivesLate(n) ==
  /\ n \in held
  /\ held' = held \ {n}
  /\ UNCHANGED <<sent, lost, faults>>

Arrives(n) == ArrivesInOrder(n) \/ ArrivesTwice(n) \/ ArrivesLate(n)

-----------------------------------------------------------------------------
(* The receive thread.                                                     *)

(* Mutant: when the queue to the decoder is full, the new packet is put    *)
(* before the old ones.                                                    *)
OfferInFront(item) ==
  /\ packetQueue' = IF Len(packetQueue) < QueueBound THEN Append(packetQueue, item)
                    ELSE <<item>> \o packetQueue
  /\ UNCHANGED heard

(* queuePacketToLbq(): a full queue is flushed.                            *)
Offer(item) ==
  /\ packetQueue' = IF Len(packetQueue) < QueueBound THEN Append(packetQueue, item)
                    ELSE <<item>>
  /\ UNCHANGED heard

(* decodeInputData(): a placeholder triggers loss concealment.             *)
DecodeInputData(item) == heard' = IF item.kind = "lost" THEN heard ELSE item.id

HandOver(item) ==
  /\ handed' = item
  /\ IF DirectSubmit THEN DecodeInputData(item) /\ UNCHANGED packetQueue
     ELSE Offer(item)
  /\ UNCHANGED packetsToDrop

(* The first packets are those the host accumulated before the start:      *)
(* only data packets are counted.                                          *)
SkipBacklog(n) ==
  /\ ~draining /\ packetsToDrop > 0 /\ Arrives(n)
  /\ receivedDataFromPeer' = TRUE
  /\ packetsToDrop' = packetsToDrop - (IF IsAudio(PacketAt(n)) THEN 1 ELSE 0)
  /\ UNCHANGED <<queueVars, packetQueue, heard, handed>>

(* recvUdpSocket() times out: nothing is accumulated on the host.          *)
ReceiveTimeout ==
  /\ ~draining
  /\ packetsToDrop' = IF receivedDataFromPeer THEN 0 ELSE packetsToDrop
  /\ UNCHANGED <<queueVars, netVars, receivedDataFromPeer, packetQueue, heard, handed>>

Receives(n) ==
  /\ ~draining /\ packetsToDrop = 0 /\ Arrives(n)

KeepsAside(p, waited) ==
  \/ PassThrough(p) /\ ~IsAudio(p)
  \/ DisableFec(p)
  \/ Synchronize(p)
  \/ Reject(p)
  \/ StoreReady(p)
  \/ Resynchronize(p)
  \/ GiveUp(p, waited)
  \/ Wait(p, waited)

AddAside(n, waited) ==
  /\ Receives(n)
  /\ Len(blocks) >= MaxWaiting => waited
  /\ KeepsAside(PacketAt(n), waited)
  /\ receivedDataFromPeer' = TRUE
  /\ UNCHANGED <<packetsToDrop, packetQueue, heard, handed>>

AddAndHandOver(n) ==
  /\ Receives(n)
  /\ \/ HandleNow(PacketAt(n))
     \/ PassThrough(PacketAt(n)) /\ IsAudio(PacketAt(n))
  /\ HandOver(Item("data", PacketAt(n).id))
  /\ receivedDataFromPeer' = TRUE

GetPlaceholder ==
  /\ Conceals /\ Advance
  /\ HandOver(Item("lost", position))
  /\ UNCHANGED <<receivedDataFromPeer, netVars>>

(* The data in the shard is that of the packet the block has there. *)
GetPacket ==
  /\ Plays /\ Advance
  /\ HandOver(Item("data", Head(blocks).first + Head(blocks).nextDataPacketIndex))
  /\ UNCHANGED <<receivedDataFromPeer, netVars>>

NothingMore == Drained /\ UNCHANGED <<threadVars, netVars>>

(* AudioDecoderThreadProc()                                                *)
Decode ==
  /\ packetQueue # <<>>
  /\ packetQueue' = Tail(packetQueue)
  /\ DecodeInputData(Head(packetQueue))
  /\ UNCHANGED <<queueVars, packetsToDrop, receivedDataFromPeer, handed, netVars>>

(* The stream of the model is over. *)
Over ==
  /\ sent = LastPacket /\ held = {} /\ ~draining /\ packetQueue = <<>>
  /\ UNCHANGED vars

Next ==
  \/ Lose \/ Delay \/ ReceiveTimeout
  \/ \E n \in held \cup {sent} :
       \/ SkipBacklog(n) \/ AddAndHandOver(n)
       \/ \E waited \in BOOLEAN : AddAside(n, waited)
  \/ GetPlaceholder \/ GetPacket \/ NothingMore
  \/ Decode
  \/ Over

Spec == Init /\ [][Next]_vars

-----------------------------------------------------------------------------
(* Properties.                                                             *)

Positions == FirstPosition .. BlockOf(LastPacket) + DataShards

(* Types, and at most one sequence number per position: the code's 16 bit  *)
(* number is always that of the position the queue has reached.            *)
TypeOK ==
  /\ \A i \in DOMAIN blocks :
       /\ blocks[i].first \in Positions /\ blocks[i].got \subseteq 0 .. Total - 1
       /\ blocks[i].nextDataPacketIndex \in 0 .. DataShards - 1
  /\ position \in Positions \cup {0}
  /\ nextRtpSequenceNumber = U16(position)
  /\ oldestRtpBaseSequenceNumber \in 0 .. SeqModulus - 1
  /\ Len(packetQueue) <= QueueBound
  /\ packetsToDrop \in 0 .. InitialDrop

(* validateFecBlockState(): the list is sorted, the packet waited for is   *)
(* not after its head, and neither bound has overtaken the other.          *)
BlockStateValid ==
  /\ TypeOK
  /\ \/ ~IsBefore16(nextRtpSequenceNumber, oldestRtpBaseSequenceNumber)
     \/ synchronizing
  /\ blocks # <<>> =>
       /\ IsBefore16(nextRtpSequenceNumber, U16(Base(Head(blocks)) + DataShards))
       /\ ~IsBefore16(Base(Head(blocks)), oldestRtpBaseSequenceNumber)
  /\ \A i \in 1 .. Len(blocks) - 1 :
       IsBefore16(Base(blocks[i]), Base(blocks[i + 1]))

IsData(item) == item.kind = "data"

(* Whatever the network does, and however often the queue to the decoder   *)
(* overflows, the packets decoded, those on their way to the decoder and   *)
(* the next one to be handed over are in the order of the stream, each of  *)
(* them once.                                                              *)
PlayedInOrder ==
  LET queued == {i \in DOMAIN packetQueue : IsData(packetQueue[i])}
  IN  ~incompatibleServer =>
        /\ heard < position
        /\ \A i \in queued : heard < packetQueue[i].id /\ packetQueue[i].id < position
        /\ \A i, j \in queued : i < j => packetQueue[i].id < packetQueue[j].id

NoReordering == faults.stray = 0
LostOf(first) == {n \in lost : BlockOf(n) = first}

Skips == position' > position /\ handed' = handed /\ ~Unsynchronized

(* Without reordering, parity does what it is for: a packet is concealed   *)
(* only when its block lost more packets than it has parity, and a block   *)
(* is skipped only when nothing of it arrived.                             *)
FecSuffices ==
  [][NoReordering /\ ~incompatibleServer =>
       /\ handed' # handed /\ handed'.kind = "lost" =>
            Cardinality(LostOf(Head(blocks).first)) > FecShards
       /\ Skips => \A first \in position .. position' - 1 :
                      first % DataShards = 0 =>
                        Cardinality(LostOf(first)) = Total]_vars

(* handleMissingPackets(): losses alone never pass for packets out of      *)
(* sequence, which would cost the stream its fast recovery.  What arrives  *)
(* of a block that was given up or skipped would do so.                    *)
FastRecovery == NoReordering => ~receivedOosData

(* The low bits suffice: what is under way is less than half the range of  *)
(* sequence numbers from the block being played, or just as far behind,    *)
(* and the queue synchronizes only once although 0 is also the number of a *)
(* block.                                                                  *)
Playing == position - (position % DataShards)
Unambiguous ==
  position > 0 /\ ~incompatibleServer =>
    /\ ~Unsynchronized
    /\ \A n \in held \cup {sent} :
         BlockOf(n) - Playing \in -(SeqModulus \div 2) .. SeqModulus \div 2 - 1

(* What is handed over is a playout: see AudioPlayout.                     *)
Playout == INSTANCE AudioPlayout WITH
  BlockSize <- DataShards, next <- position, item <- handed,
  ordered <- ~incompatibleServer
PlayoutSpec == Playout!Spec

=============================================================================
