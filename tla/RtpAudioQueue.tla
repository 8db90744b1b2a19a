--------------------------- MODULE RtpAudioQueue ---------------------------
(***************************************************************************)
(* RtpAudioQueue.c: putting audio packets back in order, FEC block by FEC  *)
(* block, recovering what parity allows, and giving up on what will not    *)
(* come.  The queue belongs to the audio receive thread alone, so each of  *)
(* its two calls, RtpaAddPacket() and RtpaGetQueuedPacket(), is an action. *)
(*                                                                         *)
(* A packet is [kind, id, index, base, size]: id is its position in the    *)
(* stream without wrap-around, of which the code sees the low 16 bits;     *)
(* a parity packet has the id and the base of the first data packet of its *)
(* block, and its index among the parity packets.                          *)
(***************************************************************************)
EXTENDS Integers, Sequences, FiniteSets, SequencesExt

CONSTANTS DataShards,    \* RTPA_DATA_SHARDS
          FecShards,     \* RTPA_FEC_SHARDS
          SeqModulus     \* sequence numbers are taken modulo this

ASSUME ShardsAssumption ==
  /\ DataShards \in Nat \ {0, 1} /\ FecShards \in Nat
  /\ SeqModulus \in Nat \ {0} /\ SeqModulus % (2 * DataShards) = 0

VARIABLES
  blocks,                       \* blockHead ... blockTail
  nextRtpSequenceNumber, oldestRtpBaseSequenceNumber,
  receivedOosData, lastOosSequenceNumber,
  synchronizing, incompatibleServer,
  draining,    \* RtpaAddPacket() returned RTPQ_RET_PACKET_READY
  position     \* history: nextRtpSequenceNumber without wrap-around

oosVars == <<receivedOosData, lastOosSequenceNumber>>
seqVars == <<nextRtpSequenceNumber, oldestRtpBaseSequenceNumber,
             synchronizing, position>>
queueVars == <<blocks, seqVars, oosVars, incompatibleServer, draining>>

U16(n) == n % SeqModulus
IsBefore16(x, y) == U16(x - y) >= SeqModulus \div 2

Total == DataShards + FecShards

InitQueue ==
  /\ blocks = <<>>
  /\ nextRtpSequenceNumber = 0 /\ oldestRtpBaseSequenceNumber = 0
  /\ receivedOosData = FALSE /\ lastOosSequenceNumber = 0
  /\ synchronizing = TRUE /\ incompatibleServer = FALSE
  /\ draining = FALSE /\ position = 0

-----------------------------------------------------------------------------
(* FEC blocks.  first is the position of the first packet of the block,    *)
(* got the shards whose mark is cleared; dataShardsReceived and            *)
(* fecShardsReceived together are its size until the block is reassembled. *)

NewBlock(first, size) ==
  [first |-> first, size |-> size, got |-> {}, fullyReassembled |-> FALSE,
   nextDataPacketIndex |-> 0, allowDiscontinuity |-> FALSE]

Base(b) == U16(b.first)

Seq16(p) == U16(p.id)
IsAudio(p) == p.kind = "audio"
FirstOf(p) == IF IsAudio(p) THEN p.id - (Seq16(p) % DataShards) ELSE p.base
BaseOf(p) == U16(FirstOf(p))
Shard(p) == IF IsAudio(p) THEN Seq16(p) - BaseOf(p) ELSE DataShards + p.index

Known(p) == \E i \in DOMAIN blocks : Base(blocks[i]) = BaseOf(p)

(* The list with a block for p, inserted in order when there is none.      *)
WithBlock(p) ==
  IF Known(p) THEN blocks
  ELSE LET before == {i \in DOMAIN blocks : ~IsBefore16(BaseOf(p), Base(blocks[i]))}
       IN  InsertAt(blocks, Cardinality(before) + 1, NewBlock(FirstOf(p), p.size))

IndexOf(p) == CHOOSE i \in DOMAIN WithBlock(p) : Base(WithBlock(p)[i]) = BaseOf(p)
BlockFor(p) == WithBlock(p)[IndexOf(p)]

(* completeFecBlock(): data and parity together suffice. *)
Completed(b) ==
  IF Cardinality(b.got) < DataShards THEN b
  ELSE [b EXCEPT !.got = @ \cup (0 .. DataShards - 1), !.fullyReassembled = TRUE]

(* queueHasPacketReady() for the list bs. *)
HasPacketReady(bs, next) ==
  /\ bs # <<>>
  /\ LET b == Head(bs) IN
     \/ /\ b.nextDataPacketIndex \in b.got
        /\ Base(b) + b.nextDataPacketIndex = next
     \/ b.allowDiscontinuity

(* Mutant: parity packets count as positions of the stream. *)
FreeCountingParity(done, bs) ==
  /\ blocks' = IF done THEN Tail(bs) ELSE bs
  /\ synchronizing' = (synchronizing /\ ~done)
  /\ oldestRtpBaseSequenceNumber' =
       IF done THEN U16(Head(bs).first + Total) ELSE oldestRtpBaseSequenceNumber

(* Mutant: a finished block does not end the synchronization. *)
FreeSynchronizing(done, bs) ==
  /\ blocks' = IF done THEN Tail(bs) ELSE bs
  /\ oldestRtpBaseSequenceNumber' =
       IF done THEN U16(Head(bs).first + DataShards) ELSE oldestRtpBaseSequenceNumber
  /\ UNCHANGED synchronizing

(* freeFecBlockHead() of bs, or nothing while the head has packets left.   *)
FreeIf(done, bs) ==
  IF done
  THEN /\ blocks' = Tail(bs)
       /\ oldestRtpBaseSequenceNumber' = U16(Head(bs).first + DataShards)
       /\ synchronizing' = FALSE
  ELSE /\ blocks' = bs
       /\ UNCHANGED <<oldestRtpBaseSequenceNumber, synchronizing>>

-----------------------------------------------------------------------------
(* RtpaAddPacket().                                                        *)

(* Have data packets come out of sequence lately? *)
NoteSequence(p) ==
  LET late == ~synchronizing /\ IsBefore16(Seq16(p), oldestRtpBaseSequenceNumber)
      longAgo == /\ receivedOosData
                 /\ IsBefore16(oldestRtpBaseSequenceNumber, lastOosSequenceNumber)
  IN  IF IsAudio(p) /\ late
      THEN receivedOosData' = TRUE /\ lastOosSequenceNumber' = Seq16(p)
      ELSE /\ receivedOosData' = (receivedOosData /\ ~(IsAudio(p) /\ longAgo))
           /\ UNCHANGED lastOosSequenceNumber

Misaligned(p) == BaseOf(p) % DataShards # 0
Unsynchronized == synchronizing /\ oldestRtpBaseSequenceNumber = 0
Stale(p) == IsBefore16(BaseOf(p), oldestRtpBaseSequenceNumber)
SizeDiffers(p) == Known(p) /\ BlockFor(p).size # p.size

(* Audio goes straight to the decoder, parity is dropped. *)
PassThrough(p) == incompatibleServer /\ UNCHANGED queueVars

(* The host does not keep to what the queue needs of FEC blocks. *)
DisableFec(p) ==
  /\ ~incompatibleServer
  /\ \/ Misaligned(p)
     \/ ~Unsynchronized /\ ~Stale(p) /\ SizeDiffers(p)
  /\ NoteSequence(p)
  /\ incompatibleServer' = TRUE
  /\ UNCHANGED <<blocks, seqVars, draining>>

(* Mutant: start in the middle of the block the first packet is from. *)
SynchronizeAtPacket(p) ==
  /\ ~incompatibleServer /\ ~Misaligned(p) /\ Unsynchronized
  /\ NoteSequence(p)
  /\ nextRtpSequenceNumber' = BaseOf(p)
  /\ oldestRtpBaseSequenceNumber' = BaseOf(p)
  /\ position' = FirstOf(p)
  /\ UNCHANGED <<blocks, synchronizing, incompatibleServer, draining>>

(* Start with the block after the one the first packet is from. *)
Synchronize(p) ==
  /\ ~incompatibleServer /\ ~Misaligned(p) /\ Unsynchronized
  /\ NoteSequence(p)
  /\ nextRtpSequenceNumber' = U16(BaseOf(p) + DataShards)
  /\ oldestRtpBaseSequenceNumber' = U16(BaseOf(p) + DataShards)
  /\ position' = FirstOf(p) + DataShards
  /\ UNCHANGED <<blocks, synchronizing, incompatibleServer, draining>>

Acceptable(p) ==
  ~incompatibleServer /\ ~Misaligned(p) /\ ~Unsynchronized /\ ~Stale(p)
    /\ ~SizeDiffers(p)

(* The packet is too late, or nothing new. *)
Reject(p) ==
  /\ ~incompatibleServer /\ ~Misaligned(p) /\ ~Unsynchronized
  /\ \/ Stale(p)
     \/ ~SizeDiffers(p) /\ (BlockFor(p).fullyReassembled \/ Shard(p) \in BlockFor(p).got)
  /\ NoteSequence(p)
  /\ UNCHANGED <<blocks, seqVars, incompatibleServer, draining>>

Fresh(p) ==
  /\ Acceptable(p)
  /\ ~BlockFor(p).fullyReassembled /\ Shard(p) \notin BlockFor(p).got

(* Mutant: any packet of the future is played at once. *)
ExpectedOrLater(p) == IsAudio(p) /\ ~IsBefore16(Seq16(p), nextRtpSequenceNumber)

Expected(p) == IsAudio(p) /\ Seq16(p) = nextRtpSequenceNumber

(* The packet everyone waits for: the caller plays it at once. *)
HandleNow(p) ==
  /\ Fresh(p) /\ Expected(p)
  /\ NoteSequence(p)
  /\ LET bs == [WithBlock(p) EXCEPT ![IndexOf(p)].got = @ \cup {Shard(p)},
                                    ![IndexOf(p)].nextDataPacketIndex = @ + 1]
     IN  FreeIf(U16(Seq16(p) + 1) = U16(BaseOf(p) + DataShards), bs)
  /\ nextRtpSequenceNumber' = U16(Seq16(p) + 1)
  /\ position' = position + 1
  /\ UNCHANGED <<incompatibleServer, draining>>

(* The list once p is stored and its block completed if that is possible.  *)
Stored(p) ==
  LET b == [BlockFor(p) EXCEPT !.got = @ \cup {Shard(p)}]
  IN  [WithBlock(p) EXCEPT ![IndexOf(p)] = Completed(b)]

StoresAside(p) == Fresh(p) /\ ~Expected(p)

StoreReady(p) ==
  /\ StoresAside(p) /\ HasPacketReady(Stored(p), nextRtpSequenceNumber)
  /\ NoteSequence(p)
  /\ blocks' = Stored(p) /\ draining' = TRUE
  /\ UNCHANGED <<seqVars, incompatibleServer>>

Missing(p) == StoresAside(p) /\ ~HasPacketReady(Stored(p), nextRtpSequenceNumber)
BeforeHead(p) == IsBefore16(nextRtpSequenceNumber, Base(Head(Stored(p))))

(* Mutant: the block is played at once, with gaps for what is under way. *)
ResynchronizeAndPlay(p) ==
  /\ Missing(p) /\ BeforeHead(p)
  /\ NoteSequence(p)
  /\ nextRtpSequenceNumber' = Base(Head(Stored(p)))
  /\ oldestRtpBaseSequenceNumber' = Base(Head(Stored(p)))
  /\ position' = Head(Stored(p)).first
  /\ blocks' = [Stored(p) EXCEPT ![1].allowDiscontinuity = TRUE]
  /\ draining' = TRUE
  /\ UNCHANGED <<synchronizing, incompatibleServer>>

(* The blocks before the head are lost altogether: go on with the head.    *)
Resynchronize(p) ==
  /\ Missing(p) /\ BeforeHead(p)
  /\ NoteSequence(p)
  /\ nextRtpSequenceNumber' = Base(Head(Stored(p)))
  /\ oldestRtpBaseSequenceNumber' = Base(Head(Stored(p)))
  /\ position' = Head(Stored(p)).first
  /\ blocks' = Stored(p)
  /\ draining' = HasPacketReady(Stored(p), Base(Head(Stored(p))))
  /\ UNCHANGED <<synchronizing, incompatibleServer>>

(* The head waits while it is alone and, once packets were seen out of     *)
(* sequence, until RTPQ_OOS_WAIT_TIME_MS have passed (waited).             *)
GivesUp(p, waited) ==
  Missing(p) /\ ~BeforeHead(p) /\ Len(Stored(p)) > 1 /\ (~receivedOosData' \/ waited)

GiveUp(p, waited) ==
  /\ NoteSequence(p)
  /\ GivesUp(p, waited)
  /\ blocks' = [Stored(p) EXCEPT ![1].allowDiscontinuity = TRUE]
  /\ draining' = TRUE
  /\ UNCHANGED <<seqVars, incompatibleServer>>

Wait(p, waited) ==
  /\ NoteSequence(p)
  /\ Missing(p) /\ ~BeforeHead(p) /\ ~GivesUp(p, waited)
  /\ blocks' = Stored(p)
  /\ UNCHANGED <<seqVars, incompatibleServer, draining>>

-----------------------------------------------------------------------------
(* RtpaGetQueuedPacket(): a placeholder, a packet, or nothing more.        *)

NextLacks == Head(blocks).nextDataPacketIndex \notin Head(blocks).got

Advance ==
  LET bs == [blocks EXCEPT ![1].nextDataPacketIndex = @ + 1]
  IN  /\ FreeIf(Head(bs).nextDataPacketIndex = DataShards, bs)
      /\ nextRtpSequenceNumber' = U16(nextRtpSequenceNumber + 1)
      /\ position' = position + 1
      /\ UNCHANGED <<oosVars, incompatibleServer, draining>>

Conceals ==
  /\ draining /\ blocks # <<>> /\ Head(blocks).allowDiscontinuity /\ NextLacks

Plays ==
  /\ draining /\ ~Conceals /\ HasPacketReady(blocks, nextRtpSequenceNumber)

Drained ==
  /\ draining /\ ~HasPacketReady(blocks, nextRtpSequenceNumber)
  /\ draining' = FALSE
  /\ UNCHANGED <<blocks, seqVars, oosVars, incompatibleServer>>

=============================================================================
