---------------------- MODULE VideoDepacketizerProofs ----------------------
(***************************************************************************)
(* Proofs about VideoDepacketizer and FrameLossControl, for every number   *)
(* of frames, losses, corrupt frames and refreshes, every bound of the two *)
(* queues and every drop limit.                                            *)
(***************************************************************************)
EXTENDS VideoDepacketizer, TLAPS

RangeOf == [start : Nat, end : Nat]

Types ==
  /\ TypeOK
  /\ invalidReferenceFrameTuples \in Seq(RangeOf)
  /\ rfiThread \in [at : {"wait", "poll", "send"}, range : RangeOf]

(* What the host encodes arrives in the order of its numbers.  A frame     *)
(* that was reported lost may still be on its way; the others lie ahead of *)
(* the frame that is worked on and of the one that is expected.            *)
WireAhead ==
  /\ \A i, j \in 1..Len(wire) : i < j => wire[i].num < wire[j].num
  /\ \A i \in 1..Len(wire) :
       /\ wire[i].num >= frame.num /\ wire[i].num < nextToEncode
       /\ wire[i].num > faults.reported =>
            wire[i].num > frame.num /\ wire[i].num >= nextFrameNumber
  /\ frame.num < nextToEncode /\ nextFrameNumber <= nextToEncode

(* Where the receive thread is.                                            *)
AtFrame ==
  /\ startFrameNumber <= nextFrameNumber
  /\ rpc = "payload" => nextFrameNumber = frame.num
  /\ rpc \in {"corrupt", "lost"} => startFrameNumber <= frame.num
  /\ rpc \in {"corrupt", "pending", "offer", "overflow", "submitted"} =>
       nextFrameNumber = frame.num + 1

(* The invalidations reach from a window's start to a frame already seen.  *)
RangesProper ==
  LET q == invalidReferenceFrameTuples
  IN  /\ \A i \in 1..Len(q) : q[i].start <= q[i].end /\ q[i].end <= frame.num
      /\ \A i, j \in 1..Len(q) : i < j => q[i].end <= q[j].end
      /\ rfiThread.at # "wait" =>
           rfiThread.range.start <= rfiThread.range.end /\ rfiThread.range.end <= frame.num
      /\ rfiThread.at = "poll" =>
           \A i \in 1..Len(q) : rfiThread.range.end <= q[i].end

(* The frames dropped silently are among those the drop counter counts.    *)
DropsCounted == silentDrops <= consecutiveFrameDrops

IInv == Types /\ WireAhead /\ AtFrame /\ RangesProper /\ LossKnown /\ DropsCounted

-----------------------------------------------------------------------------
LEMMA AppendFacts ==
  ASSUME NEW S, NEW s \in Seq(S), NEW e \in S
  PROVE  /\ Append(s, e) \in Seq(S) /\ Len(Append(s, e)) = Len(s) + 1
         /\ \A i \in 1..Len(s) : Append(s, e)[i] = s[i]
         /\ Append(s, e)[Len(s) + 1] = e
OBVIOUS

LEMMA TailFacts ==
  ASSUME NEW S, NEW s \in Seq(S), s # <<>>
  PROVE  /\ Len(s) >= 1 /\ Head(s) = s[1] /\ Head(s) \in S
         /\ Tail(s) \in Seq(S) /\ Len(Tail(s)) = Len(s) - 1
         /\ \A i \in 1..Len(Tail(s)) : Tail(s)[i] = s[i + 1]
OBVIOUS

-----------------------------------------------------------------------------
(* IInv is inductive: the initial state.                                   *)

LEMMA InitIInv == Init => IInv
<1> SUFFICES ASSUME Init PROVE IInv
  OBVIOUS
<1> USE DepacketizerAssumption, RecoveryAssumption
<1>1. TypeOK
  <2>1. NoFrame \in Frame
    BY DEF NoFrame, Frame, FrameType
  <2>2. faults \in Faults
    BY DEF Init, Faults
  <2>3. /\ decodeUnitQueue \in Seq(Frame) /\ Len(decodeUnitQueue) <= QueueBound
        /\ wire \in Seq(Frame) /\ Len(wire) <= MaxInFlight
        /\ Len(invalidReferenceFrameTuples) <= TupleBound
    BY DEF Init, ControlInit
  <2>4. /\ nextFrameNumber \in 1..(MaxFrame + 1) /\ nextToEncode \in 1..(MaxFrame + 1)
        /\ startFrameNumber \in 0..(MaxFrame + 1) /\ lastIdr \in 0..MaxFrame
        /\ lastSubmitted \in 0..MaxFrame /\ silentDrops \in Nat
        /\ consecutiveFrameDrops \in 0..(DropLimit - 1)
    BY DEF Init
  <2>5. {waitingForNextSuccessfulFrame, waitingForRefInvalFrame, waitingForIdrFrame,
         dropStatePending, idrFrameProcessed, idrPending, rfiPending,
         idrFrameRequired} \subseteq BOOLEAN
    BY DEF Init, ControlInit
  <2> QED
    BY <2>1, <2>2, <2>3, <2>4, <2>5 DEF Init, ControlInit, TypeOK, RfiIdle
<1>2. Types
  BY <1>1 DEF Init, ControlInit, Types, RangeOf, RfiIdle, NoRange
<1>3. WireAhead /\ AtFrame
  BY DEF Init, WireAhead, AtFrame, NoFrame
<1>4. RangesProper
  BY DEF Init, ControlInit, RangesProper, RfiIdle
<1>5. LossKnown /\ DropsCounted
  BY DEF Init, LossKnown, DropsCounted
<1> QED
  BY <1>2, <1>3, <1>4, <1>5 DEF IInv

LEMMA HeadOfWire ==
  ASSUME IInv, wire # <<>>
  PROVE  /\ Head(wire) \in Frame /\ Head(wire).num \in 0..MaxFrame
         /\ Head(wire).type \in FrameType /\ Head(wire) = wire[1] /\ Len(wire) >= 1
<1>1. wire \in Seq(Frame)
  BY DEF IInv, Types, TypeOK
<1>2. /\ Head(wire) \in Frame /\ Head(wire) = wire[1] /\ Len(wire) >= 1
  BY <1>1, TailFacts
<1> QED
  BY <1>2 DEF Frame

-----------------------------------------------------------------------------
(* IInv is inductive: one lemma for each of its parts.                     *)

(* A loss that is not reported keeps the stream waiting.                   *)
LEMMA LossStep == IInv /\ [Next]_vars => LossKnown'
<1> SUFFICES ASSUME IInv, [Next]_vars PROVE LossKnown'
  OBVIOUS
<1> USE DEF recvVars, sharedVars, decoderVars, hostVars, netVars, controlVars,
        ControlOthers, NetworkOthers
<1>1. CASE FirstPacket
  BY <1>1, HeadOfWire
  DEF FirstPacket, Types, TypeOK, Arrived, LossAnsweredBy, FrameType, NeedIdr,
      Gap, IInv, LossKnown
<1>2. CASE CorruptFirstPacket \/ CorruptLaterPacket
  BY <1>2
  DEF CorruptFirstPacket, CorruptLaterPacket, Corrupt, DropFrameState, NeedIdr,
      IInv, LossKnown
<1>3. CASE DropWhileWaiting \/ PendingDrop \/ NotifyFrameLost
  BY <1>3
  DEF DropWhileWaiting, PendingDrop, NotifyFrameLost, EndOfFrame,
      DropFrameState, NeedIdr, IInv, LossKnown
<1>4. CASE OfferOverflow
  BY <1>4 DEF OfferOverflow, DropFrameState, NeedIdr, IInv, LossKnown
<1>5. CASE OfferUnit \/ DirectReturns
  BY <1>5 DEF OfferUnit, DirectReturns, FrameAccepted, IInv, LossKnown
<1>6. CASE Dequeue \/ CompleteOk \/ RefreshFlush \/ RefreshPending
  BY <1>6
  DEF Dequeue, CompleteOk, RefreshFlush, RefreshPending, DecoderKeeps, IInv,
      LossKnown
<1>7. CASE StaleFrame \/ LoseSilently \/ NothingAwaited
  BY <1>7
  DEF StaleFrame, LoseSilently, NothingAwaited, Arrived, EndOfFrame, IInv,
      LossKnown
<1>8. CASE Control \/ CorruptReport \/ NoPendingDrop \/ OverflowFlush \/
          SubmitDirect \/ LostReport \/ CompleteNeedIdr \/ RefreshRequest \/
          Encode \/ HostHandle
  BY <1>8
  DEF Control, CorruptReport, NoPendingDrop, OverflowFlush, SubmitDirect,
      LostReport, CompleteNeedIdr, RefreshRequest, Encode, HostHandle, IInv,
      LossKnown, ControlNext, IdrWake, IdrClear, IdrSend, RfiTake, RfiPoll,
      RfiSend
<1>9. CASE UNCHANGED vars
  BY <1>9 DEF vars, IInv, LossKnown
<1> QED
  BY <1>1, <1>2, <1>3, <1>4, <1>5, <1>6, <1>7, <1>8, <1>9
  DEF Next, Receive, Decoder

(* What a first packet changes in the history of faults, and the counters. *)
LEMMA FirstPacketFaults ==
  ASSUME faults \in Faults, FirstPacket
  PROVE  /\ faults' \in Faults
         /\ UNCHANGED <<faults.lost, faults.corrupt, faults.refresh, faults.reported,
                       faults.brokenIdr>>
         /\ faults.overtaken => faults'.overtaken
<1>1. \E b \in BOOLEAN : faults' = [faults EXCEPT !.overtaken = faults.overtaken \/ b]
  BY DEF FirstPacket
<1> QED
  BY <1>1 DEF Faults

LEMMA FirstPacketDrops ==
  ASSUME FirstPacket
  PROVE  \/ UNCHANGED <<consecutiveFrameDrops, silentDrops>>
         \/ /\ DropUnanswered
            /\ consecutiveFrameDrops' = IF LimitReached THEN 0 ELSE consecutiveFrameDrops + 1
BY DEF FirstPacket

(* The two drop counters move together.                                    *)
LEMMA DropsStep == IInv /\ [Next]_vars => DropsCounted'
<1> SUFFICES ASSUME IInv, [Next]_vars PROVE DropsCounted'
  OBVIOUS
<1> USE DepacketizerAssumption, RecoveryAssumption
    DEF recvVars, sharedVars, decoderVars, hostVars, netVars, controlVars,
        ControlOthers, NetworkOthers
<1>1. CASE FirstPacket
  BY <1>1, FirstPacketDrops, SMTT(30)
  DEF Types, TypeOK, DropUnanswered, LimitReached, IInv, DropsCounted
<1>2. CASE CorruptFirstPacket
  BY <1>2
  DEF CorruptFirstPacket, Types, TypeOK, Corrupt, DropFrameState,
      DropUnanswered, LimitReached, IInv, DropsCounted
<1>3. CASE CorruptLaterPacket
  BY <1>3
  DEF CorruptLaterPacket, Types, TypeOK, Corrupt, DropFrameState,
      DropUnanswered, LimitReached, IInv, DropsCounted
<1>4. CASE DropWhileWaiting
  BY <1>4
  DEF DropWhileWaiting, Types, TypeOK, DropFrameState, LimitReached, IInv,
      DropsCounted
<1>5. CASE PendingDrop
  BY <1>5
  DEF PendingDrop, Types, TypeOK, DropFrameState, DropUnanswered, LimitReached,
      IInv, DropsCounted
<1>6. CASE OfferOverflow
  BY <1>6
  DEF OfferOverflow, Types, TypeOK, DropFrameState, DropUnanswered,
      LimitReached, IInv, DropsCounted
<1>7. CASE NotifyFrameLost
  BY <1>7
  DEF NotifyFrameLost, Types, TypeOK, DropFrameState, DropUnanswered,
      LimitReached, IInv, DropsCounted
<1>8. CASE CorruptReport \/ OverflowFlush \/ LostReport
  BY <1>8
  DEF CorruptReport, OverflowFlush, LostReport, Types, TypeOK, IInv,
      DropsCounted
<1>9. CASE OfferUnit \/ DirectReturns
  BY <1>9 DEF OfferUnit, DirectReturns, FrameAccepted, IInv, DropsCounted
<1>10. CASE Dequeue \/ CompleteOk \/ RefreshFlush \/ RefreshPending
  BY <1>10
  DEF Dequeue, CompleteOk, RefreshFlush, RefreshPending, DecoderKeeps, IInv,
      DropsCounted
<1>11. CASE Control \/ StaleFrame \/ NothingAwaited \/ NoPendingDrop \/
          SubmitDirect \/ LoseSilently \/ CompleteNeedIdr \/ RefreshRequest \/
          Encode \/ HostHandle
  BY <1>11
  DEF Control, StaleFrame, NothingAwaited, NoPendingDrop, SubmitDirect,
      LoseSilently, CompleteNeedIdr, RefreshRequest, Encode, HostHandle, IInv,
      DropsCounted, ControlNext, IdrWake, IdrClear, IdrSend, RfiTake, RfiPoll,
      RfiSend
<1>12. CASE UNCHANGED vars
  BY <1>12 DEF vars, IInv, DropsCounted
<1> QED
  BY <1>1, <1>2, <1>3, <1>4, <1>5, <1>6, <1>7, <1>8, <1>9, <1>10, <1>11, <1>12
  DEF Next, Receive, Decoder

LEMMA Numbers ==
  ASSUME IInv
  PROVE  /\ frame.num \in 0..MaxFrame /\ nextFrameNumber \in 1..(MaxFrame + 1)
         /\ startFrameNumber \in 0..(MaxFrame + 1) /\ nextToEncode \in 1..(MaxFrame + 1)
         /\ faults.reported \in 0..MaxFrame /\ Len(wire) \in Nat
         /\ \A i \in 1..Len(wire) : wire[i].num \in 0..MaxFrame
<1>1. /\ frame \in Frame /\ faults \in Faults /\ Len(wire) \in Nat
      /\ \A i \in 1..Len(wire) : wire[i] \in Frame
  BY DEF IInv, Types, TypeOK
<1>2. \A f \in Frame : f.num \in 0..MaxFrame
  BY DEF Frame
<1> QED
  BY <1>1, <1>2 DEF IInv, Types, TypeOK, Faults

(* The window's start never passes the frame that is worked on.            *)
LEMMA AtFrameStep == IInv /\ [Next]_vars => AtFrame'
<1> SUFFICES ASSUME IInv, [Next]_vars PROVE AtFrame'
  OBVIOUS
<1> USE DEF recvVars, sharedVars, decoderVars, hostVars, netVars, controlVars,
        ControlOthers, NetworkOthers
<1>1. CASE StaleFrame \/ LoseSilently
  BY <1>1 DEF StaleFrame, LoseSilently, Arrived, IInv, AtFrame
<1>2. CASE FirstPacket
  BY <1>2, HeadOfWire, Numbers DEF FirstPacket, Arrived, IInv, AtFrame
<1>3. CASE CorruptFirstPacket
  <2>1. /\ wire # <<>> /\ frame' = Head(wire) /\ frame'.num >= nextFrameNumber
        /\ nextFrameNumber' = frame'.num + 1
        /\ rpc' = "corrupt" /\ UNCHANGED startFrameNumber
    BY <1>3 DEF CorruptFirstPacket, Corrupt, Arrived
  <2> QED
    BY <2>1, HeadOfWire, Numbers DEF IInv, AtFrame
<1>4. CASE CorruptLaterPacket
  BY <1>4, Numbers DEF CorruptLaterPacket, Corrupt, IInv, AtFrame
<1>5. CASE DropWhileWaiting \/ NothingAwaited
  BY <1>5, Numbers
  DEF DropWhileWaiting, NothingAwaited, EndOfFrame, IInv, AtFrame
<1>6. CASE OfferUnit \/ DirectReturns
  BY <1>6, Numbers
  DEF OfferUnit, DirectReturns, FrameAccepted, WindowStart, IInv, AtFrame
<1>7. CASE NotifyFrameLost
  <2>1. /\ wire # <<>> /\ frame' = Head(wire) /\ faults.reported < frame'.num
        /\ rpc' = "lost" /\ UNCHANGED <<startFrameNumber, nextFrameNumber>>
    BY <1>7 DEF NotifyFrameLost
  <2>2. frame'.num >= nextFrameNumber
    BY <2>1, HeadOfWire, Numbers DEF IInv, WireAhead
  <2> QED
    BY <2>1, <2>2, HeadOfWire, Numbers DEF IInv, AtFrame
<1>8. CASE LostReport
  BY <1>8, Numbers DEF LostReport, IInv, AtFrame
<1>9. CASE Dequeue \/ CompleteOk \/ RefreshFlush \/ RefreshPending
  BY <1>9
  DEF Dequeue, CompleteOk, RefreshFlush, RefreshPending, DecoderKeeps, IInv,
      AtFrame
<1>10. CASE Control \/ CorruptReport \/ PendingDrop \/ NoPendingDrop \/
          OfferOverflow \/ OverflowFlush \/ SubmitDirect \/ CompleteNeedIdr \/
          RefreshRequest \/ Encode \/ HostHandle
  BY <1>10
  DEF Control, CorruptReport, PendingDrop, NoPendingDrop, OfferOverflow,
      OverflowFlush, SubmitDirect, CompleteNeedIdr, RefreshRequest, Encode,
      HostHandle, IInv, AtFrame, ControlNext, IdrWake, IdrClear, IdrSend,
      RfiTake, RfiPoll, RfiSend
<1>11. CASE UNCHANGED vars
  BY <1>11 DEF vars, IInv, AtFrame
<1> QED
  BY <1>1, <1>2, <1>3, <1>4, <1>5, <1>6, <1>7, <1>8, <1>9, <1>10, <1>11
  DEF Next, Receive, Decoder

(* What is behind the head of the wire when it arrives.                    *)
LEMMA BehindHead ==
  ASSUME IInv, wire # <<>>, wire' = Tail(wire)
  PROVE  /\ Len(wire') \in Nat
         /\ \A i, j \in 1..Len(wire') : i < j => wire'[i].num < wire'[j].num
         /\ \A i \in 1..Len(wire') :
              /\ wire'[i].num \in Nat /\ wire'[i].num > Head(wire).num
              /\ wire'[i].num >= frame.num /\ wire'[i].num < nextToEncode
              /\ wire'[i].num > faults.reported =>
                   wire'[i].num > frame.num /\ wire'[i].num >= nextFrameNumber
<1>1. /\ Len(wire') = Len(wire) - 1 /\ Len(wire) \in Nat /\ Len(wire) >= 1
      /\ \A i \in 1..Len(wire') : wire'[i] = wire[i + 1]
  BY TailFacts DEF IInv, Types, TypeOK
<1>2. \A i \in 1..Len(wire') : i + 1 \in 1..Len(wire)
  BY <1>1
<1>3. \A i, j \in 1..Len(wire') : i < j => wire'[i].num < wire'[j].num
  BY <1>1, <1>2 DEF IInv, WireAhead
<1>4. \A i \in 1..Len(wire') : wire'[i].num > Head(wire).num
  <2>1. \A i \in 1..Len(wire') : 1 < i + 1 /\ 1 \in 1..Len(wire)
    BY <1>1
  <2> QED
    BY <1>1, <1>2, <2>1, HeadOfWire DEF IInv, WireAhead
<1> QED
  BY <1>1, <1>2, <1>3, <1>4, Numbers DEF IInv, WireAhead

(* Frames arrive in order.                                                 *)
LEMMA WireStep == IInv /\ [Next]_vars => WireAhead'
<1> SUFFICES ASSUME IInv, [Next]_vars PROVE WireAhead'
  OBVIOUS
<1> USE DEF recvVars, sharedVars, decoderVars, hostVars, netVars, controlVars,
        ControlOthers, NetworkOthers
<1>1. CASE StaleFrame \/ LoseSilently
  <2>1. /\ wire # <<>> /\ wire' = Tail(wire)
        /\ UNCHANGED <<frame, nextFrameNumber, nextToEncode, faults.reported>>
    BY <1>1 DEF StaleFrame, LoseSilently, Arrived, IInv, Types, TypeOK, Faults
  <2> QED
    BY <2>1, BehindHead DEF IInv, WireAhead
<1>2. CASE FirstPacket
  <2>1. /\ wire # <<>> /\ wire' = Tail(wire)
        /\ frame' = Head(wire) /\ nextFrameNumber' = frame'.num
        /\ UNCHANGED nextToEncode
    BY <1>2 DEF FirstPacket, Arrived
  <2>2. UNCHANGED faults.reported
    BY <1>2, FirstPacketFaults DEF IInv, Types, TypeOK
  <2> QED
    BY <2>1, <2>2, BehindHead, HeadOfWire, Numbers DEF IInv, WireAhead
<1>3. CASE CorruptFirstPacket
  <2>1. /\ wire # <<>> /\ wire' = Tail(wire)
        /\ frame' = Head(wire) /\ nextFrameNumber' = frame'.num + 1
        /\ UNCHANGED nextToEncode
    BY <1>3 DEF CorruptFirstPacket, Corrupt, Arrived
  <2> QED
    BY <2>1, BehindHead, HeadOfWire, Numbers DEF IInv, WireAhead
<1>4. CASE CorruptLaterPacket \/ DropWhileWaiting \/ NothingAwaited \/
          LostReport
  <2>1. /\ nextFrameNumber' \in {nextFrameNumber, frame.num + 1}
        /\ UNCHANGED <<wire, frame, nextToEncode, faults.reported>>
    BY <1>4
    DEF CorruptLaterPacket, Corrupt, DropWhileWaiting, NothingAwaited, EndOfFrame, LostReport,
        IInv, Types, TypeOK, Faults
  <2> QED
    BY <2>1, Numbers DEF IInv, WireAhead
<1>5. CASE OfferUnit \/ DirectReturns
  BY <1>5, Numbers DEF OfferUnit, DirectReturns, FrameAccepted, IInv, WireAhead
<1>6. CASE NotifyFrameLost
  <2>1. /\ wire # <<>> /\ frame' = Head(wire)
        /\ faults.reported < frame'.num /\ faults'.reported = frame'.num
        /\ UNCHANGED <<nextFrameNumber, nextToEncode>>
    BY <1>6 DEF NotifyFrameLost, IInv, Types, TypeOK, Faults
  <2>2. CASE wire' = wire
    <3>1. \A i \in 1..Len(wire) : wire[i].num >= Head(wire).num
      BY <2>1, HeadOfWire, Numbers DEF IInv, WireAhead
    <3> QED
      BY <2>1, <2>2, <3>1, HeadOfWire, Numbers DEF IInv, WireAhead
  <2>3. CASE wire' = Tail(wire)
    <3>1. \A i \in 1..Len(wire') : wire'[i].num > frame'.num /\ wire'[i].num > faults.reported
      <4>1. frame'.num \in Nat /\ faults.reported \in Nat
        BY <2>1, HeadOfWire, Numbers
      <4>2. \A i \in 1..Len(wire') : wire'[i].num \in Nat /\ wire'[i].num > frame'.num
        BY <2>1, <2>3, BehindHead
      <4> QED
        BY <2>1, <4>1, <4>2
    <3>2. frame'.num < nextToEncode
      BY <2>1, HeadOfWire, Numbers DEF IInv, WireAhead
    <3>3. /\ \A i, j \in 1..Len(wire') : i < j => wire'[i].num < wire'[j].num
          /\ \A i \in 1..Len(wire') :
               /\ wire'[i].num < nextToEncode /\ wire'[i].num \in Nat
               /\ wire'[i].num >= nextFrameNumber
      BY <2>1, <2>3, <3>1, BehindHead
    <3>4. frame'.num \in Nat /\ nextFrameNumber <= nextToEncode
      BY <2>1, HeadOfWire DEF IInv, WireAhead
    <3>5. \A i \in 1..Len(wire') : wire'[i].num >= frame'.num
      BY <3>1, <3>3, <3>4
    <3> QED
      BY <2>1, <3>1, <3>2, <3>3, <3>4, <3>5 DEF WireAhead
  <2> QED
    BY <1>6, <2>2, <2>3 DEF NotifyFrameLost
<1>7. CASE Encode
  <2>1. PICK f \in Frame : f.num = nextToEncode /\ wire' = Append(wire, f)
    BY <1>7, Numbers DEF Encode, Frame, FrameType
  <2>2. /\ Len(wire') = Len(wire) + 1 /\ wire'[Len(wire')] = f
        /\ \A i \in 1..Len(wire) : wire'[i] = wire[i]
    BY <2>1, AppendFacts DEF IInv, Types, TypeOK
  <2>3. nextToEncode' = nextToEncode + 1 /\ UNCHANGED <<frame, nextFrameNumber, faults>>
    BY <1>7 DEF Encode
  <2>4. \A i \in 1..Len(wire') : i \in 1..Len(wire) \/ i = Len(wire')
    BY <2>2, Numbers
  <2>5. \A i, j \in 1..Len(wire') : i < j => i \in 1..Len(wire)
    BY <2>2, Numbers
  <2> QED
    BY <2>1, <2>2, <2>3, <2>4, <2>5, Numbers, SMTT(30) DEF IInv, WireAhead
<1>8. CASE CompleteNeedIdr
  BY <1>8, Numbers DEF CompleteNeedIdr, Types, TypeOK, Faults, IInv, WireAhead
<1>9. CASE Dequeue \/ CompleteOk \/ RefreshFlush \/ RefreshPending
  BY <1>9
  DEF Dequeue, CompleteOk, RefreshFlush, RefreshPending, DecoderKeeps, IInv,
      WireAhead
<1>10. CASE Control \/ CorruptReport \/ PendingDrop \/ NoPendingDrop \/
          OfferOverflow \/ OverflowFlush \/ SubmitDirect \/ RefreshRequest \/
          HostHandle
  BY <1>10
  DEF Control, CorruptReport, PendingDrop, NoPendingDrop, OfferOverflow,
      OverflowFlush, SubmitDirect, RefreshRequest, HostHandle, IInv, WireAhead,
      ControlNext, IdrWake, IdrClear, IdrSend, RfiTake, RfiPoll, RfiSend
<1>11. CASE UNCHANGED vars
  BY <1>11 DEF vars, IInv, WireAhead
<1> QED
  BY <1>1, <1>2, <1>3, <1>4, <1>5, <1>6, <1>7, <1>8, <1>9, <1>10, <1>11
  DEF Next, Receive, Decoder

LEMMA RangeTypes ==
  ASSUME IInv
  PROVE  /\ invalidReferenceFrameTuples \in Seq(RangeOf) /\ rfiThread.range \in RangeOf
         /\ Len(invalidReferenceFrameTuples) \in Nat
         /\ \A i \in 1..Len(invalidReferenceFrameTuples) :
              invalidReferenceFrameTuples[i] \in RangeOf
         /\ \A r \in RangeOf : r.start \in Nat /\ r.end \in Nat
<1>1. /\ invalidReferenceFrameTuples \in Seq(RangeOf) /\ rfiThread.range \in RangeOf
  BY DEF IInv, Types
<1>2. \A r \in RangeOf : r.start \in Nat /\ r.end \in Nat
  BY DEF RangeOf
<1> QED
  BY <1>1, <1>2

LEMMA RangesKept ==
  ASSUME IInv, invalidReferenceFrameTuples' \in {invalidReferenceFrameTuples, <<>>},
         rfiThread' = rfiThread, frame'.num \in Nat, frame'.num >= frame.num
  PROVE  RangesProper'
<1>1. /\ rfiThread.at # "wait" =>
           rfiThread.range.start <= rfiThread.range.end /\ rfiThread.range.end <= frame'.num
  BY RangeTypes, Numbers DEF IInv, RangesProper
<1>2. CASE invalidReferenceFrameTuples' = <<>>
  BY <1>1, <1>2 DEF RangesProper
<1>3. CASE invalidReferenceFrameTuples' = invalidReferenceFrameTuples
  <2> DEFINE q == invalidReferenceFrameTuples
  <2>1. \A i \in 1..Len(q) : q[i].end \in Nat /\ q[i].end <= frame.num
    BY RangeTypes DEF IInv, RangesProper
  <2>2. \A i \in 1..Len(q) : q[i].end <= frame'.num
    BY <2>1, Numbers
  <2> QED
    BY <1>1, <1>3, <2>2 DEF IInv, RangesProper
<1> QED
  BY <1>2, <1>3

LEMMA RangeAdded ==
  ASSUME IInv, ConnectionDetectedFrameLoss(startFrameNumber, frame.num),
         startFrameNumber <= frame.num, UNCHANGED <<frame, rfiThread>>
  PROVE  RangesProper'
<1>1. CASE LiRequestIdrFrame
  BY <1>1, RangesKept, Numbers DEF LiRequestIdrFrame
<1>2. CASE invalidReferenceFrameTuples' =
             Append(invalidReferenceFrameTuples, Range(startFrameNumber, frame.num))
  <2> DEFINE q == invalidReferenceFrameTuples
             r == Range(startFrameNumber, frame.num)
  <2>1. r \in RangeOf /\ r.start <= r.end /\ r.end = frame.num
    BY Numbers DEF Range, RangeOf
  <2>2. /\ Len(q') = Len(q) + 1 /\ q'[Len(q')] = r
        /\ \A i \in 1..Len(q) : q'[i] = q[i]
    BY <1>2, <2>1, RangeTypes, AppendFacts
  <2>3. /\ \A i \in 1..Len(q') : i \in 1..Len(q) \/ i = Len(q')
        /\ \A i, j \in 1..Len(q') : i < j => i \in 1..Len(q)
    BY <2>2, RangeTypes
  <2> HIDE DEF q, r
  <2>4. \A i \in 1..Len(q) : q[i].start <= q[i].end /\ q[i].end <= frame.num
    BY DEF IInv, RangesProper, q
  <2>5. \A i, j \in 1..Len(q) : i < j => q[i].end <= q[j].end
    BY DEF IInv, RangesProper, q
  <2>6. rfiThread.at = "poll" => \A i \in 1..Len(q) : rfiThread.range.end <= q[i].end
    BY DEF IInv, RangesProper, q
  <2>7. rfiThread.at # "wait" =>
          rfiThread.range.start <= rfiThread.range.end /\ rfiThread.range.end <= frame.num
    BY DEF IInv, RangesProper
  <2>8. \A i \in 1..Len(q') :
          q'[i].start <= q'[i].end /\ q'[i].end <= frame.num
    BY <2>1, <2>2, <2>3, <2>4, Numbers
  <2>9. \A i, j \in 1..Len(q') : i < j => q'[i].end <= q'[j].end
    BY <2>1, <2>2, <2>3, <2>4, <2>5
  <2>10. rfiThread.at = "poll" => \A i \in 1..Len(q') : rfiThread.range.end <= q'[i].end
    BY <2>1, <2>2, <2>3, <2>6, <2>7
  <2> QED
    BY <2>7, <2>8, <2>9, <2>10 DEF RangesProper, q
<1> QED
  BY <1>1, <1>2 DEF ConnectionDetectedFrameLoss

LEMMA RangeTaken ==
  ASSUME IInv, invalidReferenceFrameTuples # <<>>,
         invalidReferenceFrameTuples' = Tail(invalidReferenceFrameTuples)
  PROVE  LET q == invalidReferenceFrameTuples
         IN  /\ Head(q).start <= Head(q).end /\ Head(q).end <= frame.num
             /\ rfiThread.at = "poll" => rfiThread.range.end <= Head(q).end
             /\ \A i \in 1..Len(q') : /\ q'[i].start <= q'[i].end /\ q'[i].end <= frame.num
                                      /\ Head(q).end <= q'[i].end
             /\ \A i, j \in 1..Len(q') : i < j => q'[i].end <= q'[j].end
<1> DEFINE q == invalidReferenceFrameTuples
<1>1. /\ Len(q) >= 1 /\ Head(q) = q[1] /\ Len(q') = Len(q) - 1
      /\ \A i \in 1..Len(q') : q'[i] = q[i + 1]
  BY RangeTypes, TailFacts
<1>2. \A i \in 1..Len(q') : i + 1 \in 1..Len(q) /\ 1 < i + 1 /\ 1 \in 1..Len(q)
  BY <1>1, RangeTypes
<1>3. 1 \in 1..Len(q)
  BY <1>1, RangeTypes
<1>4. /\ \A i \in 1..Len(q) : q[i].start <= q[i].end /\ q[i].end <= frame.num
      /\ \A i, j \in 1..Len(q) : i < j => q[i].end <= q[j].end
      /\ rfiThread.at = "poll" => \A i \in 1..Len(q) : rfiThread.range.end <= q[i].end
  BY DEF IInv, RangesProper
<1>5. \A i, j \in 1..Len(q') : i < j => i + 1 < j + 1
  BY <1>1
<1> HIDE DEF q
<1>6. /\ Head(q).start <= Head(q).end /\ Head(q).end <= frame.num
      /\ rfiThread.at = "poll" => rfiThread.range.end <= Head(q).end
  BY <1>1, <1>3, <1>4
<1>7. \A i \in 1..Len(q') : /\ q'[i].start <= q'[i].end /\ q'[i].end <= frame.num
                            /\ Head(q).end <= q'[i].end
  BY <1>1, <1>2, <1>4
<1>8. \A i, j \in 1..Len(q') : i < j => q'[i].end <= q'[j].end
  BY <1>1, <1>2, <1>4, <1>5
<1> QED
  BY <1>6, <1>7, <1>8 DEF q

(* The ranges of the invalidations stay proper.                            *)
LEMMA RangesStep == IInv /\ [Next]_vars => RangesProper'
<1> SUFFICES ASSUME IInv, [Next]_vars PROVE RangesProper'
  OBVIOUS
<1> USE DepacketizerAssumption, RecoveryAssumption
    DEF recvVars, sharedVars, decoderVars, hostVars, netVars, controlVars,
        ControlOthers, NetworkOthers
<1>1. CASE StaleFrame \/ NothingAwaited \/ PendingDrop \/ NoPendingDrop \/
          LoseSilently
  <2>1. /\ invalidReferenceFrameTuples' \in {invalidReferenceFrameTuples, <<>>}
        /\ UNCHANGED <<frame, rfiThread>>
    BY <1>1
    DEF StaleFrame, NothingAwaited, PendingDrop, NoPendingDrop, LoseSilently,
        Arrived, EndOfFrame, FrameAccepted, DecoderKeeps, DropRequest,
        NoRequest, LiRequestIdrFrame
  <2> QED
    BY <2>1, RangesKept, Numbers
<1>2. CASE OfferUnit \/ OfferOverflow \/ OverflowFlush \/ SubmitDirect \/
          DirectReturns
  <2>1. /\ invalidReferenceFrameTuples' \in {invalidReferenceFrameTuples, <<>>}
        /\ UNCHANGED <<frame, rfiThread>>
    BY <1>2
    DEF OfferUnit, OfferOverflow, OverflowFlush, SubmitDirect, DirectReturns,
        Arrived, EndOfFrame, FrameAccepted, DecoderKeeps, DropRequest,
        NoRequest, LiRequestIdrFrame
  <2> QED
    BY <2>1, RangesKept, Numbers
<1>3. CASE Dequeue \/ CompleteOk \/ CompleteNeedIdr \/ RefreshFlush \/
          RefreshPending \/ RefreshRequest
  <2>1. /\ invalidReferenceFrameTuples' \in {invalidReferenceFrameTuples, <<>>}
        /\ UNCHANGED <<frame, rfiThread>>
    BY <1>3
    DEF Dequeue, CompleteOk, CompleteNeedIdr, RefreshFlush, RefreshPending,
        RefreshRequest, Arrived, EndOfFrame, FrameAccepted, DecoderKeeps,
        DropRequest, NoRequest, LiRequestIdrFrame
  <2> QED
    BY <2>1, RangesKept, Numbers
<1>4. CASE Encode \/ HostHandle
  <2>1. /\ invalidReferenceFrameTuples' \in {invalidReferenceFrameTuples, <<>>}
        /\ UNCHANGED <<frame, rfiThread>>
    BY <1>4
    DEF Encode, HostHandle, Arrived, EndOfFrame, FrameAccepted, DecoderKeeps,
        DropRequest, NoRequest, LiRequestIdrFrame
  <2> QED
    BY <2>1, RangesKept, Numbers
<1>5. CASE FirstPacket \/ CorruptFirstPacket \/ NotifyFrameLost
  <2>1. /\ wire # <<>> /\ frame' = Head(wire) /\ UNCHANGED rfiThread
        /\ invalidReferenceFrameTuples' \in {invalidReferenceFrameTuples, <<>>}
    BY <1>5
    DEF FirstPacket, CorruptFirstPacket, NotifyFrameLost, Corrupt, Arrived,
        DropRequest, NoRequest, LiRequestIdrFrame
  <2>2. frame'.num \in Nat /\ frame'.num >= frame.num
    BY <2>1, HeadOfWire, Numbers DEF IInv, WireAhead
  <2> QED
    BY <2>1, <2>2, RangesKept
<1>6. CASE CorruptLaterPacket
  <2>1. /\ invalidReferenceFrameTuples' \in {invalidReferenceFrameTuples, <<>>}
        /\ UNCHANGED <<frame, rfiThread>>
    BY <1>6
    DEF CorruptLaterPacket, Corrupt, EndOfFrame, FrameAccepted, DecoderKeeps,
        DropRequest, NoRequest, LiRequestIdrFrame
  <2> QED
    BY <2>1, RangesKept, Numbers
<1>7. CASE CorruptReport \/ DropWhileWaiting \/ LostReport
  <2>1. UNCHANGED <<frame, rfiThread>> /\ startFrameNumber <= frame.num
    BY <1>7, Numbers
    DEF CorruptReport, DropWhileWaiting, LostReport, EndOfFrame, IInv, AtFrame
  <2>2. CASE invalidReferenceFrameTuples' \in {invalidReferenceFrameTuples, <<>>}
    BY <2>1, <2>2, RangesKept, Numbers
  <2>3. CASE ConnectionDetectedFrameLoss(startFrameNumber, frame.num)
    BY <2>1, <2>3, RangeAdded
  <2> QED
    BY <1>7, <2>2, <2>3
    DEF CorruptReport, DropWhileWaiting, LostReport, LiRequestIdrFrame, NoRequest
<1>8. ASSUME IdrWake \/ IdrClear \/ IdrSend,
             UNCHANGED <<recvVars, sharedVars, decoderVars, hostVars, netVars>>
      PROVE  RangesProper'
  <2>1. /\ invalidReferenceFrameTuples' \in {invalidReferenceFrameTuples, <<>>}
        /\ UNCHANGED rfiThread
    BY <1>8 DEF IdrWake, IdrClear, IdrSend, Arrived, EndOfFrame, FrameAccepted,
        DecoderKeeps, DropRequest, NoRequest, LiRequestIdrFrame
  <2> QED
    BY <1>8, <2>1, RangesKept, Numbers
<1>9. ASSUME RfiTake,
             UNCHANGED <<recvVars, sharedVars, decoderVars, hostVars, netVars>>
      PROVE  RangesProper'
  <2>1. /\ invalidReferenceFrameTuples # <<>>
        /\ invalidReferenceFrameTuples' = Tail(invalidReferenceFrameTuples)
        /\ rfiThread'.at = "poll" /\ rfiThread'.range = Head(invalidReferenceFrameTuples)
        /\ UNCHANGED frame
    BY <1>9 DEF RfiTake
  <2> QED
    BY <2>1, RangeTaken DEF RangesProper
<1>10. ASSUME RfiPoll,
             UNCHANGED <<recvVars, sharedVars, decoderVars, hostVars, netVars>>
      PROVE  RangesProper'
  <2> DEFINE q == invalidReferenceFrameTuples
  <2>1. CASE q = <<>>
    <3>1. UNCHANGED <<frame, q, rfiThread.range>> /\ rfiThread.at = "poll"
      BY <1>10, <2>1 DEF RfiPoll, IInv, Types
    <3> QED
      BY <2>1, <3>1 DEF IInv, RangesProper
  <2>2. CASE q # <<>>
    <3>1. /\ q' = Tail(q) /\ rfiThread.at = "poll"
          /\ rfiThread'.at = "poll" /\ rfiThread'.range.start = rfiThread.range.start
          /\ rfiThread'.range.end = Head(q).end /\ UNCHANGED frame
      BY <1>10, <2>2, SMTT(30) DEF RfiPoll, IInv, Types, RangeOf
    <3>2. rfiThread.range.start <= rfiThread.range.end
      BY <3>1 DEF IInv, RangesProper
    <3>3. Head(q).end \in Nat
      BY <2>2, RangeTypes, TailFacts
    <3>4. rfiThread'.range.start <= rfiThread'.range.end
      BY <2>2, <3>1, <3>2, <3>3, RangeTypes, RangeTaken
    <3> QED
      BY <2>2, <3>1, <3>4, RangeTaken DEF RangesProper
  <2> QED
    BY <2>1, <2>2
<1>11. ASSUME RfiSend,
             UNCHANGED <<recvVars, sharedVars, decoderVars, hostVars, netVars>>
      PROVE  RangesProper'
  BY <1>11 DEF RfiSend, RfiIdle, IInv, RangesProper
<1>12. CASE UNCHANGED vars
  BY <1>12 DEF vars, IInv, RangesProper
<1> QED
  BY <1>1, <1>2, <1>3, <1>4, <1>5, <1>6, <1>7, <1>8, <1>9, <1>10, <1>11, <1>12
  DEF Next, Receive, Decoder, Control, ControlNext

-----------------------------------------------------------------------------
(* The four parts of Types.                                                *)

Flags ==
  /\ waitingForNextSuccessfulFrame \in BOOLEAN /\ waitingForRefInvalFrame \in BOOLEAN
  /\ waitingForIdrFrame \in BOOLEAN /\ dropStatePending \in BOOLEAN
  /\ idrFrameProcessed \in BOOLEAN /\ idrPending \in BOOLEAN /\ rfiPending \in BOOLEAN
  /\ idrFrameRequired \in BOOLEAN
  /\ rpc \in {"idle", "payload", "corrupt", "pending", "offer", "overflow",
              "submitted", "lost"}
  /\ dpc \in {"idle", "busy", "flush", "pending", "request"}
  /\ idrThread \in {"wait", "woken", "send"}

Counts ==
  /\ nextFrameNumber \in 1..(MaxFrame + 1) /\ startFrameNumber \in 0..(MaxFrame + 1)
  /\ consecutiveFrameDrops \in 0..(DropLimit - 1) /\ silentDrops \in Nat
  /\ nextToEncode \in 1..(MaxFrame + 1) /\ lastIdr \in 0..MaxFrame
  /\ lastSubmitted \in 0..MaxFrame /\ faults \in Faults

Frames ==
  /\ frame \in Frame /\ unit \in Frame
  /\ decodeUnitQueue \in Seq(Frame) /\ Len(decodeUnitQueue) <= QueueBound
  /\ wire \in Seq(Frame) /\ Len(wire) <= MaxInFlight

Requests ==
  /\ Len(invalidReferenceFrameTuples) <= TupleBound
  /\ invalidReferenceFrameTuples \in Seq(RangeOf)
  /\ rfiThread \in [at : {"wait", "poll", "send"}, range : RangeOf]

LEMMA TypeParts == Types <=> Flags /\ Counts /\ Frames /\ Requests
<1>1. Types => Flags /\ Counts /\ Frames /\ Requests
  BY DEF Types, TypeOK, Flags, Counts, Frames, Requests
<1>2. Flags /\ Counts /\ Frames /\ Requests => Types
  BY DEF Types, TypeOK, Flags, Counts, Frames, Requests
<1> QED
  BY <1>1, <1>2

LEMMA RequestsKept ==
  ASSUME Requests, UNCHANGED rfiThread,
         invalidReferenceFrameTuples' = invalidReferenceFrameTuples
           \/ invalidReferenceFrameTuples' = <<>>
  PROVE  Requests'
<1>1. CASE invalidReferenceFrameTuples' = invalidReferenceFrameTuples
  BY <1>1 DEF Requests
<1>2. CASE invalidReferenceFrameTuples' = <<>>
  BY <1>2, RecoveryAssumption DEF Requests
<1> QED
  BY <1>1, <1>2

LEMMA DropCounts ==
  ASSUME consecutiveFrameDrops \in 0..(DropLimit - 1), silentDrops \in Nat, DropUnanswered,
         consecutiveFrameDrops' = IF LimitReached THEN 0 ELSE consecutiveFrameDrops + 1
  PROVE  consecutiveFrameDrops' \in 0..(DropLimit - 1) /\ silentDrops' \in Nat
BY DepacketizerAssumption DEF DropUnanswered, LimitReached

LEMMA FaultCounts ==
  ASSUME faults \in Faults
  PROVE  /\ faults.lost < MaxLosses => [faults EXCEPT !.lost = @ + 1] \in Faults
         /\ faults.refresh < MaxRefreshes => [faults EXCEPT !.refresh = @ + 1] \in Faults
         /\ \A b \in BOOLEAN : faults.corrupt < MaxCorrupt =>
              [faults EXCEPT !.corrupt = @ + 1, !.brokenIdr = b] \in Faults
         /\ \A n \in 0..MaxFrame : faults.lost < MaxLosses =>
              [faults EXCEPT !.lost = @ + 1, !.reported = n] \in Faults
<1>1. /\ faults.lost < MaxLosses => [faults EXCEPT !.lost = @ + 1] \in Faults
      /\ faults.corrupt < MaxCorrupt => [faults EXCEPT !.corrupt = @ + 1] \in Faults
      /\ faults.refresh < MaxRefreshes => [faults EXCEPT !.refresh = @ + 1] \in Faults
  BY DepacketizerAssumption DEF Faults
<1>2. /\ \A n \in 0..MaxFrame : \A g \in Faults : [g EXCEPT !.reported = n] \in Faults
      /\ \A b \in BOOLEAN : \A g \in Faults : [g EXCEPT !.brokenIdr = b] \in Faults
  BY DEF Faults
<1> QED
  BY <1>1, <1>2

LEMMA FlagsStep == IInv /\ [Next]_vars => Flags'
<1> SUFFICES ASSUME IInv, [Next]_vars PROVE Flags'
  OBVIOUS
<1> USE DEF recvVars, sharedVars, decoderVars, hostVars, netVars, controlVars,
        ControlOthers, NetworkOthers
<1>0. Flags
  BY TypeParts DEF IInv
<1>1. CASE StaleFrame
  BY <1>1, <1>0 DEF StaleFrame, Arrived, Flags
<1>2. CASE NothingAwaited
  BY <1>2, <1>0 DEF NothingAwaited, EndOfFrame, Flags
<1>3. CASE NoPendingDrop
  BY <1>3, <1>0 DEF NoPendingDrop, Flags
<1>4. CASE LoseSilently
  BY <1>4, <1>0 DEF LoseSilently, Arrived, Flags
<1>5. CASE FirstPacket
  BY <1>5, <1>0
  DEF FirstPacket, NoRequest, LiRequestIdrFrame, DropRequest, Flags
<1>6. CASE CorruptFirstPacket
  BY <1>6, <1>0
  DEF CorruptFirstPacket, Corrupt, Arrived, DropFrameState, NeedIdr,
      LimitReached, DropRequest, NoRequest, LiRequestIdrFrame, Flags
<1>7. CASE CorruptLaterPacket
  BY <1>7, <1>0
  DEF CorruptLaterPacket, Corrupt, DropFrameState, NeedIdr, LimitReached,
      DropRequest, NoRequest, LiRequestIdrFrame, Flags
<1>8. CASE DropWhileWaiting
  BY <1>8, <1>0
  DEF DropWhileWaiting, EndOfFrame, ConnectionDetectedFrameLoss, DropFrameState,
      NeedIdr, LimitReached, NoRequest, LiRequestIdrFrame, Flags
<1>9. CASE PendingDrop
  BY <1>9, <1>0
  DEF PendingDrop, DropFrameState, NeedIdr, LimitReached, DropRequest,
      NoRequest, LiRequestIdrFrame, Flags
<1>10. CASE OfferOverflow
  BY <1>10, <1>0
  DEF OfferOverflow, DropFrameState, NeedIdr, LimitReached, DropRequest,
      NoRequest, LiRequestIdrFrame, Flags
<1>11. CASE NotifyFrameLost
  BY <1>11, <1>0
  DEF NotifyFrameLost, DropFrameState, NeedIdr, LimitReached, DropRequest,
      NoRequest, LiRequestIdrFrame, Flags
<1>12. CASE CorruptReport
  BY <1>12, <1>0, ZenonT(30)
  DEF CorruptReport, ConnectionDetectedFrameLoss, LiRequestIdrFrame, Flags
<1>13. CASE LostReport
  BY <1>13, <1>0, ZenonT(30)
  DEF LostReport, ConnectionDetectedFrameLoss, NoRequest, LiRequestIdrFrame,
      Flags
<1>14. CASE OverflowFlush
  BY <1>14, <1>0 DEF OverflowFlush, LiRequestIdrFrame, Flags
<1>15. CASE OfferUnit
  BY <1>15, <1>0 DEF OfferUnit, FrameAccepted, Flags
<1>16. CASE SubmitDirect
  BY <1>16, <1>0 DEF SubmitDirect, Flags
<1>17. CASE DirectReturns
  BY <1>17, <1>0 DEF DirectReturns, FrameAccepted, Flags
<1>18. CASE Dequeue
  BY <1>18, <1>0 DEF Dequeue, DecoderKeeps, Flags
<1>19. CASE CompleteOk
  BY <1>19, <1>0 DEF CompleteOk, DecoderKeeps, Flags
<1>20. CASE CompleteNeedIdr
  BY <1>20, <1>0 DEF CompleteNeedIdr, Flags
<1>21. CASE RefreshFlush
  BY <1>21, <1>0 DEF RefreshFlush, DecoderKeeps, Flags
<1>22. CASE RefreshPending
  BY <1>22, <1>0 DEF RefreshPending, DecoderKeeps, Flags
<1>23. CASE RefreshRequest
  BY <1>23, <1>0 DEF RefreshRequest, LiRequestIdrFrame, Flags
<1>24. CASE Encode
  BY <1>24, <1>0, ZenonT(30) DEF Encode, Flags
<1>25. CASE HostHandle
  BY <1>25, <1>0 DEF HostHandle, Flags
<1>26. ASSUME IdrWake,
             UNCHANGED <<recvVars, sharedVars, decoderVars, hostVars, netVars>>
      PROVE  Flags'
  BY <1>26, <1>0 DEF IdrWake, Flags
<1>27. ASSUME IdrClear,
             UNCHANGED <<recvVars, sharedVars, decoderVars, hostVars, netVars>>
      PROVE  Flags'
  BY <1>27, <1>0, ZenonT(30) DEF IdrClear, Flags
<1>28. ASSUME IdrSend,
             UNCHANGED <<recvVars, sharedVars, decoderVars, hostVars, netVars>>
      PROVE  Flags'
  BY <1>28, <1>0 DEF IdrSend, Flags
<1>29. ASSUME RfiTake,
             UNCHANGED <<recvVars, sharedVars, decoderVars, hostVars, netVars>>
      PROVE  Flags'
  BY <1>29, <1>0 DEF RfiTake, Flags
<1>30. ASSUME RfiPoll,
             UNCHANGED <<recvVars, sharedVars, decoderVars, hostVars, netVars>>
      PROVE  Flags'
  BY <1>30, <1>0 DEF RfiPoll, Flags
<1>31. ASSUME RfiSend,
             UNCHANGED <<recvVars, sharedVars, decoderVars, hostVars, netVars>>
      PROVE  Flags'
  BY <1>31, <1>0 DEF RfiSend, Flags
<1>32. CASE UNCHANGED vars
  BY <1>32, <1>0 DEF vars, Flags
<1> QED
  BY <1>1, <1>2, <1>3, <1>4, <1>5, <1>6, <1>7, <1>8, <1>9, <1>10, <1>11, <1>12,
     <1>13, <1>14, <1>15, <1>16, <1>17, <1>18, <1>19, <1>20, <1>21, <1>22,
     <1>23, <1>24, <1>25, <1>26, <1>27, <1>28, <1>29, <1>30, <1>31, <1>32
  DEF Next, Receive, Decoder, Control, ControlNext

LEMMA CountsStep == IInv /\ [Next]_vars => Counts'
<1> SUFFICES ASSUME IInv, [Next]_vars PROVE Counts'
  OBVIOUS
<1> USE DepacketizerAssumption, RecoveryAssumption
    DEF recvVars, sharedVars, decoderVars, hostVars, netVars, controlVars,
        ControlOthers, NetworkOthers
<1>0. Counts
  BY TypeParts DEF IInv
<1>1. CASE StaleFrame
  BY <1>1, <1>0, FaultCounts DEF StaleFrame, Arrived, Counts
<1>2. CASE LoseSilently
  BY <1>2, <1>0, FaultCounts DEF LoseSilently, Arrived, Counts
<1>3. CASE FirstPacket
  <2>1. faults' \in Faults
    BY <1>3, <1>0, FirstPacketFaults DEF Counts
  <2>2. consecutiveFrameDrops' \in 0..(DropLimit - 1) /\ silentDrops' \in Nat
    BY <1>3, <1>0, FirstPacketDrops, DropCounts DEF Counts
  <2>3. nextFrameNumber' \in 1..(MaxFrame + 1)
    <3>1. /\ wire # <<>> /\ nextFrameNumber' = Head(wire).num
          /\ Head(wire).num >= nextFrameNumber
      BY <1>3 DEF FirstPacket, Arrived
    <3> QED
      BY <3>1, <1>0, HeadOfWire DEF Counts
  <2> QED
    BY <1>3, <1>0, <2>1, <2>2, <2>3 DEF FirstPacket, Arrived, Counts
<1>4. CASE CorruptFirstPacket
  <2>1. faults' \in Faults
    BY <1>4, <1>0, FaultCounts DEF CorruptFirstPacket, Corrupt, Arrived, Counts
  <2>2. consecutiveFrameDrops' \in 0..(DropLimit - 1) /\ silentDrops' \in Nat
    BY <1>4, <1>0, DropCounts DEF CorruptFirstPacket, Corrupt, Arrived, DropFrameState, Counts
  <2>3. nextFrameNumber' \in 1..(MaxFrame + 1)
    <3>1. wire # <<>> /\ nextFrameNumber' = Head(wire).num + 1
      BY <1>4 DEF CorruptFirstPacket, Corrupt, Arrived
    <3> QED
      BY <3>1, HeadOfWire
  <2> QED
    BY <1>4, <1>0, <2>1, <2>2, <2>3 DEF CorruptFirstPacket, Corrupt, Arrived, Counts
<1>5. CASE CorruptLaterPacket
  <2>1. faults' \in Faults
    BY <1>5, <1>0, FaultCounts DEF CorruptLaterPacket, Corrupt, Counts
  <2>2. consecutiveFrameDrops' \in 0..(DropLimit - 1) /\ silentDrops' \in Nat
    BY <1>5, <1>0, DropCounts DEF CorruptLaterPacket, Corrupt, DropFrameState, Counts
  <2>3. nextFrameNumber' \in 1..(MaxFrame + 1)
    BY <1>5, Numbers, SMTT(30) DEF CorruptLaterPacket, Corrupt
  <2> QED
    BY <1>5, <1>0, <2>1, <2>2, <2>3 DEF CorruptLaterPacket, Corrupt, Counts
<1>6. CASE DropWhileWaiting
  BY <1>6, <1>0, Numbers
  DEF DropWhileWaiting, EndOfFrame, DropFrameState, LimitReached, Counts
<1>7. CASE NothingAwaited
  BY <1>7, <1>0, Numbers, SMTT(30) DEF NothingAwaited, EndOfFrame, Counts
<1>8. CASE PendingDrop
  BY <1>8, <1>0
  DEF PendingDrop, DropFrameState, LimitReached, DropUnanswered, Counts
<1>9. CASE OfferOverflow
  BY <1>9, <1>0
  DEF OfferOverflow, DropFrameState, LimitReached, DropUnanswered, Counts
<1>10. CASE NotifyFrameLost
  <2>1. faults' \in Faults
    BY <1>10, <1>0, FaultCounts, HeadOfWire DEF NotifyFrameLost, Counts
  <2>2. consecutiveFrameDrops' \in 0..(DropLimit - 1) /\ silentDrops' \in Nat
    BY <1>10, <1>0, DropCounts DEF NotifyFrameLost, DropFrameState, Counts
  <2> QED
    BY <1>10, <1>0, <2>1, <2>2 DEF NotifyFrameLost, Counts
<1>11. CASE CorruptReport
  BY <1>11, <1>0, Numbers DEF CorruptReport, Counts
<1>12. CASE LostReport
  BY <1>12, <1>0, Numbers DEF LostReport, Counts
<1>13. CASE OverflowFlush
  BY <1>13, <1>0, Numbers DEF OverflowFlush, Counts
<1>14. CASE OfferUnit
  BY <1>14, <1>0, Numbers DEF OfferUnit, FrameAccepted, WindowStart, Counts
<1>15. CASE DirectReturns
  BY <1>15, <1>0, Numbers DEF DirectReturns, FrameAccepted, WindowStart, Counts
<1>16. CASE SubmitDirect
  BY <1>16, <1>0, Numbers DEF SubmitDirect, Counts
<1>17. CASE NoPendingDrop
  BY <1>17, <1>0, Numbers DEF NoPendingDrop, Counts
<1>18. CASE Dequeue
  <2>1. Head(decodeUnitQueue) \in Frame
    BY <1>18, TypeParts, TailFacts DEF Dequeue, IInv, Frames
  <2>2. lastSubmitted' \in 0..MaxFrame
    BY <1>18, <2>1 DEF Dequeue, Frame
  <2> QED
    BY <1>18, <1>0, <2>2 DEF Dequeue, DecoderKeeps, Counts
<1>19. CASE CompleteOk
  BY <1>19, <1>0 DEF CompleteOk, DecoderKeeps, Counts
<1>20. CASE RefreshFlush
  BY <1>20, <1>0 DEF RefreshFlush, DecoderKeeps, Counts
<1>21. CASE RefreshPending
  BY <1>21, <1>0 DEF RefreshPending, DecoderKeeps, Counts
<1>22. CASE RefreshRequest
  BY <1>22, <1>0 DEF RefreshRequest, Counts
<1>23. CASE CompleteNeedIdr
  <2>1. faults' \in Faults
    BY <1>23, <1>0, FaultCounts DEF CompleteNeedIdr, Counts
  <2>2. consecutiveFrameDrops' \in 0..(DropLimit - 1) /\ silentDrops' \in Nat
    BY <1>23, <1>0 DEF CompleteNeedIdr, Counts
  <2> QED
    BY <1>23, <1>0, <2>1, <2>2 DEF CompleteNeedIdr, Counts
<1>24. CASE Encode
  BY <1>24, <1>0 DEF Encode, Counts
<1>25. CASE HostHandle
  BY <1>25, <1>0 DEF HostHandle, Counts
<1>26. ASSUME IdrWake,
             UNCHANGED <<recvVars, sharedVars, decoderVars, hostVars, netVars>>
      PROVE  Counts'
  BY <1>26, <1>0 DEF IdrWake, Counts
<1>27. ASSUME IdrClear,
             UNCHANGED <<recvVars, sharedVars, decoderVars, hostVars, netVars>>
      PROVE  Counts'
  BY <1>27, <1>0 DEF IdrClear, Counts
<1>28. ASSUME IdrSend,
             UNCHANGED <<recvVars, sharedVars, decoderVars, hostVars, netVars>>
      PROVE  Counts'
  BY <1>28, <1>0 DEF IdrSend, Counts
<1>29. ASSUME RfiTake,
             UNCHANGED <<recvVars, sharedVars, decoderVars, hostVars, netVars>>
      PROVE  Counts'
  BY <1>29, <1>0 DEF RfiTake, Counts
<1>30. ASSUME RfiPoll,
             UNCHANGED <<recvVars, sharedVars, decoderVars, hostVars, netVars>>
      PROVE  Counts'
  BY <1>30, <1>0 DEF RfiPoll, Counts
<1>31. ASSUME RfiSend,
             UNCHANGED <<recvVars, sharedVars, decoderVars, hostVars, netVars>>
      PROVE  Counts'
  BY <1>31, <1>0 DEF RfiSend, Counts
<1>32. CASE UNCHANGED vars
  BY <1>32, <1>0 DEF vars, Counts
<1> QED
  BY <1>1, <1>2, <1>3, <1>4, <1>5, <1>6, <1>7, <1>8, <1>9, <1>10, <1>11, <1>12,
     <1>13, <1>14, <1>15, <1>16, <1>17, <1>18, <1>19, <1>20, <1>21, <1>22,
     <1>23, <1>24, <1>25, <1>26, <1>27, <1>28, <1>29, <1>30, <1>31, <1>32
  DEF Next, Receive, Decoder, Control, ControlNext

LEMMA FramesStep == IInv /\ [Next]_vars => Frames'
<1> SUFFICES ASSUME IInv, [Next]_vars PROVE Frames'
  OBVIOUS
<1> USE DepacketizerAssumption, RecoveryAssumption
    DEF recvVars, sharedVars, decoderVars, hostVars, netVars, controlVars,
        ControlOthers, NetworkOthers
<1>0. Frames
  BY TypeParts DEF IInv
<1>1. CASE StaleFrame
  BY <1>1, <1>0, HeadOfWire, TailFacts DEF StaleFrame, Arrived, Frames
<1>2. CASE LoseSilently
  BY <1>2, <1>0, HeadOfWire, TailFacts DEF LoseSilently, Arrived, Frames
<1>3. CASE FirstPacket
  BY <1>3, <1>0, HeadOfWire, TailFacts DEF FirstPacket, Arrived, Frames
<1>4. CASE CorruptFirstPacket
  BY <1>4, <1>0, HeadOfWire, TailFacts
  DEF CorruptFirstPacket, Arrived, Corrupt, Frames
<1>5. CASE NotifyFrameLost
  <2>1. wire # <<>> /\ frame' = Head(wire) /\ (wire' = wire \/ wire' = Tail(wire))
        /\ UNCHANGED <<unit, decodeUnitQueue>>
    BY <1>5 DEF NotifyFrameLost
  <2>2. wire' \in Seq(Frame) /\ Len(wire') <= MaxInFlight
    <3>1. CASE wire' = wire
      BY <1>0, <3>1 DEF Frames
    <3>2. CASE wire' = Tail(wire)
      BY <1>0, <2>1, <3>2, TailFacts DEF Frames
    <3> QED
      BY <2>1, <3>1, <3>2
  <2> QED
    BY <1>0, <2>1, <2>2, HeadOfWire DEF Frames
<1>6. CASE CorruptLaterPacket
  BY <1>6, <1>0 DEF CorruptLaterPacket, Corrupt, Frames
<1>7. CASE DropWhileWaiting
  BY <1>7, <1>0 DEF DropWhileWaiting, EndOfFrame, Frames
<1>8. CASE NothingAwaited
  BY <1>8, <1>0 DEF NothingAwaited, EndOfFrame, Frames
<1>9. CASE PendingDrop
  BY <1>9, <1>0 DEF PendingDrop, Frames
<1>10. CASE NoPendingDrop
  BY <1>10, <1>0 DEF NoPendingDrop, Frames
<1>11. CASE CorruptReport
  BY <1>11, <1>0 DEF CorruptReport, Frames
<1>12. CASE LostReport
  BY <1>12, <1>0 DEF LostReport, Frames
<1>13. CASE OfferUnit
  BY <1>13, <1>0, AppendFacts DEF OfferUnit, FrameAccepted, Frames
<1>14. CASE OfferOverflow
  BY <1>14, <1>0 DEF OfferOverflow, Frames
<1>15. CASE OverflowFlush
  BY <1>15, <1>0 DEF OverflowFlush, Frames
<1>16. CASE SubmitDirect
  BY <1>16, <1>0 DEF SubmitDirect, Frames
<1>17. CASE DirectReturns
  BY <1>17, <1>0 DEF DirectReturns, FrameAccepted, Frames
<1>18. CASE Dequeue
  BY <1>18, <1>0, TailFacts DEF Dequeue, DecoderKeeps, Frames
<1>19. CASE CompleteOk
  BY <1>19, <1>0 DEF CompleteOk, DecoderKeeps, Frames
<1>20. CASE CompleteNeedIdr
  BY <1>20, <1>0 DEF CompleteNeedIdr, Frames
<1>21. CASE RefreshFlush
  BY <1>21, <1>0 DEF RefreshFlush, DecoderKeeps, Frames
<1>22. CASE RefreshPending
  BY <1>22, <1>0 DEF RefreshPending, DecoderKeeps, Frames
<1>23. CASE RefreshRequest
  BY <1>23, <1>0 DEF RefreshRequest, Frames
<1>24. CASE Encode
  <2>1. PICK f \in Frame : wire' = Append(wire, f)
    BY <1>24, Numbers DEF Encode, Frame, FrameType
  <2>2. wire' \in Seq(Frame) /\ Len(wire') = Len(wire) + 1
    BY <2>1, AppendFacts, <1>0 DEF Frames
  <2> QED
    BY <1>24, <2>2, <1>0 DEF Encode, Frames
<1>25. CASE HostHandle
  BY <1>25, <1>0 DEF HostHandle, Frames
<1>26. ASSUME IdrWake,
             UNCHANGED <<recvVars, sharedVars, decoderVars, hostVars, netVars>>
      PROVE  Frames'
  BY <1>26, <1>0 DEF IdrWake, Frames
<1>27. ASSUME IdrClear,
             UNCHANGED <<recvVars, sharedVars, decoderVars, hostVars, netVars>>
      PROVE  Frames'
  BY <1>27, <1>0 DEF IdrClear, Frames
<1>28. ASSUME IdrSend,
             UNCHANGED <<recvVars, sharedVars, decoderVars, hostVars, netVars>>
      PROVE  Frames'
  BY <1>28, <1>0 DEF IdrSend, Frames
<1>29. ASSUME RfiTake,
             UNCHANGED <<recvVars, sharedVars, decoderVars, hostVars, netVars>>
      PROVE  Frames'
  BY <1>29, <1>0 DEF RfiTake, Frames
<1>30. ASSUME RfiPoll,
             UNCHANGED <<recvVars, sharedVars, decoderVars, hostVars, netVars>>
      PROVE  Frames'
  BY <1>30, <1>0 DEF RfiPoll, Frames
<1>31. ASSUME RfiSend,
             UNCHANGED <<recvVars, sharedVars, decoderVars, hostVars, netVars>>
      PROVE  Frames'
  BY <1>31, <1>0 DEF RfiSend, Frames
<1>32. CASE UNCHANGED vars
  BY <1>32, <1>0 DEF vars, Frames
<1> QED
  BY <1>1, <1>2, <1>3, <1>4, <1>5, <1>6, <1>7, <1>8, <1>9, <1>10, <1>11, <1>12,
     <1>13, <1>14, <1>15, <1>16, <1>17, <1>18, <1>19, <1>20, <1>21, <1>22,
     <1>23, <1>24, <1>25, <1>26, <1>27, <1>28, <1>29, <1>30, <1>31, <1>32
  DEF Next, Receive, Decoder, Control, ControlNext

LEMMA RequestsStep == IInv /\ [Next]_vars => Requests'
<1> SUFFICES ASSUME IInv, [Next]_vars PROVE Requests'
  OBVIOUS
<1> USE DepacketizerAssumption, RecoveryAssumption
    DEF recvVars, sharedVars, decoderVars, hostVars, netVars, controlVars,
        ControlOthers, NetworkOthers
<1>0. Requests
  BY TypeParts DEF IInv
<1>1. CASE StaleFrame
  BY <1>1, <1>0 DEF StaleFrame, Requests
<1>2. CASE NothingAwaited
  BY <1>2, <1>0 DEF NothingAwaited, EndOfFrame, Requests
<1>3. CASE NoPendingDrop
  BY <1>3, <1>0 DEF NoPendingDrop, Requests
<1>4. CASE LoseSilently
  BY <1>4, <1>0 DEF LoseSilently, Requests
<1>5. CASE FirstPacket
  BY <1>5, <1>0, RequestsKept
  DEF FirstPacket, DropRequest, NoRequest, LiRequestIdrFrame, Requests
<1>6. CASE PendingDrop
  BY <1>6, <1>0, RequestsKept
  DEF PendingDrop, DropRequest, NoRequest, LiRequestIdrFrame, Requests
<1>7. CASE OfferOverflow
  BY <1>7, <1>0, RequestsKept
  DEF OfferOverflow, DropRequest, NoRequest, LiRequestIdrFrame, Requests
<1>8. CASE NotifyFrameLost
  BY <1>8, <1>0, RequestsKept
  DEF NotifyFrameLost, DropRequest, NoRequest, LiRequestIdrFrame, Requests
<1>9. CASE CorruptFirstPacket
  BY <1>9, <1>0, RequestsKept
  DEF CorruptFirstPacket, Corrupt, DropRequest, NoRequest, LiRequestIdrFrame,
      Requests
<1>10. CASE CorruptLaterPacket
  BY <1>10, <1>0, RequestsKept
  DEF CorruptLaterPacket, Corrupt, DropRequest, NoRequest, LiRequestIdrFrame,
      Requests
<1>11. CASE CorruptReport \/ DropWhileWaiting \/ LostReport
  <2>1. UNCHANGED rfiThread
    BY <1>11 DEF CorruptReport, DropWhileWaiting, LostReport
  <2>2. CASE \/ invalidReferenceFrameTuples' = invalidReferenceFrameTuples
             \/ invalidReferenceFrameTuples' = <<>>
    BY <2>1, <2>2, <1>0, RequestsKept
  <2>3. CASE ConnectionDetectedFrameLoss(startFrameNumber, frame.num)
    <3>1. Range(startFrameNumber, frame.num) \in RangeOf
      BY Numbers DEF Range, RangeOf
    <3>2. CASE LiRequestIdrFrame
      BY <1>0, <2>1, <3>2, RequestsKept DEF LiRequestIdrFrame
    <3>3. CASE /\ Len(invalidReferenceFrameTuples) < TupleBound
               /\ invalidReferenceFrameTuples' =
                    Append(invalidReferenceFrameTuples, Range(startFrameNumber, frame.num))
      BY <1>0, <2>1, <3>1, <3>3, AppendFacts, RecoveryAssumption DEF Requests
    <3> QED
      BY <2>3, <3>2, <3>3 DEF ConnectionDetectedFrameLoss
  <2> QED
    BY <1>11, <2>2, <2>3
    DEF CorruptReport, DropWhileWaiting, LostReport, LiRequestIdrFrame, NoRequest
<1>12. CASE OverflowFlush
  BY <1>12, <1>0 DEF OverflowFlush, LiRequestIdrFrame, Requests
<1>13. CASE RefreshRequest
  BY <1>13, <1>0 DEF RefreshRequest, LiRequestIdrFrame, Requests
<1>14. CASE OfferUnit
  BY <1>14, <1>0 DEF OfferUnit, FrameAccepted, Requests
<1>15. CASE SubmitDirect
  BY <1>15, <1>0 DEF SubmitDirect, Requests
<1>16. CASE DirectReturns
  BY <1>16, <1>0 DEF DirectReturns, FrameAccepted, Requests
<1>17. CASE Dequeue
  BY <1>17, <1>0 DEF Dequeue, DecoderKeeps, Requests
<1>18. CASE CompleteOk
  BY <1>18, <1>0 DEF CompleteOk, DecoderKeeps, Requests
<1>19. CASE CompleteNeedIdr
  BY <1>19, <1>0 DEF CompleteNeedIdr, Requests
<1>20. CASE RefreshFlush
  BY <1>20, <1>0 DEF RefreshFlush, DecoderKeeps, Requests
<1>21. CASE RefreshPending
  BY <1>21, <1>0 DEF RefreshPending, DecoderKeeps, Requests
<1>22. CASE Encode
  BY <1>22, <1>0 DEF Encode, Requests
<1>23. CASE HostHandle
  BY <1>23, <1>0 DEF HostHandle, Requests
<1>24. ASSUME IdrWake,
             UNCHANGED <<recvVars, sharedVars, decoderVars, hostVars, netVars>>
      PROVE  Requests'
  BY <1>24, <1>0 DEF IdrWake, Requests
<1>25. ASSUME IdrClear,
             UNCHANGED <<recvVars, sharedVars, decoderVars, hostVars, netVars>>
      PROVE  Requests'
  BY <1>25, <1>0 DEF IdrClear, Requests
<1>26. ASSUME IdrSend,
             UNCHANGED <<recvVars, sharedVars, decoderVars, hostVars, netVars>>
      PROVE  Requests'
  BY <1>26, <1>0 DEF IdrSend, Requests
<1>27. ASSUME RfiTake,
             UNCHANGED <<recvVars, sharedVars, decoderVars, hostVars, netVars>>
      PROVE  Requests'
  <2>1. /\ Head(invalidReferenceFrameTuples) \in RangeOf
        /\ Tail(invalidReferenceFrameTuples) \in Seq(RangeOf)
        /\ Len(Tail(invalidReferenceFrameTuples)) = Len(invalidReferenceFrameTuples) - 1
    BY <1>27, RangeTypes, TailFacts DEF RfiTake
  <2> QED
    BY <1>27, <2>1, RangeTypes, <1>0 DEF RfiTake, Requests
<1>28. ASSUME RfiPoll,
             UNCHANGED <<recvVars, sharedVars, decoderVars, hostVars, netVars>>
      PROVE  Requests'
  <2>1. CASE invalidReferenceFrameTuples = <<>>
    BY <1>28, <2>1, <1>0 DEF RfiPoll, Requests
  <2>2. CASE invalidReferenceFrameTuples # <<>>
    <3>1. /\ Head(invalidReferenceFrameTuples) \in RangeOf
          /\ Tail(invalidReferenceFrameTuples) \in Seq(RangeOf)
          /\ Len(Tail(invalidReferenceFrameTuples)) = Len(invalidReferenceFrameTuples) - 1
      BY <2>2, RangeTypes, TailFacts
    <3>2. \A t \in [at : {"wait", "poll", "send"}, range : RangeOf], n \in Nat :
            [t EXCEPT !.range.end = n] \in [at : {"wait", "poll", "send"}, range : RangeOf]
      BY DEF RangeOf
    <3>3. rfiThread' \in [at : {"wait", "poll", "send"}, range : RangeOf]
      BY <1>28, <2>2, <3>1, <3>2, <1>0, RangeTypes DEF RfiPoll, Requests
    <3>4. invalidReferenceFrameTuples' = Tail(invalidReferenceFrameTuples)
      BY <1>28, <2>2 DEF RfiPoll
    <3> QED
      BY <3>1, <3>3, <3>4, RangeTypes, <1>0 DEF Requests
  <2> QED
    BY <2>1, <2>2
<1>29. ASSUME RfiSend,
             UNCHANGED <<recvVars, sharedVars, decoderVars, hostVars, netVars>>
      PROVE  Requests'
  <2>1. RfiIdle \in [at : {"wait", "poll", "send"}, range : RangeOf]
    BY DEF RfiIdle, NoRange, RangeOf
  <2> QED
    BY <1>29, <2>1, <1>0 DEF RfiSend, Requests
<1>30. CASE UNCHANGED vars
  BY <1>30, <1>0 DEF vars, Requests
<1> QED
  BY <1>1, <1>2, <1>3, <1>4, <1>5, <1>6, <1>7, <1>8, <1>9, <1>10, <1>11, <1>12,
     <1>13, <1>14, <1>15, <1>16, <1>17, <1>18, <1>19, <1>20, <1>21, <1>22,
     <1>23, <1>24, <1>25, <1>26, <1>27, <1>28, <1>29, <1>30
  DEF Next, Receive, Decoder, Control, ControlNext

-----------------------------------------------------------------------------
LEMMA Invariant == Spec => []IInv
<1>1. IInv /\ [Next]_vars => IInv'
  <2> SUFFICES ASSUME IInv, [Next]_vars PROVE IInv'
    OBVIOUS
  <2>1. Flags' /\ Counts' /\ Frames' /\ Requests' => Types'
    BY TypeParts, PTL
  <2> QED
    BY <2>1, FlagsStep, CountsStep, FramesStep, RequestsStep, WireStep, AtFrameStep,
       RangesStep, LossStep, DropsStep DEF IInv
<1> QED
  BY <1>1, InitIInv, PTL DEF Spec

(* The invalidations that are queued or taken are proper ranges with ever  *)
(* later ends, and every variable keeps its type.                          *)
THEOREM InvalidationsOrdered == Spec => []TuplesOrdered
<1>1. IInv => TuplesOrdered
  <2> SUFFICES ASSUME IInv PROVE TuplesOrdered
    OBVIOUS
  <2> DEFINE q == invalidReferenceFrameTuples
  <2>1. \A r \in Ranges : r.start <= r.end
    BY RangeTypes DEF Ranges, IInv, RangesProper
  <2>2. \A i \in 2..Len(q) : q[i - 1].end <= q[i].end
    <3>1. \A i \in 2..Len(q) : i - 1 \in 1..Len(q) /\ i \in 1..Len(q) /\ i - 1 < i
      BY RangeTypes
    <3> QED
      BY <3>1 DEF IInv, RangesProper
  <2>3. rfiThread.at = "poll" /\ q # <<>> => rfiThread.range.end <= Head(q).end
    <3>1. q # <<>> => Head(q) = q[1] /\ 1 \in 1..Len(q)
      BY RangeTypes, TailFacts
    <3> QED
      BY <3>1 DEF IInv, RangesProper
  <2> QED
    BY <2>1, <2>2, <2>3 DEF TuplesOrdered, IInv, Types
<1> QED
  BY <1>1, Invariant, PTL

(* A loss that was noticed is not forgotten, and fewer than                *)
(* CONSECUTIVE_DROP_LIMIT frames are dropped in a row without a request or *)
(* a submission.                                                           *)
THEOREM LossIsHandled == Spec => []LossHandled
<1>1. IInv => LossHandled
  BY DepacketizerAssumption
  DEF IInv, Types, TypeOK, DropsCounted, LossHandled, StallBounded
<1> QED
  BY <1>1, Invariant, PTL

-----------------------------------------------------------------------------
(* What the decoder gets.                                                  *)

Follows(last, f) == f.type = "IDR" \/ (last # 0 /\ (f.type = "INV" \/ f.num = last + 1))

(* The newest frame that was handed to the decoder or waits for it.        *)
Newest ==
  IF decodeUnitQueue = <<>> THEN lastSubmitted
  ELSE decodeUnitQueue[Len(decodeUnitQueue)].num

Previous(i) == IF i = 1 THEN lastSubmitted ELSE decodeUnitQueue[i - 1].num

(* The decoder refreshes on the receive thread, or not at all, and no IDR  *)
(* frame has broken off.                                                   *)
Calm == (DirectSubmit \/ faults.refresh = 0) /\ ~faults.brokenIdr

(* The queue is a chain of decodable frames.                               *)
QueueChained ==
  Calm => \A i \in 1..Len(decodeUnitQueue) :
    Follows(Previous(i), decodeUnitQueue[i]) /\ decodeUnitQueue[i].num # 0

(* Who may be at work, and what is awaited then.                           *)
Turns ==
  /\ dpc \in {"flush", "pending", "request"} => faults.refresh # 0
  /\ DirectSubmit => decodeUnitQueue = <<>> /\ (rpc # "submitted" => dpc = "idle")
  /\ rpc = "submitted" => DirectSubmit
  /\ rpc = "corrupt" => waitingForIdrFrame \/ waitingForRefInvalFrame
  /\ rpc = "overflow" => waitingForIdrFrame
  /\ rpc \in {"payload", "pending", "offer", "submitted"} => frame.num # 0
  /\ Calm => /\ rpc = "payload" /\ frame.type = "IDR" =>
                  ~waitingForIdrFrame /\ ~waitingForRefInvalFrame
             /\ rpc \in {"pending", "offer"} =>
                  ~waitingForIdrFrame /\ ~waitingForRefInvalFrame
             /\ rpc = "submitted" =>
                  /\ ~waitingForRefInvalFrame
                  /\ waitingForIdrFrame \/ lastSubmitted = frame.num

(* A decoder without a picture waits for an IDR frame; nothing is awaited  *)
(* only while the frames follow one another.                               *)
WaitsUnlessChained ==
  Calm =>
    /\ Newest = 0 => \/ waitingForIdrFrame
                     \/ rpc \in {"payload", "pending", "offer"} /\ frame.type = "IDR"
    /\ ~waitingForIdrFrame /\ ~waitingForRefInvalFrame =>
         /\ rpc = "idle" => nextFrameNumber = Newest + 1
         /\ rpc \in {"payload", "pending", "offer"} /\ frame.type = "P" =>
              frame.num = Newest + 1

ChainInv == QueueChained /\ Turns /\ WaitsUnlessChained

LEMMA InitChain == Init => ChainInv
BY DEF Init, ChainInv, QueueChained, Turns, WaitsUnlessChained, Newest

(* Calm does not return.                                                   *)
LEMMA CalmStep == IInv /\ [Next]_vars => (Calm' => Calm)
<1> SUFFICES ASSUME IInv, [Next]_vars PROVE (Calm' => Calm)
  OBVIOUS
<1> USE DepacketizerAssumption, RecoveryAssumption
    DEF recvVars, sharedVars, decoderVars, hostVars, netVars, controlVars,
        ControlOthers, NetworkOthers
<1>1. CASE FirstPacket
  BY <1>1, FirstPacketFaults, TypeParts DEF Calm, IInv, Counts
<1>2. CASE CorruptFirstPacket \/ CorruptLaterPacket
  BY <1>2, TypeParts 
     DEF CorruptFirstPacket, CorruptLaterPacket, Corrupt, Calm, IInv, Counts, Faults
<1>3. CASE NotifyFrameLost
  BY <1>3, TypeParts DEF NotifyFrameLost, Calm, IInv, Counts, Faults
<1>4. CASE LoseSilently \/ CompleteNeedIdr
  BY <1>4, TypeParts DEF LoseSilently, CompleteNeedIdr, Calm, IInv, Counts, Faults
<1>5. CASE Dequeue \/ CompleteOk \/ RefreshFlush \/ RefreshPending
  BY <1>5
  DEF Dequeue, CompleteOk, RefreshFlush, RefreshPending, DecoderKeeps, Calm
<1>6. CASE Control \/ StaleFrame \/ CorruptReport \/ DropWhileWaiting \/
          NothingAwaited \/ PendingDrop \/ NoPendingDrop \/ OfferUnit \/
          OfferOverflow \/ OverflowFlush \/ SubmitDirect \/ DirectReturns \/
          LostReport \/ RefreshRequest \/ Encode \/ HostHandle
  BY <1>6
  DEF Control, StaleFrame, CorruptReport, DropWhileWaiting, NothingAwaited,
      PendingDrop, NoPendingDrop, OfferUnit, OfferOverflow, OverflowFlush,
      SubmitDirect, DirectReturns, LostReport, RefreshRequest, Encode,
      HostHandle, Calm, ControlNext, IdrWake, IdrClear, IdrSend, RfiTake,
      RfiPoll, RfiSend
<1>7. CASE UNCHANGED vars
  BY <1>7 DEF vars, Calm
<1> QED
  BY <1>1, <1>2, <1>3, <1>4, <1>5, <1>6, <1>7 DEF Next, Receive, Decoder

LEMMA TurnsStep == IInv /\ ChainInv /\ [Next]_vars => Turns'
<1> SUFFICES ASSUME IInv, ChainInv, [Next]_vars PROVE Turns'
  OBVIOUS
<1> USE DepacketizerAssumption, RecoveryAssumption
    DEF recvVars, sharedVars, decoderVars, hostVars, netVars, controlVars,
        ControlOthers, NetworkOthers
<1>0. Turns /\ (Calm' => Calm)
  BY CalmStep DEF ChainInv
<1>a. Flags /\ Counts /\ Frames
  BY TypeParts DEF IInv
<1>1. CASE StaleFrame
  BY <1>1, <1>0, <1>a DEF StaleFrame, Arrived, Counts, Faults, Turns
<1>2. CASE LoseSilently
  BY <1>2, <1>0, <1>a DEF LoseSilently, Arrived, Counts, Faults, Turns
<1>3. CASE FirstPacket
  <2>1. frame'.num # 0 /\ rpc' = "payload" /\ rpc = "idle"
    BY <1>3, HeadOfWire, Numbers, SMTT(30) DEF FirstPacket, Arrived
  <2>2. frame'.type = "IDR" => ~waitingForIdrFrame' /\ ~waitingForRefInvalFrame'
    BY <1>3 DEF FirstPacket
  <2>3. UNCHANGED <<dpc, decodeUnitQueue>>
    BY <1>3 DEF FirstPacket
  <2>4. UNCHANGED faults.refresh
    BY <1>3, <1>a, FirstPacketFaults DEF Counts
  <2> QED
    BY <1>0, <2>1, <2>2, <2>3, <2>4 DEF Turns
<1>4. CASE CorruptFirstPacket
  BY <1>4, <1>0, <1>a
  DEF CorruptFirstPacket, Arrived, Corrupt, DropFrameState, NeedIdr, Counts,
      Faults, Turns
<1>5. CASE CorruptLaterPacket
  BY <1>5, <1>0, <1>a
  DEF CorruptLaterPacket, Corrupt, DropFrameState, NeedIdr, Counts, Faults,
      Turns
<1>6. CASE DropWhileWaiting
  BY <1>6, <1>0 DEF DropWhileWaiting, EndOfFrame, Turns
<1>7. CASE NothingAwaited
  BY <1>7, <1>0 DEF NothingAwaited, EndOfFrame, Turns
<1>8. CASE PendingDrop
  BY <1>8, <1>0 DEF PendingDrop, DropFrameState, NeedIdr, Turns
<1>9. CASE NoPendingDrop
  BY <1>9, <1>0 DEF NoPendingDrop, Turns
<1>10. CASE OfferUnit
  BY <1>10, <1>0 DEF OfferUnit, FrameAccepted, Turns
<1>11. CASE OfferOverflow
  BY <1>11, <1>0
  DEF OfferOverflow, DropFrameState, NeedIdr, OverflowNeedsIdr, Turns
<1>12. CASE OverflowFlush
  BY <1>12, <1>0 DEF OverflowFlush, Turns
<1>13. CASE SubmitDirect
  BY <1>13, <1>0 DEF SubmitDirect, Turns
<1>14. CASE DirectReturns
  BY <1>14, <1>0 DEF DirectReturns, FrameAccepted, Turns
<1>15. CASE CorruptReport
  BY <1>15, <1>0 DEF CorruptReport, Turns
<1>16. CASE LostReport
  BY <1>16, <1>0 DEF LostReport, Turns
<1>17. CASE NotifyFrameLost
  BY <1>17, <1>0, <1>a
  DEF NotifyFrameLost, DropFrameState, Counts, Faults, Turns
<1>18. CASE Dequeue
  BY <1>18, <1>0, <1>a DEF Dequeue, DecoderKeeps, Counts, Faults, Turns
<1>19. CASE CompleteOk
  BY <1>19, <1>0, <1>a DEF CompleteOk, DecoderKeeps, Counts, Faults, Turns
<1>20. CASE RefreshFlush
  BY <1>20, <1>0, <1>a DEF RefreshFlush, DecoderKeeps, Counts, Faults, Turns
<1>21. CASE RefreshPending
  BY <1>21, <1>0, <1>a DEF RefreshPending, DecoderKeeps, Counts, Faults, Turns
<1>22. CASE RefreshRequest
  BY <1>22, <1>0, <1>a DEF RefreshRequest, Counts, Faults, Turns
<1>23. CASE CompleteNeedIdr
  <2>1. faults'.refresh # 0 /\ waitingForIdrFrame'
    BY <1>23, <1>a DEF CompleteNeedIdr, Counts, Faults
  <2>2. UNCHANGED <<rpc, frame, waitingForRefInvalFrame, decodeUnitQueue>> /\ dpc = "busy"
    BY <1>23 DEF CompleteNeedIdr
  <2>3. Calm' => rpc \notin {"pending", "offer", "payload"}
    BY <1>0, <2>1, <2>2 DEF Turns, Calm
  <2> QED
    BY <1>0, <2>1, <2>2, <2>3 DEF Turns, Calm
<1>24. CASE Encode
  BY <1>24, <1>0 DEF Encode, Turns
<1>25. CASE HostHandle
  BY <1>25, <1>0 DEF HostHandle, Turns
<1>26. CASE Control
  BY <1>26, <1>0
  DEF Control, Turns, ControlNext, IdrWake, IdrClear, IdrSend, RfiTake, RfiPoll,
      RfiSend
<1>27. CASE UNCHANGED vars
  BY <1>27, <1>0 DEF vars, Turns
<1> QED
  BY <1>1, <1>2, <1>3, <1>4, <1>5, <1>6, <1>7, <1>8, <1>9, <1>10, <1>11, <1>12,
     <1>13, <1>14, <1>15, <1>16, <1>17, <1>18, <1>19, <1>20, <1>21, <1>22,
     <1>23, <1>24, <1>25, <1>26, <1>27
  DEF Next, Receive, Decoder

-----------------------------------------------------------------------------
(* The queue and its newest frame.                                         *)

LEMMA QueueFacts ==
  ASSUME IInv
  PROVE  /\ decodeUnitQueue \in Seq(Frame) /\ Len(decodeUnitQueue) \in Nat
         /\ \A i \in 1..Len(decodeUnitQueue) : decodeUnitQueue[i] \in Frame
BY DEF IInv, Types, TypeOK

LEMMA QueueKept ==
  ASSUME UNCHANGED <<decodeUnitQueue, lastSubmitted>>
  PROVE  Newest' = Newest /\ (QueueChained /\ (Calm' => Calm) => QueueChained')
<1>1. Newest' = Newest /\ \A i : Previous(i)' = Previous(i)
  BY DEF Newest, Previous
<1> QED
  BY <1>1 DEF QueueChained

LEMMA Enqueued ==
  ASSUME IInv, decodeUnitQueue' = Append(decodeUnitQueue, frame), UNCHANGED lastSubmitted,
         QueueChained, Calm' => Calm, Calm => Follows(Newest, frame) /\ frame.num # 0
  PROVE  Newest' = frame.num /\ QueueChained'
<1> DEFINE q == decodeUnitQueue
<1>1. frame \in Frame /\ q \in Seq(Frame) /\ Len(q) \in Nat
  BY QueueFacts DEF IInv, Types, TypeOK
<1>2. /\ Len(q') = Len(q) + 1 /\ q'[Len(q')] = frame /\ q' # <<>>
      /\ \A i \in 1..Len(q) : q'[i] = q[i]
  BY <1>1, AppendFacts
<1>3. Newest' = frame.num
  BY <1>2 DEF Newest
<1>4. \A i \in 1..Len(q') : i \in 1..Len(q) \/ i = Len(q')
  BY <1>1, <1>2
<1>5. \A i \in 1..Len(q) : Previous(i)' = Previous(i)
  <2>1. \A i \in 1..Len(q) : i # 1 => i - 1 \in 1..Len(q)
    BY <1>1
  <2> QED
    BY <1>2, <2>1 DEF Previous
<1>6. \A i \in 1..Len(q') : i = Len(q') => Previous(i)' = Newest
  <2> SUFFICES ASSUME NEW i \in 1..Len(q'), i = Len(q') PROVE Previous(i)' = Newest
    OBVIOUS
  <2>1. CASE q = <<>>
    <3>1. i = 1
      BY <1>2, <2>1
    <3> QED
      BY <2>1, <3>1 DEF Previous, Newest
  <2>2. CASE q # <<>>
    <3>1. Len(q) \in 1..Len(q) /\ i # 1 /\ i - 1 = Len(q)
      BY <1>1, <1>2, <2>2
    <3> QED
      BY <1>2, <2>2, <3>1 DEF Previous, Newest
  <2> QED
    BY <2>1, <2>2
<1>7. Calm' => \A i \in 1..Len(q') : Follows(Previous(i), q[i])' /\ q'[i].num # 0
  <2> SUFFICES ASSUME Calm', NEW i \in 1..Len(q')
               PROVE  Follows(Previous(i), q[i])' /\ q'[i].num # 0
    OBVIOUS
  <2>1. CASE i \in 1..Len(q)
    BY <1>2, <1>5, <2>1 DEF QueueChained, Follows
  <2>2. CASE i = Len(q')
    <3>1. Calm /\ q'[i] = frame /\ Previous(i)' = Newest
      BY <1>2, <1>6, <2>2
    <3> QED
      BY <3>1 DEF Follows
  <2> QED
    BY <1>4, <2>1, <2>2
<1> QED
  BY <1>3, <1>7 DEF QueueChained

LEMMA Dequeued ==
  ASSUME IInv, decodeUnitQueue # <<>>, decodeUnitQueue' = Tail(decodeUnitQueue),
         lastSubmitted' = Head(decodeUnitQueue).num, QueueChained, Calm' => Calm
  PROVE  /\ Newest' = Newest /\ QueueChained'
         /\ Calm => Follows(lastSubmitted, Head(decodeUnitQueue))
<1> DEFINE q == decodeUnitQueue
<1>1. /\ Len(q) \in Nat /\ Len(q) >= 1 /\ Head(q) = q[1] /\ Len(q') = Len(q) - 1
      /\ q' \in Seq(Frame) /\ \A i \in 1..Len(q') : q'[i] = q[i + 1]
  BY QueueFacts, TailFacts
<1>2. Newest' = Newest
  <2>1. CASE q' = <<>>
    <3>1. Len(q) = 1
      BY <1>1, <2>1
    <3> QED
      BY <1>1, <2>1, <3>1 DEF Newest
  <2>2. CASE q' # <<>>
    <3>1. Len(q') \in 1..Len(q') /\ Len(q') + 1 = Len(q)
      BY <1>1, <2>2
    <3> QED
      BY <1>1, <2>2, <3>1 DEF Newest
  <2> QED
    BY <2>1, <2>2
<1>3. \A i \in 1..Len(q') : Previous(i)' = Previous(i + 1)
  <2>1. \A i \in 1..Len(q') :
          i + 1 # 1 /\ (i + 1) - 1 = i /\ (i # 1 => i - 1 \in 1..Len(q') /\ (i - 1) + 1 = i)
    BY <1>1
  <2> QED
    BY <1>1, <2>1 DEF Previous
<1>4. \A i \in 1..Len(q') : i + 1 \in 1..Len(q)
  BY <1>1
<1>5. QueueChained'
  BY <1>1, <1>3, <1>4 DEF QueueChained, Follows
<1>6. 1 \in 1..Len(q) /\ Previous(1) = lastSubmitted
  BY <1>1 DEF Previous
<1> QED
  BY <1>1, <1>2, <1>5, <1>6 DEF QueueChained

(* Frames are decodable when they are offered.                             *)
LEMMA Offered ==
  ASSUME IInv, ChainInv, rpc = "offer", Calm
  PROVE  Follows(Newest, frame) /\ frame.num # 0
<1>1. frame.type \in {"IDR", "INV", "P"}
  BY DEF IInv, Types, TypeOK, Frame, FrameType
<1> QED
  BY <1>1 DEF ChainInv, Turns, WaitsUnlessChained, Follows

(* A queue that is flushed is no chain to break.                           *)
LEMMA Flushed ==
  ASSUME decodeUnitQueue' = <<>>
  PROVE  QueueChained' /\ Newest' = lastSubmitted'
BY DEF QueueChained, Newest

LEMMA QueueStep == IInv /\ ChainInv /\ [Next]_vars => QueueChained'
<1> SUFFICES ASSUME IInv, ChainInv, [Next]_vars PROVE QueueChained'
  OBVIOUS
<1> USE DepacketizerAssumption, RecoveryAssumption
    DEF recvVars, sharedVars, decoderVars, hostVars, netVars, controlVars,
        ControlOthers, NetworkOthers
<1>0. QueueChained /\ (Calm' => Calm)
  BY CalmStep DEF ChainInv
<1>1. CASE StaleFrame \/ FirstPacket \/ CorruptFirstPacket \/ CorruptLaterPacket
          \/ CorruptReport
  <2>1. UNCHANGED <<decodeUnitQueue, lastSubmitted>>
    BY <1>1
    DEF StaleFrame, FirstPacket, CorruptFirstPacket, CorruptLaterPacket,
        CorruptReport, Corrupt
  <2> QED
    BY <1>0, <2>1, QueueKept
<1>2. CASE DropWhileWaiting \/ NothingAwaited \/ PendingDrop \/ NoPendingDrop
  <2>1. UNCHANGED <<decodeUnitQueue, lastSubmitted>>
    BY <1>2
    DEF DropWhileWaiting, NothingAwaited, PendingDrop, NoPendingDrop, EndOfFrame
  <2> QED
    BY <1>0, <2>1, QueueKept
<1>3. CASE OfferUnit
  <2>1. decodeUnitQueue' = Append(decodeUnitQueue, frame) /\ UNCHANGED lastSubmitted
    BY <1>3 DEF OfferUnit
  <2> QED
    BY <1>3, <1>0, <2>1, Offered, Enqueued DEF OfferUnit
<1>4. CASE OfferOverflow \/ DirectReturns \/ NotifyFrameLost \/ LostReport \/
          LoseSilently
  <2>1. UNCHANGED <<decodeUnitQueue, lastSubmitted>>
    BY <1>4
    DEF OfferOverflow, DirectReturns, NotifyFrameLost, LostReport, LoseSilently,
        FrameAccepted
  <2> QED
    BY <1>0, <2>1, QueueKept
<1>5. CASE OverflowFlush \/ RefreshFlush
  BY <1>5, Flushed DEF OverflowFlush, RefreshFlush
<1>6. CASE SubmitDirect
  <2>1. decodeUnitQueue' = <<>>
    BY <1>6 DEF SubmitDirect, ChainInv, Turns
  <2> QED
    BY <2>1, Flushed
<1>7. CASE Dequeue
  BY <1>7, <1>0, Dequeued DEF Dequeue
<1>8. CASE CompleteOk \/ RefreshPending \/ RefreshRequest \/ Encode \/
          HostHandle
  <2>1. UNCHANGED <<decodeUnitQueue, lastSubmitted>>
    BY <1>8
    DEF CompleteOk, RefreshPending, RefreshRequest, Encode, HostHandle,
        DecoderKeeps
  <2> QED
    BY <1>0, <2>1, QueueKept
<1>9. CASE CompleteNeedIdr
  <2>1. Calm' => DirectSubmit
    BY <1>9, TypeParts DEF CompleteNeedIdr, Calm, IInv, Counts, Faults
  <2>2. UNCHANGED decodeUnitQueue
    BY <1>9 DEF CompleteNeedIdr
  <2>3. DirectSubmit => decodeUnitQueue' = <<>>
    BY <2>2 DEF ChainInv, Turns
  <2> QED
    BY <2>1, <2>3, Flushed DEF QueueChained
<1>10. ASSUME IdrWake \/ IdrClear \/ IdrSend \/ RfiTake \/ RfiPoll \/ RfiSend,
             UNCHANGED <<recvVars, sharedVars, decoderVars, hostVars, netVars>>
      PROVE  QueueChained'
  BY <1>10, <1>0, QueueKept
<1>11. CASE UNCHANGED vars
  BY <1>11, <1>0, QueueKept DEF vars, QueueChained
<1> QED
  BY <1>1, <1>2, <1>3, <1>4, <1>5, <1>6, <1>7, <1>8, <1>9, <1>10, <1>11
  DEF Next, Receive, Decoder, Control, ControlNext

LEMMA WaitsStep == IInv /\ ChainInv /\ [Next]_vars => WaitsUnlessChained'
<1> SUFFICES ASSUME IInv, ChainInv, [Next]_vars PROVE WaitsUnlessChained'
  OBVIOUS
<1> USE DepacketizerAssumption, RecoveryAssumption
    DEF recvVars, sharedVars, decoderVars, hostVars, netVars, controlVars,
        ControlOthers, NetworkOthers
<1>0. WaitsUnlessChained /\ (Calm' => Calm)
  BY CalmStep DEF ChainInv
<1>1. CASE StaleFrame
  <2>1. UNCHANGED Newest
    BY <1>1, QueueKept DEF StaleFrame, Arrived
  <2> QED
    BY <1>1, <1>0, <2>1 DEF StaleFrame, Arrived, WaitsUnlessChained
<1>2. CASE LoseSilently
  <2>1. UNCHANGED Newest
    BY <1>2, QueueKept DEF LoseSilently, Arrived
  <2> QED
    BY <1>2, <1>0, <2>1 DEF LoseSilently, Arrived, WaitsUnlessChained
<1>3. CASE FirstPacket
  <2>1. UNCHANGED Newest
    BY <1>3, QueueKept DEF FirstPacket
  <2>2. /\ rpc = "idle" /\ rpc' = "payload" /\ frame'.type \in {"IDR", "INV", "P"}
        /\ frame' = Head(wire) /\ frame'.num >= nextFrameNumber
    BY <1>3, HeadOfWire DEF FirstPacket, Arrived, FrameType
  <2>3. waitingForIdrFrame => waitingForIdrFrame' \/ frame'.type = "IDR"
    BY <1>3 DEF FirstPacket, NeedIdr
  <2>4. frame'.type = "P" /\ ~waitingForIdrFrame' /\ ~waitingForRefInvalFrame' =>
          ~waitingForIdrFrame /\ ~waitingForRefInvalFrame /\ frame'.num = nextFrameNumber
    <3>1. frame'.num \in Nat /\ nextFrameNumber \in Nat
      BY <1>3, <2>2, HeadOfWire, Numbers, SMTT(30) DEF FirstPacket, Arrived
    <3>2. ASSUME frame'.type = "P", ~waitingForIdrFrame', ~waitingForRefInvalFrame'
          PROVE  ~waitingForIdrFrame /\ ~waitingForRefInvalFrame /\ ~Gap(Head(wire))
      BY <1>3, <2>2, <3>2 DEF FirstPacket, NeedIdr
    <3> QED
      BY <2>2, <3>1, <3>2 DEF Gap
  <2> QED
    BY <1>0, <2>1, <2>2, <2>3, <2>4 DEF WaitsUnlessChained
<1>4. CASE CorruptFirstPacket
  <2>1. UNCHANGED Newest
    BY <1>4, QueueKept DEF CorruptFirstPacket, Corrupt, Arrived
  <2>2. /\ waitingForIdrFrame => waitingForIdrFrame'
        /\ waitingForIdrFrame' \/ waitingForRefInvalFrame'
    BY <1>4 DEF CorruptFirstPacket, Corrupt, Arrived, DropFrameState, NeedIdr
  <2>3. Calm' /\ Newest = 0 => waitingForIdrFrame
    BY <1>4, <1>0 DEF CorruptFirstPacket, Corrupt, Arrived, WaitsUnlessChained
  <2> QED
    BY <1>0, <2>1, <2>2, <2>3 DEF WaitsUnlessChained
<1>5. CASE CorruptLaterPacket
  <2>1. UNCHANGED Newest
    BY <1>5, QueueKept DEF CorruptLaterPacket, Corrupt
  <2>2. /\ waitingForIdrFrame => waitingForIdrFrame'
        /\ waitingForIdrFrame' \/ waitingForRefInvalFrame'
    BY <1>5
    DEF CorruptLaterPacket, Corrupt, DropFrameState, NeedIdr, Calm, IInv,
        Counts, Faults
  <2>3. Calm' /\ Newest = 0 => waitingForIdrFrame
    BY <1>5, <1>0, TypeParts
    DEF CorruptLaterPacket, Corrupt, WaitsUnlessChained, Calm, IInv, Counts,
        Faults
  <2> QED
    BY <1>0, <2>1, <2>2, <2>3 DEF WaitsUnlessChained
<1>6. CASE CorruptReport
  <2>1. UNCHANGED Newest
    BY <1>6, QueueKept DEF CorruptReport
  <2>2. /\ waitingForIdrFrame => waitingForIdrFrame'
        /\ waitingForIdrFrame' \/ waitingForRefInvalFrame'
    BY <1>6 DEF CorruptReport, ChainInv, Turns
  <2>3. Calm' /\ Newest = 0 => waitingForIdrFrame
    BY <1>6, <1>0 DEF CorruptReport, WaitsUnlessChained, ChainInv, Turns
  <2> QED
    BY <1>0, <2>1, <2>2, <2>3 DEF WaitsUnlessChained
<1>7. CASE LostReport
  <2>1. UNCHANGED Newest
    BY <1>7, QueueKept DEF LostReport
  <2>2. /\ waitingForIdrFrame => waitingForIdrFrame'
        /\ waitingForIdrFrame' \/ waitingForRefInvalFrame'
    BY <1>7 DEF LostReport, IInv, LossKnown
  <2>3. Calm' /\ Newest = 0 => waitingForIdrFrame
    BY <1>7, <1>0 DEF LostReport, WaitsUnlessChained, IInv, LossKnown
  <2> QED
    BY <1>0, <2>1, <2>2, <2>3 DEF WaitsUnlessChained
<1>8. CASE DropWhileWaiting
  <2>1. UNCHANGED Newest
    BY <1>8, QueueKept DEF DropWhileWaiting, EndOfFrame
  <2>2. /\ waitingForIdrFrame => waitingForIdrFrame'
        /\ waitingForIdrFrame' \/ waitingForRefInvalFrame'
    BY <1>8
    DEF DropWhileWaiting, EndOfFrame, DropFrameState, NeedIdr, ChainInv, Turns
  <2>3. Calm' /\ Newest = 0 => waitingForIdrFrame
    BY <1>8, <1>0
    DEF DropWhileWaiting, EndOfFrame, WaitsUnlessChained, ChainInv, Turns
  <2> QED
    BY <1>0, <2>1, <2>2, <2>3 DEF WaitsUnlessChained
<1>9. CASE PendingDrop
  <2>1. UNCHANGED Newest
    BY <1>9, QueueKept DEF PendingDrop
  <2>2. /\ waitingForIdrFrame => waitingForIdrFrame'
        /\ waitingForIdrFrame' \/ waitingForRefInvalFrame'
    BY <1>9 DEF PendingDrop, DropFrameState, NeedIdr
  <2>3. Calm' /\ Newest = 0 => waitingForIdrFrame
    BY <1>9, <1>0 DEF PendingDrop, WaitsUnlessChained
  <2> QED
    BY <1>0, <2>1, <2>2, <2>3 DEF WaitsUnlessChained
<1>10. CASE NotifyFrameLost
  <2>1. UNCHANGED Newest
    BY <1>10, QueueKept DEF NotifyFrameLost
  <2>2. /\ waitingForIdrFrame => waitingForIdrFrame'
        /\ waitingForIdrFrame' \/ waitingForRefInvalFrame'
    BY <1>10 DEF NotifyFrameLost, DropFrameState, NeedIdr
  <2>3. Calm' /\ Newest = 0 => waitingForIdrFrame
    BY <1>10, <1>0 DEF NotifyFrameLost, WaitsUnlessChained
  <2> QED
    BY <1>0, <2>1, <2>2, <2>3 DEF WaitsUnlessChained
<1>11. CASE NothingAwaited
  <2>1. UNCHANGED Newest
    BY <1>11, QueueKept DEF NothingAwaited, EndOfFrame
  <2> QED
    BY <1>11, <1>0, <2>1 DEF NothingAwaited, EndOfFrame, WaitsUnlessChained
<1>12. CASE OfferOverflow
  <2>1. UNCHANGED Newest
    BY <1>12, QueueKept DEF OfferOverflow, DropFrameState, NeedIdr, OverflowNeedsIdr
  <2> QED
    BY <1>12, <1>0, <2>1
    DEF OfferOverflow, DropFrameState, NeedIdr, OverflowNeedsIdr,
        WaitsUnlessChained
<1>13. CASE NoPendingDrop
  <2>1. UNCHANGED Newest
    BY <1>13, QueueKept DEF NoPendingDrop
  <2> QED
    BY <1>13, <1>0, <2>1 DEF NoPendingDrop, WaitsUnlessChained
<1>14. CASE OfferUnit
  <2>1. UNCHANGED <<waitingForIdrFrame, waitingForRefInvalFrame, nextFrameNumber>>
    BY <1>14 DEF OfferUnit, FrameAccepted
  <2>2. Calm' => Newest' = frame.num /\ frame.num # 0
    BY <1>14, <1>0, Offered, Enqueued DEF OfferUnit, ChainInv
  <2>3. rpc' = "idle" /\ nextFrameNumber = frame.num + 1
    BY <1>14 DEF OfferUnit, FrameAccepted, IInv, AtFrame
  <2> QED
    BY <2>1, <2>2, <2>3 DEF WaitsUnlessChained
<1>15. CASE OverflowFlush
  <2>1. waitingForIdrFrame' /\ rpc' = "idle"
    BY <1>15 DEF OverflowFlush, ChainInv, Turns
  <2> QED
    BY <2>1 DEF WaitsUnlessChained
<1>16. CASE SubmitDirect
  <2>1. Newest' = frame.num /\ frame.num # 0 /\ rpc' = "submitted"
    BY <1>16, Flushed DEF SubmitDirect, ChainInv, Turns
  <2> QED
    BY <2>1 DEF WaitsUnlessChained
<1>17. CASE DirectReturns
  <2>1. Newest = lastSubmitted /\ UNCHANGED Newest
    BY <1>17, QueueKept DEF DirectReturns, ChainInv, Turns, Newest
  <2>2. /\ Calm => waitingForIdrFrame \/ lastSubmitted = frame.num
        /\ frame.num # 0 /\ nextFrameNumber = frame.num + 1
    BY <1>17 DEF DirectReturns, ChainInv, Turns, IInv, AtFrame
  <2>3. UNCHANGED <<waitingForIdrFrame, nextFrameNumber, frame>> /\ rpc' = "idle"
    BY <1>17 DEF DirectReturns, FrameAccepted
  <2> QED
    BY <1>0, <2>1, <2>2, <2>3 DEF WaitsUnlessChained
<1>18. CASE Dequeue
  <2>1. UNCHANGED Newest
    BY <1>18, <1>0, Dequeued DEF Dequeue, ChainInv
  <2> QED
    BY <1>18, <1>0, <2>1 DEF Dequeue, DecoderKeeps, WaitsUnlessChained
<1>19. CASE CompleteNeedIdr
  BY <1>19 DEF CompleteNeedIdr, WaitsUnlessChained
<1>20. CASE RefreshFlush
  <2>1. Calm' => decodeUnitQueue = <<>>
    BY <1>20, <1>0 DEF RefreshFlush, ChainInv, Turns, Calm
  <2>2. Calm' => UNCHANGED Newest
    BY <1>20, <2>1 DEF RefreshFlush, Newest
  <2> QED
    BY <1>20, <1>0, <2>2 DEF RefreshFlush, DecoderKeeps, WaitsUnlessChained
<1>21. CASE CompleteOk
  <2>1. UNCHANGED Newest
    BY <1>21, QueueKept DEF CompleteOk, DecoderKeeps
  <2> QED
    BY <1>21, <1>0, <2>1 DEF CompleteOk, DecoderKeeps, WaitsUnlessChained
<1>22. CASE RefreshPending
  <2>1. UNCHANGED Newest
    BY <1>22, QueueKept DEF RefreshPending, DecoderKeeps
  <2> QED
    BY <1>22, <1>0, <2>1 DEF RefreshPending, DecoderKeeps, WaitsUnlessChained
<1>23. CASE RefreshRequest
  <2>1. UNCHANGED Newest
    BY <1>23, QueueKept DEF RefreshRequest
  <2> QED
    BY <1>23, <1>0, <2>1 DEF RefreshRequest, WaitsUnlessChained
<1>24. CASE Encode
  <2>1. UNCHANGED Newest
    BY <1>24, QueueKept DEF Encode
  <2> QED
    BY <1>24, <1>0, <2>1 DEF Encode, WaitsUnlessChained
<1>25. CASE HostHandle
  <2>1. UNCHANGED Newest
    BY <1>25, QueueKept DEF HostHandle
  <2> QED
    BY <1>25, <1>0, <2>1 DEF HostHandle, WaitsUnlessChained
<1>26. ASSUME IdrWake \/ IdrClear \/ IdrSend \/ RfiTake \/ RfiPoll \/ RfiSend,
             UNCHANGED <<recvVars, sharedVars, decoderVars, hostVars, netVars>>
      PROVE  WaitsUnlessChained'
  BY <1>26, <1>0, QueueKept DEF WaitsUnlessChained
<1>27. CASE UNCHANGED vars
  BY <1>27, <1>0, QueueKept DEF vars, WaitsUnlessChained
<1> QED
  BY <1>1, <1>2, <1>3, <1>4, <1>5, <1>6, <1>7, <1>8, <1>9, <1>10, <1>11, <1>12,
     <1>13, <1>14, <1>15, <1>16, <1>17, <1>18, <1>19, <1>20, <1>21, <1>22,
     <1>23, <1>24, <1>25, <1>26, <1>27
  DEF Next, Receive, Decoder, Control, ControlNext

LEMMA ChainInvariant == Spec => []ChainInv
<1>1. IInv /\ ChainInv /\ [Next]_vars => ChainInv'
  BY TurnsStep, QueueStep, WaitsStep DEF ChainInv
<1> QED
  BY <1>1, InitChain, Invariant, PTL DEF Spec

(* What is handed to the decoder.                                          *)
LEMMA SubmittedFollows ==
  ASSUME IInv, ChainInv, [Next]_vars, Submits, Calm
  PROVE  Follows(lastSubmitted, unit')
<1>1. SubmitDirect \/ Dequeue
  <2>1. StaleFrame \/ FirstPacket \/ CorruptFirstPacket \/ CorruptLaterPacket \/
        CorruptReport => dpc' # "busy" \/ dpc # "idle"
    BY DEF StaleFrame, FirstPacket, CorruptFirstPacket, CorruptLaterPacket,
       CorruptReport, Corrupt, decoderVars
  <2>2. DropWhileWaiting \/ NothingAwaited \/ PendingDrop \/ NoPendingDrop \/
        OfferUnit => dpc' # "busy" \/ dpc # "idle"
    BY DEF DropWhileWaiting, NothingAwaited, PendingDrop, NoPendingDrop, OfferUnit,
       decoderVars
  <2>3. OfferOverflow \/ OverflowFlush \/ DirectReturns \/ NotifyFrameLost \/
        LostReport \/ LoseSilently => dpc' # "busy" \/ dpc # "idle"
    BY DEF OfferOverflow, OverflowFlush, DirectReturns, NotifyFrameLost, LostReport,
       LoseSilently, decoderVars
  <2>4. CompleteOk \/ CompleteNeedIdr \/ RefreshFlush \/ RefreshPending \/
        RefreshRequest => dpc' # "busy" \/ dpc # "idle"
    BY DEF CompleteOk, CompleteNeedIdr, RefreshFlush, RefreshPending,
       RefreshRequest, DecoderKeeps, decoderVars
  <2>5. Control \/ Encode \/ HostHandle => dpc' # "busy" \/ dpc # "idle"
    BY DEF Control, Encode, HostHandle, decoderVars
  <2> QED
    BY <2>1, <2>2, <2>3, <2>4, <2>5 DEF Submits, Next, Receive, Decoder, vars, decoderVars
<1>2. CASE SubmitDirect
  <2>1. Newest = lastSubmitted
    BY <1>2 DEF SubmitDirect, ChainInv, Turns, Newest
  <2> QED
    BY <1>2, <2>1, Offered DEF SubmitDirect
<1>3. CASE Dequeue
  <2>1. Calm' => Calm
    BY CalmStep
  <2> QED
    BY <1>3, <2>1, Dequeued DEF Dequeue, ChainInv
<1> QED
  BY <1>1, <1>2, <1>3

(* With direct submission the decoder gets a frame other than an IDR frame *)
(* only when it has the picture to go on from, whatever was lost, reported *)
(* lost or refreshed, until an IDR frame breaks off.                       *)
THEOREM DirectDecodable ==
  ASSUME DirectSubmit
  PROVE  Spec => DecoderGetsDecodable
<1>1. IInv /\ ChainInv /\ [Next]_vars =>
        [Submits /\ ~faults.brokenIdr => Decodable(unit')]_vars
  BY SubmittedFollows DEF Calm, Follows, Decodable
<1> QED
  BY <1>1, Invariant, ChainInvariant, PTL DEF Spec, DecoderGetsDecodable

(* So it is with the decode unit queue, which may overflow, until the      *)
(* first refresh.                                                          *)
THEOREM QueuedDecodable == Spec => DecodableUntilRefresh
<1>1. IInv /\ ChainInv /\ [Next]_vars =>
        [Submits /\ faults.refresh = 0 /\ ~faults.brokenIdr => Decodable(unit')]_vars
  BY SubmittedFollows DEF Calm, Follows, Decodable
<1> QED
  BY <1>1, Invariant, ChainInvariant, PTL DEF Spec, DecodableUntilRefresh

-----------------------------------------------------------------------------
(* With direct submission and a host that invalidates reference frames,    *)
(* whoever waits for a frame that restarts the stream has it, or the       *)
(* request for it, under way.                                              *)


(* The frame the receive thread expects when it is done with the one it is *)
(* at, and whether the next first packet will reveal a loss.               *)
Expected == IF rpc = "payload" THEN frame.num + 1 ELSE nextFrameNumber
Ahead == IF wire = <<>> THEN nextToEncode ELSE Head(wire).num
LossBeyond == Expected < Ahead

(* A frame of a type that is on the wire and will not be found stale.      *)
Arrives(type) == \E i \in 1..Len(wire) : wire[i].type = type /\ wire[i].num >= Expected

IdrComing == IdrRequestUnderWay \/ idrPending \/ Arrives("IDR")
RfiComing == IdrComing \/ RfiRequestUnderWay \/ rfiPending \/ Arrives("INV")

(* What is awaited at each place of the receive thread.  The decoder works *)
(* while the receive thread has submitted a frame to it, and only a        *)
(* decoder that had an IDR frame is worth an invalidation.                 *)
Awaited ==
  /\ rpc # "submitted" => dpc = "idle"
  /\ rpc \in {"pending", "offer"} => ~waitingForIdrFrame
  /\ rpc \in {"pending", "offer", "submitted"} => ~waitingForRefInvalFrame
  /\ rpc = "payload" /\ frame.type = "IDR" =>
       ~waitingForIdrFrame /\ ~waitingForRefInvalFrame
  /\ rpc = "submitted" /\ dpc = "busy" => unit = frame
  /\ dpc \in {"flush", "pending", "request"} => waitingForIdrFrame
  /\ dropStatePending =>
       waitingForIdrFrame \/ (rpc \in {"payload", "pending"} /\ frame.type = "IDR")
  /\ waitingForRefInvalFrame => idrFrameProcessed
  /\ \/ waitingForIdrFrame \/ idrFrameProcessed
     \/ frame.type = "IDR" /\ (rpc \in {"payload", "pending", "offer"} \/ dpc = "busy")

(* Who waits for an IDR frame has it coming, or will ask.                  *)
IdrAsked ==
  waitingForIdrFrame /\ dpc \in {"idle", "busy"} /\ ~faults.overtaken =>
    IdrComing \/ LossBeyond \/ waitingForNextSuccessfulFrame \/ rpc = "corrupt"

(* So has who waits for the answer to an invalidation.                     *)
RefAsked ==
  waitingForRefInvalFrame /\ ~waitingForIdrFrame =>
    RfiComing \/ LossBeyond \/ rpc \in {"corrupt", "lost", "payload"}

(* The messages on their way to the host.                                  *)
Messages == [type : {"IDR", "RFI"}, range : RangeOf]
Sent == toHost \in Seq(Messages)

AnswerInv == Sent /\ Awaited /\ IdrAsked /\ RefAsked

-----------------------------------------------------------------------------
(* Requests on their way.                                                  *)

LEMMA InitAnswer == Init => AnswerInv
BY DEF Init, ControlInit, NoFrame, RfiIdle, AnswerInv, Sent, Awaited, IdrAsked, RefAsked,
       IdrComing

LEMMA HasType ==
  ASSUME NEW s \in Seq(Messages), NEW t
  PROVE  /\ \A m \in Messages :
              /\ Append(s, m) \in Seq(Messages)
              /\ (\E i \in DOMAIN Append(s, m) : Append(s, m)[i].type = t)
                   <=> (\E i \in DOMAIN s : s[i].type = t) \/ m.type = t
         /\ s # <<>> =>
              /\ Head(s) \in Messages /\ Tail(s) \in Seq(Messages)
              /\ (\E i \in DOMAIN s : s[i].type = t)
                   => (\E i \in DOMAIN Tail(s) : Tail(s)[i].type = t) \/ Head(s).type = t
<1>1. ASSUME NEW m \in Messages
      PROVE  /\ Append(s, m) \in Seq(Messages)
             /\ (\E i \in DOMAIN Append(s, m) : Append(s, m)[i].type = t)
                  <=> (\E i \in DOMAIN s : s[i].type = t) \/ m.type = t
  <2>1. /\ DOMAIN s = 1..Len(s) /\ DOMAIN Append(s, m) = 1..(Len(s) + 1) /\ Len(s) \in Nat
        /\ \A i \in 1..Len(s) : Append(s, m)[i] = s[i]
        /\ Append(s, m)[Len(s) + 1] = m /\ Append(s, m) \in Seq(Messages)
    BY AppendFacts
  <2>2. 1..(Len(s) + 1) = 1..Len(s) \cup {Len(s) + 1}
    BY <2>1
  <2> QED
    BY <2>1, <2>2
<1>2. ASSUME s # <<>>
      PROVE  /\ Head(s) \in Messages /\ Tail(s) \in Seq(Messages)
             /\ (\E i \in DOMAIN s : s[i].type = t)
                  => (\E i \in DOMAIN Tail(s) : Tail(s)[i].type = t) \/ Head(s).type = t
  <2>1. /\ Head(s) = s[1] /\ Head(s) \in Messages /\ Tail(s) \in Seq(Messages)
        /\ DOMAIN s = 1..Len(s) /\ DOMAIN Tail(s) = 1..Len(Tail(s))
        /\ Len(Tail(s)) = Len(s) - 1 /\ Len(s) \in Nat
        /\ \A i \in 1..Len(Tail(s)) : Tail(s)[i] = s[i + 1]
    BY <1>2, TailFacts
  <2>2. \A i \in 2..Len(s) : i - 1 \in 1..Len(Tail(s)) /\ Tail(s)[i - 1] = s[i]
    BY <2>1
  <2>3. \A i \in 1..Len(s) : i = 1 \/ i \in 2..Len(s)
    BY <2>1
  <2> QED
    BY <2>1, <2>2, <2>3
<1> QED
  BY <1>1, <1>2

(* A request that is made, or not.                                         *)
LEMMA Asks ==
  ASSUME Types, ControlOthers
  PROVE  /\ NoRequest => UNCHANGED <<IdrRequestUnderWay, RfiRequestUnderWay>>
         /\ LiRequestIdrFrame => IdrRequestUnderWay'
         /\ \A s, e \in Nat : ConnectionDetectedFrameLoss(s, e) =>
              /\ IdrRequestUnderWay => IdrRequestUnderWay'
              /\ IdrRequestUnderWay' \/ RfiRequestUnderWay'
<1>1. NoRequest => UNCHANGED <<IdrRequestUnderWay, RfiRequestUnderWay>>
  BY DEF ControlOthers, NoRequest, IdrRequestUnderWay, RfiRequestUnderWay
<1>2. LiRequestIdrFrame => IdrRequestUnderWay'
  BY DEF LiRequestIdrFrame, IdrRequestUnderWay
<1>3. ASSUME NEW s \in Nat, NEW e \in Nat, ConnectionDetectedFrameLoss(s, e)
      PROVE  /\ IdrRequestUnderWay => IdrRequestUnderWay'
             /\ IdrRequestUnderWay' \/ RfiRequestUnderWay'
  <2>1. CASE LiRequestIdrFrame
    BY <2>1, <1>2
  <2>2. CASE /\ invalidReferenceFrameTuples' =
                  Append(invalidReferenceFrameTuples, Range(s, e))
             /\ UNCHANGED idrFrameRequired
    <3>1. Range(s, e) \in RangeOf
      BY DEF Range, RangeOf
    <3>2. Append(invalidReferenceFrameTuples, Range(s, e)) # <<>>
      BY <3>1, AppendFacts DEF Types
    <3> QED
      BY <2>2, <3>2 DEF ControlOthers, IdrRequestUnderWay, RfiRequestUnderWay
  <2> QED
    BY <1>3, <2>1, <2>2 DEF ConnectionDetectedFrameLoss
<1> QED
  BY <1>1, <1>2, <1>3

(* A request goes from the threads to the host, and is not lost.           *)
LEMMA RequestsTravel ==
  ASSUME Types, Sent, ControlNext
  PROVE  /\ Sent'
         /\ IdrRequestUnderWay => IdrRequestUnderWay'
         /\ RfiRequestUnderWay => IdrRequestUnderWay' \/ RfiRequestUnderWay'
<1>1. NoRange \in RangeOf /\ rfiThread.range \in RangeOf
  BY DEF NoRange, RangeOf, Types
<1>2. CASE IdrWake
  BY <1>2 DEF IdrWake, Sent, IdrRequestUnderWay, RfiRequestUnderWay
<1>3. CASE IdrClear
  BY <1>3 DEF IdrClear, Sent, IdrRequestUnderWay, RfiRequestUnderWay
<1>4. CASE IdrSend
  <2>1. IdrRequest \in Messages /\ IdrRequest.type = "IDR"
    BY <1>1 DEF IdrRequest, Messages
  <2> QED
    BY <1>4, <2>1, HasType DEF IdrSend, Sent, IdrRequestUnderWay, RfiRequestUnderWay
<1>5. CASE RfiTake
  BY <1>5 DEF RfiTake, Sent, IdrRequestUnderWay, RfiRequestUnderWay
<1>6. CASE RfiPoll
  BY <1>6 DEF RfiPoll, Sent, IdrRequestUnderWay, RfiRequestUnderWay, Types
<1>7. CASE RfiSend
  <2>1. /\ RfiRequest(rfiThread.range) \in Messages
        /\ RfiRequest(rfiThread.range).type = "RFI"
    BY <1>1 DEF RfiRequest, Messages
  <2> QED
    BY <1>7, <2>1, HasType DEF RfiSend, Sent, IdrRequestUnderWay, RfiRequestUnderWay
<1> QED
  BY <1>2, <1>3, <1>4, <1>5, <1>6, <1>7 DEF ControlNext

(* The host takes note of what it gets.                                    *)
LEMMA HostTakes ==
  ASSUME Types, Sent, HostHandle
  PROVE  /\ Sent'
         /\ IdrRequestUnderWay => IdrRequestUnderWay' \/ idrPending'
         /\ RfiRequestUnderWay => RfiRequestUnderWay' \/ idrPending' \/ rfiPending'
         /\ idrPending => idrPending'
         /\ rfiPending => rfiPending'
<1>1. /\ toHost # <<>> /\ toHost' = Tail(toHost)
      /\ Head(toHost).type = "IDR" => idrPending'
      /\ idrPending' \/ rfiPending'
      /\ idrPending => idrPending'
      /\ rfiPending => rfiPending'
      /\ UNCHANGED <<idrFrameRequired, invalidReferenceFrameTuples, idrThread, rfiThread>>
  BY DEF HostHandle
<1>2. /\ Sent'
      /\ (\E i \in DOMAIN toHost : toHost[i].type = "IDR") =>
           (\E i \in DOMAIN toHost' : toHost'[i].type = "IDR") \/ Head(toHost).type = "IDR"
      /\ (\E i \in DOMAIN toHost : toHost[i].type = "RFI") =>
           (\E i \in DOMAIN toHost' : toHost'[i].type = "RFI") \/ Head(toHost).type = "RFI"
  <2>1. toHost \in Seq(Messages)
    BY DEF Sent
  <2>2. ASSUME NEW t
        PROVE  /\ Tail(toHost) \in Seq(Messages)
               /\ (\E i \in DOMAIN toHost : toHost[i].type = t) =>
                    \/ \E i \in DOMAIN Tail(toHost) : Tail(toHost)[i].type = t
                    \/ Head(toHost).type = t
    BY <1>1, <2>1, HasType
  <2> QED
    BY <1>1, <2>2 DEF Sent
<1> QED
  BY <1>1, <1>2 DEF IdrRequestUnderWay, RfiRequestUnderWay

-----------------------------------------------------------------------------
(* Frames on the wire.                                                     *)

LEMMA ExpectedType == IInv => Expected \in Nat /\ Ahead \in Nat /\ Expected <= nextToEncode
<1> SUFFICES ASSUME IInv PROVE Expected \in Nat /\ Ahead \in Nat /\ Expected <= nextToEncode
  OBVIOUS
<1>1. frame.num < nextToEncode /\ nextFrameNumber <= nextToEncode
  BY DEF IInv, WireAhead
<1>2. wire # <<>> => Head(wire).num \in Nat
  BY HeadOfWire
<1> QED
  BY <1>1, <1>2, Numbers DEF Expected, Ahead

LEMMA HeadGone ==
  ASSUME IInv, wire # <<>>, wire' = Tail(wire), UNCHANGED nextToEncode
  PROVE  Ahead = Head(wire).num /\ Ahead' \in Nat /\ Ahead' > Ahead
<1>1. Head(wire).num \in Nat /\ Head(wire).num < nextToEncode /\ nextToEncode \in Nat
  BY HeadOfWire, Numbers DEF IInv, WireAhead
<1>2. CASE wire' = <<>>
  BY <1>1, <1>2 DEF Ahead
<1>3. CASE wire' # <<>>
  <2>1. /\ Head(wire') = wire'[1] /\ 1 \in 1..Len(wire')
    BY <1>3, TailFacts DEF IInv, Types, TypeOK
  <2>2. wire'[1].num \in Nat /\ wire'[1].num > Head(wire).num
    BY <2>1, BehindHead
  <2> QED
    BY <1>1, <1>3, <2>1, <2>2 DEF Ahead
<1> QED
  BY <1>2, <1>3

LEMMA ArrivesLater ==
  ASSUME IInv, wire # <<>>, wire' = Tail(wire), Expected' \in Nat,
         Expected' <= Expected \/ Expected' <= Head(wire).num + 1, NEW t, Arrives(t)
  PROVE  Arrives(t)' \/ (Head(wire).type = t /\ Head(wire).num >= Expected)
<1>1. PICK i \in 1..Len(wire) : wire[i].type = t /\ wire[i].num >= Expected
  BY DEF Arrives
<1>2. CASE i = 1
  BY <1>1, <1>2, HeadOfWire
<1>3. CASE i # 1
  <2>1. i - 1 \in 1..Len(wire') /\ wire'[i - 1] = wire[i]
    BY <1>3, TailFacts DEF IInv, Types, TypeOK
  <2>2. wire'[i - 1].num \in Nat /\ wire'[i - 1].num > Head(wire).num
    BY <2>1, BehindHead
  <2>3. wire'[i - 1].num >= Expected'
    BY <1>1, <2>1, <2>2, ExpectedType, HeadOfWire
  <2> QED
    BY <1>1, <2>1, <2>3 DEF Arrives
<1> QED
  BY <1>2, <1>3

LEMMA ArrivesStill ==
  ASSUME IInv, UNCHANGED wire, Expected' \in Nat, Expected' <= Expected, NEW t, Arrives(t)
  PROVE  Arrives(t)'
<1>1. PICK i \in 1..Len(wire) : wire[i].type = t /\ wire[i].num >= Expected
  BY DEF Arrives
<1>2. wire[i].num >= Expected'
  BY <1>1, ExpectedType, Numbers
<1> QED
  BY <1>1, <1>2 DEF Arrives

(* The host sends a frame.                                                 *)
LEMMA Encodes ==
  ASSUME IInv, Encode
  PROVE  /\ UNCHANGED <<Expected, Ahead>>
         /\ \A t : Arrives(t) => Arrives(t)'
         /\ idrPending => Arrives("IDR")'
         /\ rfiPending => Arrives("IDR")' \/ Arrives("INV")'
<1>1. PICK f \in Frame :
        /\ wire' = Append(wire, f) /\ f.num = nextToEncode
        /\ idrPending => f.type = "IDR"
        /\ rfiPending => f.type \in {"IDR", "INV"}
  <2> DEFINE f == [num |-> nextToEncode,
                   type |-> IF idrPending THEN "IDR" ELSE IF rfiPending THEN "INV" ELSE "P"]
  <2>1. f \in Frame
    BY Numbers DEF Encode, Frame, FrameType
  <2>2. wire' = Append(wire, f)
    BY DEF Encode
  <2> QED
    BY <2>1, <2>2
<1>2. /\ Len(wire') = Len(wire) + 1 /\ Len(wire) \in Nat
      /\ \A i \in 1..Len(wire) : wire'[i] = wire[i]
      /\ wire'[Len(wire) + 1] = f
  BY <1>1, AppendFacts DEF IInv, Types, TypeOK
<1>3. UNCHANGED Expected
  BY DEF Encode, recvVars, Expected
<1>4. UNCHANGED Ahead
  <2>1. CASE wire = <<>>
    BY <1>1, <2>1 DEF Ahead
  <2>2. CASE wire # <<>>
    <3>1. Head(wire') = Head(wire) /\ wire' # <<>>
      BY <1>1, <2>2, AppendFacts DEF IInv, Types, TypeOK
    <3> QED
      BY <2>2, <3>1 DEF Ahead
  <2> QED
    BY <2>1, <2>2
<1>5. ASSUME NEW t, Arrives(t) PROVE Arrives(t)'
  <2>1. PICK i \in 1..Len(wire) : wire[i].type = t /\ wire[i].num >= Expected
    BY <1>5 DEF Arrives
  <2>2. i \in 1..Len(wire') /\ wire'[i] = wire[i]
    BY <1>2
  <2> QED
    BY <1>3, <2>1, <2>2 DEF Arrives
<1>6. Arrives(f.type)'
  <2>1. f.num >= Expected'
    BY <1>1, <1>3, ExpectedType
  <2>2. Len(wire) + 1 \in 1..Len(wire')
    BY <1>2
  <2> QED
    BY <1>2, <2>1, <2>2 DEF Arrives
<1> QED
  BY <1>1, <1>3, <1>4, <1>5, <1>6

-----------------------------------------------------------------------------
(* AnswerInv is inductive: the places of the receive thread.               *)

LEMMA AwaitedStep ==
  ASSUME DirectSubmit, IInv, Awaited, [Next]_vars
  PROVE  Awaited'
<1> USE DEF recvVars, sharedVars, decoderVars, hostVars, netVars, controlVars,
        ControlOthers, NetworkOthers
<1>1. CASE StaleFrame \/ LoseSilently
  BY <1>1 DEF StaleFrame, LoseSilently, Arrived, Awaited
<1>2. CASE FirstPacket
  BY <1>2, HeadOfWire DEF FirstPacket, Arrived, NeedIdr, FrameType, Awaited
<1>3. CASE CorruptFirstPacket \/ CorruptLaterPacket
  <2>1. /\ rpc \in {"idle", "payload"} /\ rpc' = "corrupt"
        /\ DropFrameState(waitingForIdrFrame, waitingForRefInvalFrame)
        /\ UNCHANGED <<dpc, unit, idrFrameProcessed>>
    BY <1>3 DEF CorruptFirstPacket, CorruptLaterPacket, Arrived, Corrupt
  <2>2. ~dropStatePending' /\ dpc' = "idle"
    BY <2>1 DEF DropFrameState, Awaited
  <2>3. /\ waitingForRefInvalFrame' => idrFrameProcessed'
        /\ waitingForIdrFrame' \/ idrFrameProcessed'
    BY <2>1 DEF DropFrameState, NeedIdr, Awaited
  <2> QED
    BY <2>1, <2>2, <2>3 DEF Awaited
<1>4. CASE DropWhileWaiting
  BY <1>4 DEF DropWhileWaiting, EndOfFrame, DropFrameState, NeedIdr, Awaited
<1>5. CASE PendingDrop
  BY <1>5 DEF PendingDrop, DropFrameState, NeedIdr, Awaited
<1>6. CASE OfferUnit \/ OfferOverflow \/ Dequeue
  BY <1>6 DEF OfferUnit, OfferOverflow, Dequeue
<1>7. CASE NotifyFrameLost
  BY <1>7 DEF NotifyFrameLost, DropFrameState, NeedIdr, Awaited
<1>8. CASE CorruptReport \/ LostReport \/ OverflowFlush
  BY <1>8 DEF CorruptReport, LostReport, OverflowFlush, Awaited
<1>9. CASE NothingAwaited \/ NoPendingDrop
  BY <1>9 DEF NothingAwaited, EndOfFrame, NoPendingDrop, Awaited
<1>10. CASE SubmitDirect \/ DirectReturns
  BY <1>10 DEF SubmitDirect, DirectReturns, FrameAccepted, Awaited
<1>11. CASE CompleteOk
  <2>1. /\ dpc = "busy" /\ dpc' = "idle" /\ rpc = "submitted"
        /\ idrFrameProcessed' = (idrFrameProcessed \/ unit.type = "IDR")
        /\ UNCHANGED <<rpc, frame, waitingForIdrFrame, waitingForRefInvalFrame,
                       dropStatePending>>
    BY <1>11 DEF CompleteOk, DecoderKeeps, Awaited
  <2>2. /\ waitingForIdrFrame' \/ idrFrameProcessed'
        /\ ~waitingForRefInvalFrame' /\ dropStatePending' => waitingForIdrFrame'
    BY <2>1 DEF Awaited
  <2> QED
    BY <2>1, <2>2 DEF Awaited
<1>12. CASE CompleteNeedIdr
  BY <1>12 DEF CompleteNeedIdr, Awaited
<1>13. CASE RefreshFlush \/ RefreshPending \/ RefreshRequest
  BY <1>13 DEF RefreshFlush, RefreshPending, RefreshRequest, DecoderKeeps, Awaited
<1>14. CASE Control \/ Encode \/ HostHandle
  BY <1>14 DEF Control, Encode, HostHandle, Awaited
<1>15. CASE UNCHANGED vars
  BY <1>15 DEF vars, Awaited
<1> QED
  BY <1>1, <1>2, <1>3, <1>4, <1>5, <1>6, <1>7, <1>8, <1>9, <1>10, <1>11, <1>12, <1>13, <1>14,
     <1>15
  DEF Next, Receive, Decoder

(* AnswerInv is inductive: the messages.                                   *)
LEMMA SentStep ==
  ASSUME IInv, Sent, [Next]_vars
  PROVE  Sent'
<1> USE DEF IInv
<1>1. CASE Control
  BY <1>1, RequestsTravel DEF Control
<1>2. CASE HostHandle
  BY <1>2, HostTakes
<1>3. CASE UNCHANGED toHost
  BY <1>3 DEF Sent
<1>4. Receive \/ Decoder \/ Encode \/ UNCHANGED vars => UNCHANGED toHost
  BY DEF Receive, Decoder, vars, controlVars, ControlOthers, DecoderKeeps,
         StaleFrame, FirstPacket, CorruptFirstPacket, CorruptLaterPacket, Corrupt,
         CorruptReport, DropWhileWaiting, NothingAwaited, PendingDrop, NoPendingDrop,
         OfferUnit, OfferOverflow, OverflowFlush, SubmitDirect, DirectReturns,
         NotifyFrameLost, LostReport, LoseSilently, Dequeue, CompleteOk, CompleteNeedIdr,
         RefreshFlush, RefreshPending, RefreshRequest, Encode
<1> QED
  BY <1>1, <1>2, <1>3, <1>4 DEF Next

-----------------------------------------------------------------------------
(* AnswerInv is inductive: what is asked.                                  *)

LEMMA Requested == IdrRequestUnderWay' => IdrAsked' /\ RefAsked'
BY DEF IdrAsked, RefAsked, IdrComing, RfiComing

(* Nothing arrives, and no request is lost.                                *)
LEMMA ComingKept ==
  ASSUME IInv, UNCHANGED <<wire, idrPending, rfiPending, nextToEncode>>,
         UNCHANGED Expected,
         IdrRequestUnderWay => IdrRequestUnderWay',
         RfiRequestUnderWay => IdrRequestUnderWay' \/ RfiRequestUnderWay'
  PROVE  /\ IdrComing => IdrComing'
         /\ RfiComing => RfiComing'
         /\ LossBeyond' = LossBeyond
<1>1. Arrives("IDR") => Arrives("IDR")'
  BY ArrivesStill, ExpectedType
<1>2. Arrives("INV") => Arrives("INV")'
  BY ArrivesStill, ExpectedType
<1>3. LossBeyond' = LossBeyond
  BY DEF LossBeyond, Ahead
<1> QED
  BY <1>1, <1>2, <1>3 DEF IdrComing, RfiComing

(* The head of the wire goes, and no request is made.                      *)
LEMMA ComingPast ==
  ASSUME IInv, wire # <<>>, wire' = Tail(wire), UNCHANGED <<idrPending, rfiPending, nextToEncode>>,
         UNCHANGED <<IdrRequestUnderWay, RfiRequestUnderWay>>,
         Expected' \in Nat, Expected' <= Expected \/ Expected' <= Head(wire).num + 1
  PROVE  /\ IdrComing => IdrComing' \/ (Head(wire).type = "IDR" /\ Head(wire).num >= Expected)
         /\ RfiComing => \/ RfiComing'
                         \/ Head(wire).type \in {"IDR", "INV"} /\ Head(wire).num >= Expected
<1>1. Arrives("IDR") =>
        Arrives("IDR")' \/ (Head(wire).type = "IDR" /\ Head(wire).num >= Expected)
  BY ArrivesLater
<1>2. Arrives("INV") =>
        Arrives("INV")' \/ (Head(wire).type = "INV" /\ Head(wire).num >= Expected)
  BY ArrivesLater
<1> QED
  BY <1>1, <1>2 DEF IdrComing, RfiComing

(* A frame that is lost unseen is missed at the next one.                  *)
LEMMA LossSeen ==
  ASSUME IInv, wire # <<>>, wire' = Tail(wire), UNCHANGED nextToEncode, UNCHANGED Expected
  PROVE  LossBeyond \/ Head(wire).num >= Expected => LossBeyond'
<1>1. Ahead = Head(wire).num /\ Ahead' \in Nat /\ Ahead' > Ahead
  BY HeadGone
<1> QED
  BY <1>1, ExpectedType DEF LossBeyond

(* What a frame that the receive thread takes off the wire is answered by. *)
LEMMA AskedPast ==
  ASSUME IInv, Awaited, IdrAsked, RefAsked, StaleFrame \/ LoseSilently
  PROVE  IdrAsked' /\ RefAsked'
<1>1. /\ rpc = "idle" /\ wire # <<>> /\ wire' = Tail(wire)
      /\ UNCHANGED <<rpc, frame, nextFrameNumber, waitingForIdrFrame, waitingForRefInvalFrame,
                     waitingForNextSuccessfulFrame, dpc, nextToEncode, idrPending, rfiPending>>
      /\ NoRequest /\ ControlOthers
  BY DEF StaleFrame, LoseSilently, Arrived, recvVars, sharedVars, decoderVars, hostVars,
         controlVars, NoRequest, ControlOthers
<1>2. UNCHANGED faults.overtaken
  BY DEF StaleFrame, LoseSilently, IInv, Types, TypeOK, Faults
<1>3. UNCHANGED <<IdrRequestUnderWay, RfiRequestUnderWay>>
  BY <1>1, Asks DEF IInv
<1>4. UNCHANGED Expected /\ Expected = nextFrameNumber
  BY <1>1 DEF Expected
<1>5. /\ LossBeyond => LossBeyond'
      /\ Head(wire).num >= Expected => LossBeyond'
  BY <1>1, <1>4, LossSeen
<1>6. Expected' \in Nat /\ Expected' <= Expected
  BY <1>4, ExpectedType
<1>7. /\ IdrComing => IdrComing' \/ LossBeyond'
      /\ RfiComing => RfiComing' \/ LossBeyond'
  BY <1>1, <1>3, <1>5, <1>6, ComingPast
<1> QED
  BY <1>1, <1>2, <1>5, <1>7 DEF IdrAsked, RefAsked

LEMMA AskedFirst ==
  ASSUME IInv, Awaited, IdrAsked, FirstPacket
  PROVE  IdrAsked' /\ RefAsked'
<1> DEFINE f == Head(wire)
           gap == Gap(f)
           idrWait == IF gap THEN NeedIdr(waitingForIdrFrame) \/ LimitReached
                      ELSE waitingForIdrFrame
           refWait == waitingForRefInvalFrame \/ (gap /\ ~NeedIdr(waitingForIdrFrame))
<1>1. /\ rpc = "idle" /\ wire # <<>> /\ wire' = Tail(wire) /\ rpc' = "payload"
      /\ frame' = f /\ f.num >= nextFrameNumber
      /\ UNCHANGED <<nextToEncode, idrPending, rfiPending, dpc>> /\ ControlOthers
  BY DEF FirstPacket, Arrived, hostVars, decoderVars
<1>2. /\ waitingForIdrFrame' = (idrWait /\ f.type # "IDR")
      /\ waitingForNextSuccessfulFrame' =
           /\ waitingForNextSuccessfulFrame \/ gap
           /\ ~LossAnsweredBy(f.type, refWait)
      /\ ~gap => NoRequest
  BY DEF FirstPacket
<1>3. faults'.overtaken = (faults.overtaken \/
        (f.type = "INV" /\ refWait /\ idrWait /\ (waitingForNextSuccessfulFrame \/ gap)))
  <2> DEFINE b == /\ f.type = "INV" /\ refWait /\ idrWait
                  /\ waitingForNextSuccessfulFrame \/ gap
  <2>1. faults' = [faults EXCEPT !.overtaken = faults.overtaken \/ b]
    BY DEF FirstPacket
  <2>2. faults \in Faults
    BY DEF IInv, Types, TypeOK
  <2> HIDE DEF b
  <2>3. faults'.overtaken = (faults.overtaken \/ b)
    BY <2>1, <2>2 DEF Faults
  <2> QED
    BY <2>3 DEF b
<1> HIDE DEF gap, idrWait, refWait, f
<1>4. RefAsked'
  BY <1>1 DEF RefAsked
<1>5. SUFFICES ASSUME waitingForIdrFrame', dpc \in {"idle", "busy"}, ~faults'.overtaken,
                      ~waitingForNextSuccessfulFrame'
               PROVE  IdrComing'
  BY <1>1, <1>4 DEF IdrAsked
<1>6. idrWait /\ f.type # "IDR"
  BY <1>2, <1>5
<1>7. ~faults.overtaken /\ ~(waitingForNextSuccessfulFrame \/ gap)
  BY <1>2, <1>3, <1>5, <1>6 DEF LossAnsweredBy
<1>8. waitingForIdrFrame /\ NoRequest
  BY <1>2, <1>6, <1>7 DEF idrWait
<1>9. ~LossBeyond
  <2>1. ~(nextFrameNumber < Head(wire).num)
    BY <1>7 DEF gap, Gap, f
  <2> QED
    BY <1>1, <2>1 DEF LossBeyond, Expected, Ahead
<1>10. IdrComing
  BY <1>1, <1>5, <1>7, <1>8, <1>9 DEF IdrAsked
<1>11. UNCHANGED <<IdrRequestUnderWay, RfiRequestUnderWay>>
  BY <1>1, <1>8, Asks DEF IInv
<1>12. Expected' = Head(wire).num + 1 /\ Expected' \in Nat
  BY <1>1, HeadOfWire DEF Expected, f
<1> QED
  BY <1>1, <1>6, <1>10, <1>11, <1>12, ComingPast, HeadOfWire DEF f

(* Loss reported by the RTP queue.                                         *)
LEMMA AskedLost ==
  ASSUME RfiEnabled, IInv, Awaited, IdrAsked, NotifyFrameLost
  PROVE  IdrAsked' /\ RefAsked'
<1>1. /\ rpc = "idle" /\ wire # <<>> /\ wire' \in {wire, Tail(wire)} /\ rpc' = "lost"
      /\ UNCHANGED <<nextFrameNumber, waitingForNextSuccessfulFrame, idrFrameProcessed,
                     nextToEncode, idrPending, rfiPending, dpc>>
      /\ ControlOthers /\ DropRequest
      /\ DropFrameState(waitingForIdrFrame, waitingForRefInvalFrame)
  BY DEF NotifyFrameLost, hostVars, decoderVars
<1>2. UNCHANGED faults.overtaken
  BY DEF NotifyFrameLost, IInv, Types, TypeOK, Faults
<1>3. RefAsked'
  BY <1>1 DEF RefAsked
<1>4. CASE LimitReached
  BY <1>1, <1>4, Asks, Requested DEF IInv, DropRequest
<1>5. CASE ~LimitReached
  <2>1. NoRequest /\ UNCHANGED <<IdrRequestUnderWay, RfiRequestUnderWay>>
    BY <1>1, <1>5, Asks DEF IInv, DropRequest
  <2>2. waitingForIdrFrame' => waitingForIdrFrame
    <3>1. waitingForIdrFrame \/ idrFrameProcessed
      BY <1>1 DEF Awaited
    <3> QED
      BY <1>1, <1>5, <3>1 DEF DropFrameState, NeedIdr, strictIdrFrameWait
  <2>3. UNCHANGED Expected /\ Expected' \in Nat
    BY <1>1, ExpectedType DEF Expected
  <2>4. IdrComing \/ LossBeyond => IdrComing' \/ LossBeyond'
    <3>1. CASE wire' = wire
      BY <1>1, <2>1, <2>3, <3>1, ComingKept
    <3>2. CASE wire' = Tail(wire)
      <4>1. Expected' <= Expected
        BY <2>3
      <4>2. IdrComing => IdrComing' \/ (Head(wire).type = "IDR" /\ Head(wire).num >= Expected)
        BY <1>1, <2>1, <2>3, <3>2, <4>1, ComingPast
      <4>3. LossBeyond \/ Head(wire).num >= Expected => LossBeyond'
        BY <1>1, <2>3, <3>2, LossSeen
      <4> QED
        BY <4>2, <4>3
    <3> QED
      BY <1>1, <3>1, <3>2
  <2> QED
    BY <1>1, <1>2, <1>3, <2>2, <2>4 DEF IdrAsked
<1> QED
  BY <1>4, <1>5

(* The end of a frame that nobody can use.                                 *)
LEMMA AskedDrop ==
  ASSUME RfiEnabled, IInv, Awaited, IdrAsked, DropWhileWaiting
  PROVE  IdrAsked' /\ RefAsked'
<1>1. /\ rpc = "payload" /\ nextFrameNumber' = frame.num + 1 /\ rpc' = "idle"
      /\ waitingForIdrFrame \/ waitingForRefInvalFrame
      /\ UNCHANGED <<wire, idrPending, rfiPending, nextToEncode, faults, frame, dpc>>
      /\ ControlOthers
      /\ waitingForIdrFrame' = (NeedIdr(waitingForIdrFrame) \/ LimitReached)
  BY DEF DropWhileWaiting, EndOfFrame, NetworkOthers, hostVars, netVars, decoderVars,
         DropFrameState
<1>2. CASE LimitReached \/ (waitingForIdrFrame /\ waitingForNextSuccessfulFrame)
  <2>1. LiRequestIdrFrame
    BY <1>2 DEF DropWhileWaiting
  <2> QED
    BY <1>1, <2>1, Asks, Requested DEF IInv
<1>3. CASE ~LimitReached /\ waitingForIdrFrame /\ ~waitingForNextSuccessfulFrame
  <2>1. NoRequest /\ UNCHANGED <<IdrRequestUnderWay, RfiRequestUnderWay>>
    BY <1>1, <1>3, Asks DEF DropWhileWaiting, IInv
  <2>2. UNCHANGED Expected
    BY <1>1 DEF Expected
  <2>3. (IdrComing => IdrComing') /\ LossBeyond' = LossBeyond
    BY <1>1, <2>1, <2>2, ComingKept
  <2> QED
    BY <1>1, <1>3, <2>3 DEF IdrAsked, RefAsked, NeedIdr
<1>4. CASE ~LimitReached /\ ~waitingForIdrFrame
  <2>1. ConnectionDetectedFrameLoss(startFrameNumber, frame.num)
    BY <1>4 DEF DropWhileWaiting
  <2>2. IdrRequestUnderWay' \/ RfiRequestUnderWay'
    BY <1>1, <2>1, Asks, Numbers DEF IInv
  <2>3. ~waitingForIdrFrame'
    BY <1>1, <1>4 DEF Awaited, NeedIdr, strictIdrFrameWait
  <2> QED
    BY <2>2, <2>3 DEF IdrAsked, RefAsked, RfiComing, IdrComing
<1> QED
  BY <1>2, <1>3, <1>4

(* A loss that has been noticed is reported.                               *)
LEMMA AskedReport ==
  ASSUME IInv, IdrAsked, CorruptReport \/ LostReport
  PROVE  IdrAsked' /\ RefAsked'
<1>1. /\ UNCHANGED <<wire, idrPending, rfiPending, nextToEncode, faults, frame, dpc,
                     waitingForIdrFrame, waitingForRefInvalFrame,
                     waitingForNextSuccessfulFrame>>
      /\ rpc \in {"corrupt", "lost"} /\ rpc' = "idle"
      /\ ControlOthers
  BY DEF CorruptReport, LostReport, NetworkOthers, hostVars, netVars, decoderVars, sharedVars
<1>2. CASE waitingForIdrFrame /\ CorruptReport
  BY <1>1, <1>2, Asks, Requested DEF CorruptReport, IInv
<1>3. CASE waitingForIdrFrame /\ LostReport
  <2>1. NoRequest /\ UNCHANGED nextFrameNumber /\ rpc = "lost"
    BY <1>3 DEF LostReport
  <2>2. UNCHANGED <<IdrRequestUnderWay, RfiRequestUnderWay>>
    BY <1>1, <2>1, Asks DEF IInv
  <2>3. UNCHANGED Expected
    BY <1>1, <2>1 DEF Expected
  <2>4. (IdrComing => IdrComing') /\ LossBeyond' = LossBeyond
    BY <1>1, <2>2, <2>3, ComingKept
  <2> QED
    BY <1>1, <1>3, <2>1, <2>4 DEF IdrAsked, RefAsked
<1>4. CASE ~waitingForIdrFrame
  <2>1. ConnectionDetectedFrameLoss(startFrameNumber, frame.num)
    BY <1>4 DEF CorruptReport, LostReport
  <2>2. IdrRequestUnderWay' \/ RfiRequestUnderWay'
    BY <1>1, <2>1, Asks, Numbers DEF IInv
  <2> QED
    BY <1>1, <1>4, <2>2 DEF IdrAsked, RefAsked, RfiComing, IdrComing
<1> QED
  BY <1>2, <1>3, <1>4

(* Threads and the host at the requests.                                   *)
LEMMA AskedTravels ==
  ASSUME IInv, Sent, IdrAsked, RefAsked, Control \/ Encode \/ HostHandle
  PROVE  IdrAsked' /\ RefAsked'
<1>1. UNCHANGED <<rpc, frame, nextFrameNumber, waitingForIdrFrame, waitingForRefInvalFrame,
                  waitingForNextSuccessfulFrame, dpc, faults>>
  BY DEF Control, Encode, HostHandle, NetworkOthers, recvVars, sharedVars, decoderVars, netVars
<1>2. /\ IdrComing => IdrComing'
      /\ RfiComing => RfiComing'
      /\ LossBeyond' = LossBeyond
  <2>1. CASE Control
    <3>1. /\ UNCHANGED <<wire, idrPending, rfiPending, nextToEncode>>
          /\ ControlNext
      BY <2>1 DEF Control, NetworkOthers, hostVars, netVars
    <3>2. UNCHANGED Expected
      BY <1>1 DEF Expected
    <3> QED
      BY <3>1, <3>2, RequestsTravel, ComingKept DEF IInv
  <2>2. CASE HostHandle
    <3>1. UNCHANGED wire
      BY <2>2 DEF HostHandle, netVars
    <3>2. UNCHANGED nextToEncode
      BY <2>2 DEF HostHandle
    <3>3. UNCHANGED <<Expected, Ahead>>
      BY <1>1, <3>1, <3>2 DEF Expected, Ahead
    <3>4. (Arrives("IDR") => Arrives("IDR")') /\ (Arrives("INV") => Arrives("INV")')
      BY <3>1, <3>3, ArrivesStill, ExpectedType
    <3> QED
      BY <2>2, <3>3, <3>4, HostTakes DEF IInv, IdrComing, RfiComing, LossBeyond
  <2>3. CASE Encode
    <3>1. NoRequest /\ ControlOthers
      BY <2>3 DEF Encode, controlVars, NoRequest, ControlOthers
    <3>2. UNCHANGED <<IdrRequestUnderWay, RfiRequestUnderWay>>
      BY <3>1, Asks DEF IInv
    <3>3. /\ UNCHANGED <<Expected, Ahead>>
          /\ (Arrives("IDR") => Arrives("IDR")') /\ (Arrives("INV") => Arrives("INV")')
          /\ idrPending => Arrives("IDR")'
          /\ rfiPending => Arrives("IDR")' \/ Arrives("INV")'
      BY <2>3, Encodes
    <3> QED
      BY <3>2, <3>3 DEF IdrComing, RfiComing, LossBeyond
  <2> QED
    BY <2>1, <2>2, <2>3
<1> QED
  BY <1>1, <1>2 DEF IdrAsked, RefAsked

(* The unit is completed, or nothing happens.                              *)
LEMMA AskedDone ==
  ASSUME IInv, Awaited, IdrAsked, RefAsked, DirectReturns \/ CompleteOk \/ UNCHANGED vars
  PROVE  IdrAsked' /\ RefAsked'
<1>1. /\ UNCHANGED <<frame, nextFrameNumber, waitingForIdrFrame, waitingForRefInvalFrame,
                     waitingForNextSuccessfulFrame, faults,
                     wire, idrPending, rfiPending, nextToEncode>>
      /\ NoRequest /\ ControlOthers
  BY DEF DirectReturns, FrameAccepted, CompleteOk, DecoderKeeps, NetworkOthers, vars, recvVars,
         sharedVars, hostVars, netVars, controlVars, NoRequest, ControlOthers
<1>2. \/ rpc = "submitted" /\ rpc' = "idle"
      \/ UNCHANGED rpc
  BY DEF DirectReturns, FrameAccepted, CompleteOk, DecoderKeeps, vars, recvVars
<1>3. dpc' \in {"idle", "busy"} => dpc \in {"idle", "busy"}
  BY DEF DirectReturns, CompleteOk, vars, decoderVars
<1>4. UNCHANGED <<IdrRequestUnderWay, RfiRequestUnderWay>>
  BY <1>1, Asks DEF IInv
<1>5. UNCHANGED Expected
  BY <1>1, <1>2 DEF Expected
<1>6. /\ IdrComing => IdrComing'
      /\ RfiComing => RfiComing'
      /\ LossBeyond' = LossBeyond
  BY <1>1, <1>4, <1>5, ComingKept
<1> QED
  BY <1>1, <1>2, <1>3, <1>6 DEF IdrAsked, RefAsked, Awaited

LEMMA AskedStep ==
  ASSUME DirectSubmit, RfiEnabled, IInv, AnswerInv, [Next]_vars
  PROVE  IdrAsked' /\ RefAsked'
<1> USE DEF AnswerInv
<1>1. CASE StaleFrame \/ LoseSilently
  BY <1>1, AskedPast
<1>2. CASE FirstPacket
  BY <1>2, AskedFirst
<1>3. CASE CorruptFirstPacket \/ CorruptLaterPacket
  <2>1. rpc' = "corrupt"
    BY <1>3 DEF CorruptFirstPacket, CorruptLaterPacket, Corrupt
  <2> QED
    BY <2>1 DEF IdrAsked, RefAsked
<1>4. CASE DropWhileWaiting
  BY <1>4, AskedDrop
<1>5. CASE NotifyFrameLost
  BY <1>5, AskedLost
<1>6. CASE CorruptReport \/ LostReport
  BY <1>6, AskedReport
<1>7. CASE Control \/ Encode \/ HostHandle
  BY <1>7, AskedTravels
<1>8. CASE DirectReturns \/ CompleteOk \/ UNCHANGED vars
  BY <1>8, AskedDone
<1>9. CASE NothingAwaited \/ NoPendingDrop \/ SubmitDirect
  <2>1. ~waitingForIdrFrame' /\ ~waitingForRefInvalFrame'
    BY <1>9
    DEF NothingAwaited, NoPendingDrop, SubmitDirect, Awaited, recvVars, sharedVars
  <2> QED
    BY <2>1 DEF IdrAsked, RefAsked
<1>10. CASE OverflowFlush \/ RefreshRequest
  BY <1>10, Asks, Requested DEF OverflowFlush, RefreshRequest, IInv
<1>11. CASE CompleteNeedIdr \/ RefreshFlush \/ RefreshPending
  <2>1. waitingForIdrFrame' /\ dpc' \notin {"idle", "busy"}
    BY <1>11 DEF CompleteNeedIdr, RefreshFlush, RefreshPending, Awaited
  <2> QED
    BY <2>1 DEF IdrAsked, RefAsked
<1>12. CASE PendingDrop \/ OfferUnit \/ OfferOverflow \/ Dequeue
  BY <1>12 DEF PendingDrop, OfferUnit, OfferOverflow, Dequeue, Awaited
<1> QED
  BY <1>1, <1>2, <1>3, <1>4, <1>5, <1>6, <1>7, <1>8, <1>9, <1>10, <1>11, <1>12
  DEF Next, Receive, Decoder

-----------------------------------------------------------------------------
(* Between frames, who waits for a frame that restarts the stream has it,  *)
(* or the request for it, under way, unless an invalidation was answered   *)
(* while an IDR frame was awaited (VideoDepacketizer.c:944-968, 1025-1051).*)
THEOREM Answered ==
  ASSUME DirectSubmit, RfiEnabled
  PROVE  Spec => []AnswerUnderWay
<1>1. Init => AnswerInv
  BY InitAnswer
<1>2. IInv /\ AnswerInv /\ [Next]_vars => AnswerInv'
  BY SentStep, AwaitedStep, AskedStep DEF AnswerInv
<1>3. IInv /\ AnswerInv => AnswerUnderWay
  <2> SUFFICES ASSUME IInv, AnswerInv, ~faults.overtaken, Settled
               PROVE  /\ waitingForIdrFrame => IdrUnderWay
                      /\ waitingForRefInvalFrame => RfiUnderWay
    BY DEF AnswerUnderWay, IdrWaitAnswered
  <2>1. ~LossBeyond
    BY DEF Settled, LossBeyond, LossAhead, Expected, Ahead
  <2>2. \A t : Arrives(t) => \E i \in DOMAIN wire : wire[i].type = t
    BY DEF Arrives, IInv, Types, TypeOK
  <2>3. IdrComing => IdrUnderWay
    BY <2>2 DEF IdrComing, IdrUnderWay
  <2>4. RfiComing => RfiUnderWay
    BY <2>2, <2>3 DEF RfiComing, RfiUnderWay
  <2>5. waitingForIdrFrame => IdrComing
    BY <2>1 DEF AnswerInv, IdrAsked, Settled
  <2>6. waitingForRefInvalFrame => RfiComing
    BY <2>1, <2>5 DEF AnswerInv, RefAsked, RfiComing, Settled
  <2> QED
    BY <2>3, <2>4, <2>5, <2>6
<1> QED
  BY <1>1, <1>2, <1>3, Invariant, PTL DEF Spec

=============================================================================
