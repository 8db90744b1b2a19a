------------------------- MODULE VideoDepacketizer -------------------------
(***************************************************************************)
(* VideoDepacketizer.c: turning the frames of the RTP video queue into     *)
(* decode units, and recovering from the ones that never came.             *)
(*                                                                         *)
(* The receive thread runs processRtpPayload() and notifyFrameLost(), the  *)
(* decoder thread (or, with CAPABILITY_DIRECT_SUBMIT, the receive thread   *)
(* itself) submits the units and completes them.  The flags they share are *)
(* read and written without a lock, so the receive thread's walk through a *)
(* frame is cut where it looks at them.                                    *)
(*                                                                         *)
(* The RTP queue hands over whole frames, in order, and a frame is its     *)
(* first packet and the rest of it.  The host's version is >= 7.1.350, so  *)
(* the header tells an IDR frame ("IDR") and the first frame after an      *)
(* invalidation ("INV") from a frame that needs its predecessor ("P").     *)
(***************************************************************************)
EXTENDS FrameLossControl

CONSTANTS DirectSubmit,      \* CAPABILITY_DIRECT_SUBMIT
          QueueBound,        \* size bound of decodeUnitQueue
          DropLimit,         \* CONSECUTIVE_DROP_LIMIT
          MaxFrame,          \* bound: frames the host encodes
          MaxInFlight,       \* bound: frames between host and depacketizer
          MaxLosses,         \* bound: frames lost, or reported as lost
          MaxCorrupt,        \* bound: frames that arrive corrupt
          MaxRefreshes       \* bound: decoder answers DR_NEED_IDR

ASSUME DepacketizerAssumption ==
  /\ DirectSubmit \in BOOLEAN
  /\ QueueBound \in Nat /\ DropLimit \in Nat \ {0}
  /\ MaxFrame \in Nat /\ MaxInFlight \in Nat /\ MaxLosses \in Nat
  /\ MaxCorrupt \in Nat /\ MaxRefreshes \in Nat

VARIABLES
  \* the receive thread
  nextFrameNumber, startFrameNumber, consecutiveFrameDrops,
  waitingForNextSuccessfulFrame, waitingForRefInvalFrame,
  rpc,                 \* where it stands in a frame
  frame,               \* the frame it is working on
  \* shared with the decoder
  waitingForIdrFrame, dropStatePending, idrFrameProcessed,
  decodeUnitQueue,
  \* the decoder
  dpc, unit,
  \* external: the host and the network
  lastIdr,             \* the newest IDR frame the host encoded
  nextToEncode, idrPending, rfiPending, wire, faults,
  \* history
  lastSubmitted,       \* newest frame handed to the decoder, 0 if it needs an IDR
  silentDrops          \* frames dropped since a request or a submission

recvVars == <<nextFrameNumber, startFrameNumber, consecutiveFrameDrops,
              waitingForNextSuccessfulFrame, waitingForRefInvalFrame,
              rpc, frame, silentDrops>>
sharedVars == <<waitingForIdrFrame, dropStatePending, idrFrameProcessed,
                decodeUnitQueue>>
decoderVars == <<dpc, unit, lastSubmitted>>
hostVars == <<lastIdr, nextToEncode, idrPending, rfiPending>>
netVars == <<wire, faults>>
vars == <<recvVars, sharedVars, decoderVars, hostVars, netVars, controlVars>>

strictIdrFrameWait == ~RfiEnabled

FrameType == {"IDR", "INV", "P"}
Frame == [num : 0..MaxFrame, type : FrameType]
NoFrame == [num |-> 0, type |-> "IDR"]
Faults == [lost : 0..MaxLosses, corrupt : 0..MaxCorrupt, refresh : 0..MaxRefreshes,
           reported : 0..MaxFrame, brokenIdr : BOOLEAN, overtaken : BOOLEAN]

(* initializeVideoDepacketizer *)
Init ==
  /\ nextFrameNumber = 1 /\ startFrameNumber = 0
  /\ consecutiveFrameDrops = 0
  /\ waitingForNextSuccessfulFrame = FALSE
  /\ waitingForRefInvalFrame = FALSE
  /\ waitingForIdrFrame = TRUE
  /\ dropStatePending = FALSE
  /\ idrFrameProcessed = FALSE
  /\ decodeUnitQueue = <<>>
  /\ rpc = "idle" /\ frame = NoFrame
  /\ dpc = "idle" /\ unit = NoFrame
  /\ lastSubmitted = 0 /\ silentDrops = 0
  /\ lastIdr = 0 /\ nextToEncode = 1 /\ idrPending = TRUE /\ rfiPending = FALSE
  /\ wire = <<>>
  /\ faults = [lost |-> 0, corrupt |-> 0, refresh |-> 0, reported |-> 0,
               brokenIdr |-> FALSE, overtaken |-> FALSE]
  /\ ControlInit

-----------------------------------------------------------------------------
(* External: the host encodes frame after frame and answers a request with *)
(* the next one.  An invalidation that reaches back to its newest IDR      *)
(* frame leaves it nothing to refer to.                                    *)

Encode ==
  /\ nextToEncode <= MaxFrame
  /\ Len(wire) < MaxInFlight
  /\ LET type == IF idrPending THEN "IDR" ELSE IF rfiPending THEN "INV" ELSE "P"
     IN  /\ wire' = Append(wire, [num |-> nextToEncode, type |-> type])
         /\ lastIdr' = IF idrPending THEN nextToEncode ELSE lastIdr
  /\ nextToEncode' = nextToEncode + 1
  /\ idrPending' = FALSE /\ rfiPending' = FALSE
  /\ UNCHANGED <<recvVars, sharedVars, decoderVars, faults, controlVars>>

HostHandle ==
  /\ toHost # <<>>
  /\ toHost' = Tail(toHost)
  /\ LET m == Head(toHost)
         needIdr == m.type = "IDR" \/ lastIdr \in m.range.start..m.range.end
     IN  /\ idrPending' = (idrPending \/ needIdr)
         /\ rfiPending' = (rfiPending \/ ~needIdr)
  /\ UNCHANGED <<recvVars, sharedVars, decoderVars, lastIdr, nextToEncode, netVars,
                 idrFrameRequired, invalidReferenceFrameTuples, idrThread, rfiThread>>

-----------------------------------------------------------------------------
(* dropFrameState().                                                       *)

(* Mutant: the limit is noticed one frame late. *)
LimitPassed == consecutiveFrameDrops = DropLimit

NeedIdr(idrWait) == strictIdrFrameWait \/ ~idrFrameProcessed \/ idrWait
LimitReached == consecutiveFrameDrops + 1 = DropLimit

(* idrWait and refWait are the two waits as the caller left them.          *)
DropFrameState(idrWait, refWait) ==
  /\ dropStatePending' = FALSE
  /\ waitingForIdrFrame' = (NeedIdr(idrWait) \/ LimitReached)
  /\ waitingForRefInvalFrame' = (refWait \/ ~NeedIdr(idrWait))
  /\ consecutiveFrameDrops' = IF LimitReached THEN 0 ELSE consecutiveFrameDrops + 1

DropRequest == IF LimitReached THEN LiRequestIdrFrame ELSE NoRequest
DropUnanswered == silentDrops' = IF LimitReached THEN 0 ELSE silentDrops + 1

ControlOthers == UNCHANGED <<idrThread, rfiThread, toHost>>
NetworkOthers == UNCHANGED <<hostVars, netVars>>

-----------------------------------------------------------------------------
(* processRtpPayload(), first packet.                                      *)

Arrived ==
  /\ rpc = "idle" /\ wire # <<>>
  /\ wire' = Tail(wire)

StaleFrame ==
  /\ Arrived
  /\ Head(wire).num < nextFrameNumber
  /\ UNCHANGED <<recvVars, sharedVars, decoderVars, hostVars, faults, controlVars>>

(* Mutant: a single skipped frame goes unnoticed. *)
GapOfSeveral(f) == nextFrameNumber + 1 < f.num

Gap(f) == nextFrameNumber < f.num

(* Mutant: whether an invalidation is awaited does not matter. *)
LossAnsweredByAny(type, refWait) == type \in {"IDR", "INV"}

(* An IDR frame always cancels the pending report, the first frame after   *)
(* an invalidation if one is awaited.                                      *)
LossAnsweredBy(type, refWait) == type = "IDR" \/ (type = "INV" /\ refWait)

(* The gap before it, its header and, for an IDR frame, its codec data.    *)
(* That an invalidation was answered while an IDR frame is awaited, and    *)
(* ended the bookkeeping of a loss, is noted in the history.               *)
FirstPacket ==
  /\ Arrived
  /\ LET f == Head(wire)
         gap == Gap(f)
         idrWait == IF gap THEN NeedIdr(waitingForIdrFrame) \/ LimitReached
                    ELSE waitingForIdrFrame
         refWait == waitingForRefInvalFrame \/ (gap /\ ~NeedIdr(waitingForIdrFrame))
     IN  /\ f.num >= nextFrameNumber
         /\ frame' = f
         /\ nextFrameNumber' = f.num
         /\ waitingForIdrFrame' = (idrWait /\ f.type # "IDR")
         /\ waitingForRefInvalFrame' = (refWait /\ f.type = "P")
         /\ waitingForNextSuccessfulFrame' =
              /\ waitingForNextSuccessfulFrame \/ gap
              /\ ~LossAnsweredBy(f.type, refWait)
         /\ faults' = [faults EXCEPT !.overtaken =
              @ \/ /\ f.type = "INV" /\ refWait /\ idrWait
                   /\ waitingForNextSuccessfulFrame \/ gap]
         /\ IF gap
            THEN /\ dropStatePending' = FALSE
                 /\ consecutiveFrameDrops' =
                      IF LimitReached THEN 0 ELSE consecutiveFrameDrops + 1
                 /\ DropUnanswered /\ DropRequest
            ELSE /\ UNCHANGED <<dropStatePending, consecutiveFrameDrops, silentDrops>>
                 /\ NoRequest
  /\ rpc' = "payload"
  /\ UNCHANGED <<startFrameNumber, idrFrameProcessed, decodeUnitQueue, decoderVars,
                 hostVars>>
  /\ ControlOthers

(* A packet whose stream index does not fit, first or later.  An IDR frame *)
(* whose first packet has ended the IDR wait is noted in the history.      *)
Corrupt(f) ==
  /\ f.num >= nextFrameNumber
  /\ faults.corrupt < MaxCorrupt
  /\ faults' = [faults EXCEPT !.corrupt = @ + 1,
                    !.brokenIdr = @ \/ (rpc = "payload" /\ f.type = "IDR")]
  /\ frame' = f
  /\ nextFrameNumber' = f.num + 1
  /\ DropFrameState(waitingForIdrFrame, waitingForRefInvalFrame)
  /\ DropUnanswered /\ DropRequest
  /\ rpc' = "corrupt"
  /\ UNCHANGED <<startFrameNumber, waitingForNextSuccessfulFrame, idrFrameProcessed,
                 decodeUnitQueue, decoderVars, hostVars>>
  /\ ControlOthers

CorruptFirstPacket == Arrived /\ Corrupt(Head(wire))
CorruptLaterPacket == rpc = "payload" /\ Corrupt(frame) /\ UNCHANGED wire

CorruptReport ==
  /\ rpc = "corrupt"
  /\ rpc' = "idle"
  /\ IF waitingForIdrFrame THEN LiRequestIdrFrame
     ELSE ConnectionDetectedFrameLoss(startFrameNumber, frame.num)
  /\ silentDrops' = 0
  /\ UNCHANGED <<nextFrameNumber, startFrameNumber, consecutiveFrameDrops,
                 waitingForNextSuccessfulFrame, waitingForRefInvalFrame, frame,
                 sharedVars, decoderVars>>
  /\ NetworkOthers /\ ControlOthers

-----------------------------------------------------------------------------
(* processRtpPayload(), last packet.                                       *)

EndOfFrame == rpc = "payload" /\ nextFrameNumber' = frame.num + 1

DropWhileWaiting ==
  /\ EndOfFrame
  /\ waitingForIdrFrame \/ waitingForRefInvalFrame
  /\ LET ask == waitingForIdrFrame => waitingForNextSuccessfulFrame
     IN  /\ IF LimitReached \/ (waitingForIdrFrame /\ ask) THEN LiRequestIdrFrame
            ELSE IF ask THEN ConnectionDetectedFrameLoss(startFrameNumber, frame.num)
            ELSE NoRequest
         /\ silentDrops' = IF LimitReached \/ ask THEN 0 ELSE silentDrops + 1
  /\ waitingForNextSuccessfulFrame' = FALSE
  /\ DropFrameState(waitingForIdrFrame, waitingForRefInvalFrame)
  /\ rpc' = "idle"
  /\ UNCHANGED <<startFrameNumber, frame, idrFrameProcessed, decodeUnitQueue,
                 decoderVars>>
  /\ NetworkOthers /\ ControlOthers

NothingAwaited ==
  /\ EndOfFrame
  /\ ~waitingForIdrFrame /\ ~waitingForRefInvalFrame
  /\ rpc' = "pending"
  /\ UNCHANGED <<startFrameNumber, consecutiveFrameDrops, waitingForRefInvalFrame,
                 waitingForNextSuccessfulFrame, frame, silentDrops, sharedVars,
                 decoderVars, controlVars>>
  /\ NetworkOthers

(* The drop a decoder refresh left to the receive thread.                  *)
PendingDrop ==
  /\ rpc = "pending"
  /\ dropStatePending /\ frame.type # "IDR"
  /\ DropFrameState(waitingForIdrFrame, waitingForRefInvalFrame)
  /\ DropUnanswered /\ DropRequest
  /\ rpc' = "idle"
  /\ UNCHANGED <<nextFrameNumber, startFrameNumber, waitingForNextSuccessfulFrame,
                 frame, idrFrameProcessed, decodeUnitQueue, decoderVars>>
  /\ NetworkOthers /\ ControlOthers

NoPendingDrop ==
  /\ rpc = "pending"
  /\ dropStatePending => frame.type = "IDR"
  /\ dropStatePending' = FALSE
  /\ rpc' = "offer"
  /\ UNCHANGED <<nextFrameNumber, startFrameNumber, consecutiveFrameDrops,
                 waitingForNextSuccessfulFrame, waitingForRefInvalFrame, frame,
                 silentDrops, waitingForIdrFrame, idrFrameProcessed, decodeUnitQueue,
                 decoderVars, controlVars>>
  /\ NetworkOthers

-----------------------------------------------------------------------------
(* reassembleFrame().                                                      *)

(* Mutant: the window starts a frame late. *)
WindowLate == nextFrameNumber + 1

WindowStart == nextFrameNumber

FrameAccepted ==
  /\ consecutiveFrameDrops' = 0 /\ silentDrops' = 0
  /\ startFrameNumber' = WindowStart
  /\ rpc' = "idle"
  /\ UNCHANGED <<nextFrameNumber, waitingForNextSuccessfulFrame,
                 waitingForRefInvalFrame, frame>>

OfferUnit ==
  /\ rpc = "offer" /\ ~DirectSubmit
  /\ Len(decodeUnitQueue) < QueueBound
  /\ decodeUnitQueue' = Append(decodeUnitQueue, frame)
  /\ FrameAccepted
  /\ UNCHANGED <<waitingForIdrFrame, dropStatePending, idrFrameProcessed,
                 decoderVars, controlVars>>
  /\ NetworkOthers

(* Mutant: a full queue is recovered from like a lost frame. *)
OverflowNeedsRfi == FALSE

OverflowNeedsIdr == TRUE

OfferOverflow ==
  /\ rpc = "offer" /\ ~DirectSubmit
  /\ Len(decodeUnitQueue) = QueueBound
  /\ DropFrameState(waitingForIdrFrame \/ OverflowNeedsIdr, waitingForRefInvalFrame)
  /\ DropUnanswered /\ DropRequest
  /\ rpc' = "overflow"
  /\ UNCHANGED <<nextFrameNumber, startFrameNumber, waitingForNextSuccessfulFrame,
                 frame, idrFrameProcessed, decodeUnitQueue, decoderVars>>
  /\ NetworkOthers /\ ControlOthers

OverflowFlush ==
  /\ rpc = "overflow"
  /\ decodeUnitQueue' = <<>> /\ lastSubmitted' = 0
  /\ LiRequestIdrFrame
  /\ silentDrops' = 0
  /\ rpc' = "idle"
  /\ UNCHANGED <<nextFrameNumber, startFrameNumber, consecutiveFrameDrops,
                 waitingForNextSuccessfulFrame, waitingForRefInvalFrame, frame,
                 waitingForIdrFrame, dropStatePending, idrFrameProcessed, dpc, unit>>
  /\ NetworkOthers /\ ControlOthers

(* submitDecodeUnit() runs on the receive thread, which goes on when the   *)
(* unit is completed.                                                      *)
SubmitDirect ==
  /\ rpc = "offer" /\ DirectSubmit
  /\ dpc' = "busy" /\ unit' = frame /\ lastSubmitted' = frame.num
  /\ rpc' = "submitted"
  /\ UNCHANGED <<nextFrameNumber, startFrameNumber, consecutiveFrameDrops,
                 waitingForNextSuccessfulFrame, waitingForRefInvalFrame, frame,
                 silentDrops, sharedVars, controlVars>>
  /\ NetworkOthers

DirectReturns ==
  /\ rpc = "submitted" /\ dpc = "idle"
  /\ FrameAccepted
  /\ UNCHANGED <<sharedVars, decoderVars, controlVars>>
  /\ NetworkOthers

-----------------------------------------------------------------------------
(* notifyFrameLost().                                                      *)

(* The RTP queue reports the frame it is at: gone, or (speculative)        *)
(* expected not to be completed.                                           *)
NotifyFrameLost ==
  /\ rpc = "idle" /\ wire # <<>>
  /\ faults.lost < MaxLosses
  /\ LET f == Head(wire)
     IN  /\ faults.reported < f.num
         /\ faults' = [faults EXCEPT !.lost = @ + 1, !.reported = f.num]
         /\ frame' = f
  /\ wire' \in {wire, Tail(wire)}
  /\ DropFrameState(waitingForIdrFrame, waitingForRefInvalFrame)
  /\ DropUnanswered /\ DropRequest
  /\ rpc' = "lost"
  /\ UNCHANGED <<nextFrameNumber, startFrameNumber, waitingForNextSuccessfulFrame,
                 idrFrameProcessed, decodeUnitQueue, decoderVars, hostVars>>
  /\ ControlOthers

LostReport ==
  /\ rpc = "lost"
  /\ rpc' = "idle"
  /\ IF waitingForIdrFrame
     THEN NoRequest /\ UNCHANGED <<nextFrameNumber, silentDrops>>
     ELSE /\ nextFrameNumber' = frame.num + 1
          /\ ConnectionDetectedFrameLoss(startFrameNumber, frame.num)
          /\ silentDrops' = 0
  /\ UNCHANGED <<startFrameNumber, consecutiveFrameDrops,
                 waitingForNextSuccessfulFrame, waitingForRefInvalFrame, frame,
                 sharedVars, decoderVars>>
  /\ NetworkOthers /\ ControlOthers

(* External: a frame is lost and nobody says so.                           *)
LoseSilently ==
  /\ Arrived
  /\ faults.lost < MaxLosses
  /\ faults' = [faults EXCEPT !.lost = @ + 1]
  /\ UNCHANGED <<recvVars, sharedVars, decoderVars, hostVars, controlVars>>

-----------------------------------------------------------------------------
(* The decoder: LiWaitForNextVideoFrame(), LiCompleteVideoFrame().         *)

DecoderKeeps == UNCHANGED <<recvVars, controlVars>> /\ NetworkOthers

Dequeue ==
  /\ ~DirectSubmit /\ dpc = "idle"
  /\ decodeUnitQueue # <<>>
  /\ unit' = Head(decodeUnitQueue) /\ lastSubmitted' = unit'.num
  /\ decodeUnitQueue' = Tail(decodeUnitQueue)
  /\ dpc' = "busy"
  /\ UNCHANGED <<waitingForIdrFrame, dropStatePending, idrFrameProcessed>>
  /\ DecoderKeeps

CompleteOk ==
  /\ dpc = "busy"
  /\ idrFrameProcessed' = (idrFrameProcessed \/ unit.type = "IDR")
  /\ dpc' = "idle"
  /\ UNCHANGED <<unit, lastSubmitted, waitingForIdrFrame, dropStatePending,
                 decodeUnitQueue>>
  /\ DecoderKeeps

(* DR_NEED_IDR, and requestDecoderRefresh() in its four steps.             *)
CompleteNeedIdr ==
  /\ dpc = "busy"
  /\ faults.refresh < MaxRefreshes
  /\ faults' = [faults EXCEPT !.refresh = @ + 1]
  /\ waitingForIdrFrame' = TRUE
  /\ lastSubmitted' = 0
  /\ dpc' = "flush"
  /\ UNCHANGED <<unit, dropStatePending, idrFrameProcessed, decodeUnitQueue,
                 recvVars, controlVars, hostVars, wire>>

RefreshFlush ==
  /\ dpc = "flush"
  /\ decodeUnitQueue' = <<>>
  /\ dpc' = "pending"
  /\ UNCHANGED <<unit, lastSubmitted, waitingForIdrFrame, dropStatePending,
                 idrFrameProcessed>>
  /\ DecoderKeeps

RefreshPending ==
  /\ dpc = "pending"
  /\ dropStatePending' = TRUE
  /\ dpc' = "request"
  /\ UNCHANGED <<unit, lastSubmitted, waitingForIdrFrame, idrFrameProcessed,
                 decodeUnitQueue>>
  /\ DecoderKeeps

RefreshRequest ==
  /\ dpc = "request"
  /\ LiRequestIdrFrame
  /\ dpc' = "idle"
  /\ UNCHANGED <<unit, lastSubmitted, recvVars, sharedVars>>
  /\ NetworkOthers /\ ControlOthers

-----------------------------------------------------------------------------
Receive ==
  \/ StaleFrame \/ FirstPacket \/ CorruptFirstPacket \/ CorruptLaterPacket
  \/ CorruptReport \/ DropWhileWaiting \/ NothingAwaited
  \/ PendingDrop \/ NoPendingDrop
  \/ OfferUnit \/ OfferOverflow \/ OverflowFlush \/ SubmitDirect \/ DirectReturns
  \/ NotifyFrameLost \/ LostReport \/ LoseSilently

Decoder ==
  \/ Dequeue \/ CompleteOk \/ CompleteNeedIdr
  \/ RefreshFlush \/ RefreshPending \/ RefreshRequest

Control == ControlNext /\ UNCHANGED <<recvVars, sharedVars, decoderVars>> /\ NetworkOthers

Next == Receive \/ Decoder \/ Control \/ Encode \/ HostHandle

Spec == Init /\ [][Next]_vars

-----------------------------------------------------------------------------
(* Every variable has its type; the drop counter stays below the limit.    *)
TypeOK ==
  /\ nextFrameNumber \in 1..(MaxFrame + 1)
  /\ startFrameNumber \in 0..(MaxFrame + 1)
  /\ consecutiveFrameDrops \in 0..(DropLimit - 1)
  /\ {waitingForNextSuccessfulFrame, waitingForRefInvalFrame, waitingForIdrFrame,
      dropStatePending, idrFrameProcessed, idrPending, rfiPending,
      idrFrameRequired} \subseteq BOOLEAN
  /\ rpc \in {"idle", "payload", "corrupt", "pending", "offer", "overflow",
              "submitted", "lost"}
  /\ dpc \in {"idle", "busy", "flush", "pending", "request"}
  /\ {frame, unit} \subseteq Frame
  /\ decodeUnitQueue \in Seq(Frame) /\ Len(decodeUnitQueue) <= QueueBound
  /\ wire \in Seq(Frame) /\ Len(wire) <= MaxInFlight
  /\ nextToEncode \in 1..(MaxFrame + 1) /\ lastIdr \in 0..MaxFrame
  /\ lastSubmitted \in 0..MaxFrame /\ silentDrops \in Nat
  /\ faults \in Faults
  /\ idrThread \in {"wait", "woken", "send"}
  /\ rfiThread.at \in {"wait", "poll", "send"}
  /\ Len(invalidReferenceFrameTuples) <= TupleBound

(* A frame other than an IDR frame is handed to the decoder only when the  *)
(* decoder has a picture to go on from: a P-frame right after the frame    *)
(* before it, the first frame after an invalidation after any frame, and   *)
(* neither after a decoder refresh or a flushed queue (lines 944-968).  An *)
(* IDR frame that breaks off has ended the IDR wait all the same, and the  *)
(* promise with it.                                                        *)
Submits == dpc = "idle" /\ dpc' = "busy"
Decodable(f) ==
  \/ f.type = "IDR"
  \/ lastSubmitted # 0 /\ (f.type = "INV" \/ f.num = lastSubmitted + 1)
DecoderGetsDecodable ==
  [][Submits /\ ~faults.brokenIdr => Decodable(unit')]_vars

(* The same of the decode unit queue, which overflows, up to the first     *)
(* refresh; RefreshTakesEffect is about what follows one.                  *)
DecodableUntilRefresh ==
  [][Submits /\ faults.refresh = 0 /\ ~faults.brokenIdr => Decodable(unit')]_vars

(* The two halves of LossHandled.  A loss that is still to be reported     *)
(* keeps the stream from going on: the asserts at 970 and 1009.            *)
LossKnown ==
  /\ waitingForNextSuccessfulFrame => waitingForIdrFrame \/ waitingForRefInvalFrame
  /\ rpc = "lost" => waitingForIdrFrame \/ waitingForRefInvalFrame

(* A loss that the next first packet will reveal.                          *)
LossAhead ==
  nextFrameNumber < IF wire = <<>> THEN nextToEncode ELSE Head(wire).num

IdrUnderWay ==
  \/ IdrRequestUnderWay \/ idrPending
  \/ \E i \in DOMAIN wire : wire[i].type = "IDR"

RfiUnderWay ==
  \/ IdrUnderWay \/ RfiRequestUnderWay \/ rfiPending
  \/ \E i \in DOMAIN wire : wire[i].type = "INV"

(* Between frames, and outside a refresh, a wait for a frame that restarts *)
(* the stream has one, or the request for one, on its way, or a loss that  *)
(* will lead to a request: nobody waits for what nobody asked for.         *)
(* IdrWaitAnswered is the promise of the comment at 951-953; it fails once *)
(* an invalidation was answered while an IDR frame was awaited.            *)
Settled ==
  /\ rpc = "idle" /\ dpc \in {"idle", "busy"}
  /\ ~waitingForNextSuccessfulFrame /\ ~LossAhead
IdrWaitAnswered == Settled /\ waitingForIdrFrame => IdrUnderWay
AnswerUnderWay ==
  ~faults.overtaken =>
    IdrWaitAnswered /\ (Settled /\ waitingForRefInvalFrame => RfiUnderWay)

(* An IDR request discards the invalidations; those that are left are      *)
(* proper ranges with ever later ends (the asserts at ControlStream.c 314, *)
(* 1148 and 1185).                                                         *)
TuplesOrdered ==
  TypeOK /\ LET q == invalidReferenceFrameTuples
  IN  /\ \A r \in Ranges : r.start <= r.end
      /\ \A i \in 2..Len(q) : q[i - 1].end <= q[i].end
      /\ rfiThread.at = "poll" /\ q # <<>> => rfiThread.range.end <= Head(q).end

(* At most CONSECUTIVE_DROP_LIMIT frames are dropped without a submission  *)
(* or a request in between, whatever else goes wrong.                      *)
StallBounded == silentDrops < DropLimit

(* A loss is neither forgotten nor waited out for ever.                    *)
LossHandled == LossKnown /\ StallBounded

(* After a refresh the next frame the decoder gets is an IDR frame         *)
(* (comment at 667-668).                                                   *)
RefreshTakesEffect == [][Submits /\ lastSubmitted = 0 => unit'.type = "IDR"]_vars
=============================================================================
