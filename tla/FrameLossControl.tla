-------------------------- MODULE FrameLossControl --------------------------
(***************************************************************************)
(* The part of ControlStream.c that turns lost video frames into requests  *)
(* to the host: the event and the queue the other threads leave their      *)
(* requests in, the ReqIdrFrame thread and the InvRefFrames thread, and    *)
(* the reliable, ordered control channel they write to.  The variables are *)
(* shared with the modules that extend this one.                           *)
(***************************************************************************)
EXTENDS Naturals, Sequences

CONSTANTS RfiEnabled,   \* isReferenceFrameInvalidationEnabled()
          TupleBound    \* size bound of invalidReferenceFrameTuples

ASSUME RecoveryAssumption == RfiEnabled \in BOOLEAN /\ TupleBound \in Nat

VARIABLES
  idrFrameRequired,            \* idrFrameRequiredEvent is signalled
  invalidReferenceFrameTuples, \* queue of [start, end]
  idrThread,                   \* "wait", "woken" or "send"
  rfiThread,                   \* "wait", "poll" or "send", and its range
  toHost                       \* control messages on their way

controlVars == <<idrFrameRequired, invalidReferenceFrameTuples, idrThread,
                 rfiThread, toHost>>

NoRange == [start |-> 1, end |-> 0]
Range(s, e) == [start |-> s, end |-> e]
RfiIdle == [at |-> "wait", range |-> NoRange]
IdrRequest == [type |-> "IDR", range |-> NoRange]
RfiRequest(r) == [type |-> "RFI", range |-> r]

ControlInit ==
  /\ idrFrameRequired = FALSE
  /\ invalidReferenceFrameTuples = <<>>
  /\ idrThread = "wait"
  /\ rfiThread = RfiIdle
  /\ toHost = <<>>

-----------------------------------------------------------------------------
(* Called by the receive thread and by the decoder; part of their steps.   *)

LiRequestIdrFrame ==
  /\ invalidReferenceFrameTuples' = <<>>
  /\ idrFrameRequired' = TRUE

NoRequest == UNCHANGED <<invalidReferenceFrameTuples, idrFrameRequired>>

(* A queue that is full, or a host without invalidation, takes an IDR.     *)
ConnectionDetectedFrameLoss(s, e) ==
  IF RfiEnabled /\ Len(invalidReferenceFrameTuples) < TupleBound
  THEN /\ invalidReferenceFrameTuples' =
            Append(invalidReferenceFrameTuples, Range(s, e))
       /\ UNCHANGED idrFrameRequired
  ELSE LiRequestIdrFrame

-----------------------------------------------------------------------------
(* requestIdrFrameFunc.  The event is cleared after the wait returned and  *)
(* before the request is sent.                                             *)

IdrWake ==
  /\ idrThread = "wait" /\ idrFrameRequired
  /\ idrThread' = "woken"
  /\ UNCHANGED <<idrFrameRequired, invalidReferenceFrameTuples, rfiThread, toHost>>

IdrClear ==
  /\ idrThread = "woken"
  /\ idrFrameRequired' = FALSE
  /\ invalidReferenceFrameTuples' = <<>>
  /\ idrThread' = "send"
  /\ UNCHANGED <<rfiThread, toHost>>

IdrSend ==
  /\ idrThread = "send"
  /\ toHost' = Append(toHost, IdrRequest)
  /\ idrThread' = "wait"
  /\ UNCHANGED <<idrFrameRequired, invalidReferenceFrameTuples, rfiThread>>

(* invalidateRefFramesFunc: what is queued is polled one by one into one   *)
(* range; a flush may come in between.                                     *)
RfiTake ==
  /\ rfiThread.at = "wait"
  /\ invalidReferenceFrameTuples # <<>>
  /\ rfiThread' = [at |-> "poll", range |-> Head(invalidReferenceFrameTuples)]
  /\ invalidReferenceFrameTuples' = Tail(invalidReferenceFrameTuples)
  /\ UNCHANGED <<idrFrameRequired, idrThread, toHost>>

RfiPoll ==
  /\ rfiThread.at = "poll"
  /\ IF invalidReferenceFrameTuples = <<>>
     THEN /\ rfiThread' = [rfiThread EXCEPT !.at = "send"]
          /\ UNCHANGED invalidReferenceFrameTuples
     ELSE /\ rfiThread' = [rfiThread EXCEPT !.range.end =
                              Head(invalidReferenceFrameTuples).end]
          /\ invalidReferenceFrameTuples' = Tail(invalidReferenceFrameTuples)
  /\ UNCHANGED <<idrFrameRequired, idrThread, toHost>>

RfiSend ==
  /\ rfiThread.at = "send"
  /\ toHost' = Append(toHost, RfiRequest(rfiThread.range))
  /\ rfiThread' = RfiIdle
  /\ UNCHANGED <<idrFrameRequired, invalidReferenceFrameTuples, idrThread>>

ControlNext ==
  IdrWake \/ IdrClear \/ IdrSend \/ RfiTake \/ RfiPoll \/ RfiSend

(* A request that has not reached the host yet.                            *)
IdrRequestUnderWay ==
  \/ idrFrameRequired
  \/ idrThread # "wait"
  \/ \E i \in DOMAIN toHost : toHost[i].type = "IDR"

RfiRequestUnderWay ==
  \/ invalidReferenceFrameTuples # <<>>
  \/ rfiThread.at # "wait"
  \/ \E i \in DOMAIN toHost : toHost[i].type = "RFI"

Ranges == {invalidReferenceFrameTuples[i] :
             i \in DOMAIN invalidReferenceFrameTuples}
            \cup (IF rfiThread.at = "wait" THEN {} ELSE {rfiThread.range})
=============================================================================
