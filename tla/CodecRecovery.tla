--------------------------- MODULE CodecRecovery ---------------------------
(***************************************************************************)
(* MediaCodecDecoderRenderer.java: three threads share one MediaCodec, the *)
(* input thread (submitDecodeUnit), the renderer thread and the            *)
(* choreographer thread (doFrame).  When a call of the codec fails, or HDR *)
(* metadata change, all of them meet in doCodecRecoveryIfRequired(); the   *)
(* last to arrive recovers the codec.  prepareForStop() and stop() end it  *)
(* all at any time.                                                        *)
(*                                                                         *)
(* CR_RECOVERY_TYPE_FLUSH is left out: nothing in the program requests it. *)
(* What a codec call does is external: it succeeds, or throws an exception *)
(* of one of three kinds.                                                  *)
(***************************************************************************)
EXTENDS Naturals, Sequences, FiniteSets

CONSTANTS HasChoreographer,  \* FRAME_PACING_BALANCED
          MaxTries,          \* CR_MAX_TRIES (10)
          OutputLimit,       \* OUTPUT_BUFFER_QUEUE_LIMIT (2)
          MaxEvents          \* bound: exceptions of the codec and changes of the metadata

ASSUME CodecAssumption ==
  HasChoreographer \in BOOLEAN /\ MaxTries \in Nat \ {0} /\ OutputLimit \in Nat \ {0}

Threads == {"input", "render"} \cup (IF HasChoreographer THEN {"choreographer"} ELSE {})
All == {"input", "render", "choreographer"}    \* CR_FLAG_ALL

VARIABLES
  stopping, recoveryType, flags, attempts, initialException,
  thread,            \* where each thread is
  nextInputBuffer, outputBufferQueue,
  stopper,           \* prepareForStop() and stop()
  crashed,           \* an exception was thrown that ends the process
  owed,              \* history: a recovery since the last DR_NEED_IDR
  events           \* bound

recoveryVars == <<recoveryType, flags, attempts, initialException>>
bufferVars == <<nextInputBuffer, outputBufferQueue>>
stopVars == <<stopping, stopper>>
vars == <<recoveryVars, bufferVars, stopVars, thread, crashed, owed, events>>

(* A thread: its place, the codec call it makes, whether that call went    *)
(* well, and of what kind the exception was otherwise.                     *)
At(pc, call) == [pc |-> pc, call |-> call, fine |-> TRUE, kind |-> "none"]

Init ==
  /\ stopping = FALSE /\ recoveryType = "none" /\ flags = {} /\ attempts = 0
  /\ initialException = FALSE
  /\ thread = [t \in Threads |-> At("loop", "none")]
  /\ nextInputBuffer = "none" /\ outputBufferQueue = <<>>
  /\ stopper = "idle" /\ crashed = FALSE
  /\ owed = FALSE /\ events = 0

Goes(t, pc) == thread' = [thread EXCEPT ![t].pc = pc]
Interrupted == stopper # "idle"                \* the renderer thread's interrupt status
MonitorFree == \A t \in Threads : thread[t].pc # "recover"

-----------------------------------------------------------------------------
(* The work of the threads.  Each ends in doCodecRecoveryIfRequired().     *)

(* submitDecodeUnit(): a unit is queued in a buffer fetched before, or     *)
(* fetched now.                                                            *)
Submit ==
  /\ thread["input"].pc = "loop" /\ ~stopping
  /\ thread' = [thread EXCEPT !["input"] =
       At("codec", IF nextInputBuffer = "none" THEN "fetch" ELSE "queue")]
  /\ UNCHANGED <<recoveryVars, bufferVars, stopVars, crashed, owed, events>>

Fetch ==
  /\ thread["input"].pc = "codec" /\ thread["input"].call \in {"fetch", "prefetch"}
  /\ nextInputBuffer' = "fresh"
  /\ Goes("input", "barrier")
  /\ UNCHANGED <<recoveryVars, outputBufferQueue, stopVars, crashed, owed, events>>

(* The loop for an index ends when the decoder stops.                      *)
FetchNothing ==
  /\ thread["input"].pc = "codec" /\ thread["input"].call \in {"fetch", "prefetch"}
  /\ stopping
  /\ thread' = [thread EXCEPT !["input"].pc = "barrier", !["input"].fine = FALSE]
  /\ UNCHANGED <<recoveryVars, bufferVars, stopVars, crashed, owed, events>>

Queue ==
  /\ thread["input"].pc = "codec" /\ thread["input"].call = "queue"
  /\ nextInputBuffer' = "none"
  /\ Goes("input", "barrier")
  /\ UNCHANGED <<recoveryVars, outputBufferQueue, stopVars, crashed, owed, events>>

(* The renderer thread: dequeueOutputBuffer(), with a frame or without.    *)
RenderLoop ==
  /\ thread["render"].pc = "loop"
  /\ thread' = [thread EXCEPT !["render"] =
       IF stopping THEN At("ended", "none") ELSE At("codec", "output")]
  /\ UNCHANGED <<recoveryVars, bufferVars, stopVars, crashed, owed, events>>

(* With the choreographer frames wait in a queue; the oldest makes room.   *)
Output ==
  /\ thread["render"].pc = "codec"
  /\ \/ UNCHANGED outputBufferQueue
     \/ /\ HasChoreographer
        /\ outputBufferQueue' =
             Append(IF Len(outputBufferQueue) = OutputLimit THEN Tail(outputBufferQueue)
                    ELSE outputBufferQueue, "fresh")
  /\ Goes("render", "barrier")
  /\ UNCHANGED <<recoveryVars, nextInputBuffer, stopVars, crashed, owed, events>>

(* Mutant: without a frame doFrame() does not come to the barrier.         *)
DoFrameOnly ==
  /\ HasChoreographer /\ thread["choreographer"].pc = "loop" /\ ~stopping
  /\ outputBufferQueue # <<>> /\ outputBufferQueue' = Tail(outputBufferQueue)
  /\ thread' = [thread EXCEPT !["choreographer"] = At("codec", "frame")]
  /\ UNCHANGED <<recoveryVars, nextInputBuffer, stopVars, crashed, owed, events>>

(* doFrame(): renders one frame of the queue.  The callback is not posted  *)
(* again once the decoder stops.                                           *)
DoFrame ==
  /\ HasChoreographer /\ thread["choreographer"].pc = "loop" /\ ~stopping
  /\ thread' = [thread EXCEPT !["choreographer"] =
       IF outputBufferQueue = <<>> THEN At("barrier", "none") ELSE At("codec", "frame")]
  /\ outputBufferQueue' =
       IF outputBufferQueue = <<>> THEN <<>> ELSE Tail(outputBufferQueue)
  /\ UNCHANGED <<recoveryVars, nextInputBuffer, stopVars, crashed, owed, events>>

Render ==
  /\ HasChoreographer /\ thread["choreographer"].pc = "codec"
  /\ Goes("choreographer", "barrier")
  /\ UNCHANGED <<recoveryVars, bufferVars, stopVars, crashed, owed, events>>

(* The looper quits between two callbacks.                                 *)
Quit ==
  /\ HasChoreographer /\ thread["choreographer"].pc = "loop"
  /\ stopper \in {"prepared", "joining"}
  /\ Goes("choreographer", "ended")
  /\ UNCHANGED <<recoveryVars, bufferVars, stopVars, crashed, owed, events>>

-----------------------------------------------------------------------------
(* Exceptions.                                                             *)

(* A failed queueInputBuffer() gives up the buffer unless the error is     *)
(* transient and reported.                                                 *)
GivesUpBuffer(t, transient) ==
  nextInputBuffer' =
    IF t = "input" /\ thread[t].call = "queue" /\ ~transient THEN "none" ELSE nextInputBuffer

(* handleDecoderException() ignores what is thrown while the decoder stops *)
(* and what is transient.                                                  *)
Ignored(t, kind) ==
  /\ thread[t].pc = "codec" /\ events < MaxEvents /\ (stopping \/ kind = "transient")
  /\ events' = events + 1
  /\ GivesUpBuffer(t, ~stopping)
  /\ thread' = [thread EXCEPT ![t].pc = "barrier", ![t].fine = FALSE]
  /\ UNCHANGED <<recoveryVars, outputBufferQueue, stopVars, crashed, owed>>

Throws(t, kind) ==
  /\ thread[t].pc = "codec" /\ events < MaxEvents /\ ~stopping /\ kind # "transient"
  /\ events' = events + 1
  /\ thread' = [thread EXCEPT ![t].pc = IF attempts < MaxTries THEN "require" ELSE "exhausted",
                              ![t].fine = FALSE, ![t].kind = kind]
  /\ UNCHANGED <<recoveryVars, bufferVars, stopVars, crashed, owed>>

Handled(t) == thread' = [thread EXCEPT ![t].pc = "barrier", ![t].kind = "none"]

(* The recovery an exception of a kind requires, given what is required.   *)
Promoted(kind) ==
  IF kind = "recoverable" /\ recoveryType # "reset" THEN "restart" ELSE "reset"

(* The compareAndSet() calls: one succeeds, or what was required already   *)
(* is enough.                                                              *)
Require(t) ==
  /\ thread[t].pc = "require"
  /\ IF Promoted(thread[t].kind) # recoveryType
     THEN /\ recoveryType' = Promoted(thread[t].kind)
          /\ GivesUpBuffer(t, FALSE) /\ Handled(t)
     ELSE Goes(t, "enough") /\ UNCHANGED <<recoveryType, nextInputBuffer>>
  /\ UNCHANGED <<flags, attempts, initialException, outputBufferQueue, stopVars, crashed,
                 owed, events>>

(* It is read once more; prepareForStop() may have withdrawn it, and then  *)
(* an unexpected exception ends the process.                               *)
Enough(t) ==
  /\ thread[t].pc = "enough"
  /\ crashed' = (recoveryType = "none"
                  \/ (recoveryType = "restart" /\ thread[t].kind = "fatal"))
  /\ GivesUpBuffer(t, FALSE) /\ Handled(t)
  /\ UNCHANGED <<recoveryVars, outputBufferQueue, stopVars, owed, events>>

(* After too many attempts the first exception is kept, and thrown when    *)
(* they go on, unless a recovery is under way.                             *)
Exhausted(t) ==
  /\ thread[t].pc = "exhausted"
  /\ initialException' = (initialException \/ recoveryType = "none")
  /\ crashed' \in {FALSE, initialException /\ recoveryType = "none"}
  /\ GivesUpBuffer(t, FALSE) /\ Handled(t)
  /\ UNCHANGED <<recoveryType, flags, attempts, outputBufferQueue, stopVars, owed, events>>

-----------------------------------------------------------------------------
(* doCodecRecoveryIfRequired().                                            *)

(* Mutant: a thread that waited does not learn of the recovery.            *)
LeaveUnaware(t, recovered) ==
  LET call == thread[t].call
      goesOn == thread[t].fine
  IN  IF t # "input"
      THEN thread' = [thread EXCEPT ![t] = At("loop", "none")] /\ UNCHANGED owed
      ELSE IF goesOn /\ call # "prefetch"
      THEN /\ thread' = [thread EXCEPT ![t] =
                At("codec", IF call = "fetch" THEN "queue" ELSE "prefetch")]
           /\ UNCHANGED owed
      ELSE /\ thread' = [thread EXCEPT ![t] = At("loop", "none")]
           /\ owed' = (owed /\ goesOn)

(* The thread goes on with its work.  After a failed call or a recovery,   *)
(* submitDecodeUnit() asks for an IDR frame.                               *)
Leave(t, recovered) ==
  LET call == thread[t].call
      goesOn == thread[t].fine /\ ~recovered
  IN  IF t # "input"
      THEN thread' = [thread EXCEPT ![t] = At("loop", "none")] /\ UNCHANGED owed
      ELSE IF goesOn /\ call # "prefetch"
      THEN /\ thread' = [thread EXCEPT ![t] =
                At("codec", IF call = "fetch" THEN "queue" ELSE "prefetch")]
           /\ UNCHANGED owed
      ELSE /\ thread' = [thread EXCEPT ![t] = At("loop", "none")]
           /\ owed' = (owed /\ goesOn)

(* No recovery is required.                                                *)
Pass(t) ==
  /\ thread[t].pc = "barrier" /\ recoveryType = "none"
  /\ Leave(t, FALSE)
  /\ UNCHANGED <<recoveryVars, bufferVars, stopVars, crashed, events>>

Reach(t) ==
  /\ thread[t].pc = "barrier" /\ recoveryType # "none"
  /\ Goes(t, "enter")
  /\ UNCHANGED <<recoveryVars, bufferVars, stopVars, crashed, owed, events>>

(* Mutant: the choreographer's flag is always set.                         *)
QuiescedEarly(t) == flags \cup {t, "choreographer"}

Quiesced(t) == flags \cup {t} \cup (All \ Threads)

(* Not all threads are quiesced: wait for the last one.                    *)
WaitForOthers(t) ==
  /\ thread[t].pc = "enter" /\ MonitorFree /\ Quiesced(t) # All
  /\ flags' = Quiesced(t)
  /\ Goes(t, "wait")
  /\ UNCHANGED <<recoveryType, attempts, initialException, bufferVars, stopVars, crashed,
                 owed, events>>

(* Mutant: the output buffers are kept.                                    *)
BeginKeepingOutput(t) ==
  /\ thread[t].pc = "enter" /\ MonitorFree /\ Quiesced(t) = All
  /\ flags' = All
  /\ nextInputBuffer' = "none" /\ UNCHANGED outputBufferQueue
  /\ attempts' = IF recoveryType = "none" THEN attempts ELSE attempts + 1
  /\ thread' = [thread EXCEPT ![t].pc = "recover", ![t].kind = "none"]
  /\ owed' = (owed \/ recoveryType # "none")
  /\ UNCHANGED <<recoveryType, initialException, stopVars, crashed, events>>

(* The last thread drops the buffers and recovers the codec.               *)
BeginRecovery(t) ==
  /\ thread[t].pc = "enter" /\ MonitorFree /\ Quiesced(t) = All
  /\ flags' = All
  /\ nextInputBuffer' = "none" /\ outputBufferQueue' = <<>>
  /\ attempts' = IF recoveryType = "none" THEN attempts ELSE attempts + 1
  /\ thread' = [thread EXCEPT ![t].pc = "recover", ![t].kind = "none"]
  /\ owed' = (owed \/ recoveryType # "none")
  /\ UNCHANGED <<recoveryType, initialException, stopVars, crashed, events>>

(* Every thread may go on; the ones that wait are notified.                *)
EndRecovery(t) ==
  /\ recoveryType' = "none" /\ flags' = {}
  /\ Leave(t, TRUE)

(* stop(), reset() or a new codec, then configureAndStartDecoder(): buffers *)
(* of the old codec are stale from now on.                                 *)
Recover(t) ==
  /\ thread[t].pc = "recover" /\ recoveryType # "none"
  /\ nextInputBuffer' = IF nextInputBuffer = "none" THEN "none" ELSE "stale"
  /\ outputBufferQueue' = [i \in DOMAIN outputBufferQueue |-> "stale"]
  /\ EndRecovery(t)
  /\ UNCHANGED <<attempts, initialException, stopVars, crashed, events>>

(* The surface is no longer valid.                                         *)
RecoverWithoutSurface(t) ==
  /\ thread[t].pc = "recover" /\ recoveryType # "none" /\ events < MaxEvents
  /\ events' = events + 1
  /\ stopping' = TRUE
  /\ EndRecovery(t)
  /\ UNCHANGED <<attempts, initialException, bufferVars, stopper, crashed>>

(* A bigger hammer: restart, then reset, then recreate, then give up.      *)
RecoverFails(t) ==
  /\ thread[t].pc = "recover" /\ recoveryType # "none" /\ events < MaxEvents
  /\ events' = events + 1
  /\ recoveryType' = "reset"
  /\ crashed' = (thread[t].kind = "recreate")
  /\ thread' = [thread EXCEPT ![t].kind = IF recoveryType = "reset" THEN "recreate" ELSE @]
  /\ UNCHANGED <<flags, attempts, initialException, bufferVars, stopVars, owed>>

(* The recovery was withdrawn before the last thread came.                 *)
NothingToRecover(t) ==
  /\ thread[t].pc = "recover" /\ recoveryType = "none"
  /\ EndRecovery(t)
  /\ UNCHANGED <<attempts, initialException, bufferVars, stopVars, crashed, events>>

(* A thread that waits looks again when it is notified or after a second;  *)
(* the renderer thread may be interrupted.                                 *)
Wake(t) ==
  /\ thread[t].pc = "wait" /\ MonitorFree
  /\ recoveryType = "none" \/ (t = "render" /\ Interrupted)
  /\ Leave(t, TRUE)
  /\ UNCHANGED <<recoveryVars, bufferVars, stopVars, crashed, events>>

-----------------------------------------------------------------------------
(* The other threads of the program.                                       *)

(* setHdrMode() on the control stream's receive thread.                    *)
SetHdrMode ==
  /\ stopper # "stopped" /\ events < MaxEvents
  /\ events' = events + 1
  /\ attempts' = 0
  /\ recoveryType' = IF recoveryType = "none" THEN "restart" ELSE recoveryType
  /\ UNCHANGED <<flags, initialException, bufferVars, stopVars, thread, crashed, owed>>

(* prepareForStop(), from surfaceDestroyed() or from stop().               *)
Stopping(from, to) ==
  /\ stopper \in from /\ stopper' = to
  /\ stopping' = TRUE
  /\ UNCHANGED <<recoveryVars, bufferVars, thread, crashed, owed, events>>

SurfaceDestroyed == Stopping({"idle"}, "preparing")
Stop == Stopping({"idle", "prepared"}, "stopping")

Withdraw ==
  /\ stopper \in {"preparing", "stopping"} /\ MonitorFree
  /\ stopper' = IF stopper = "preparing" THEN "prepared" ELSE "joining"
  /\ recoveryType' = "none"
  /\ UNCHANGED <<flags, attempts, initialException, bufferVars, stopping, thread, crashed,
                 owed, events>>

(* stop() joins the choreographer's looper and the renderer thread.        *)
Join ==
  /\ stopper = "joining" /\ \A t \in Threads \ {"input"} : thread[t].pc = "ended"
  /\ stopper' = "stopped"
  /\ UNCHANGED <<recoveryVars, bufferVars, stopping, thread, crashed, owed, events>>

-----------------------------------------------------------------------------
ExceptionStep(t) == Require(t) \/ Enough(t) \/ Exhausted(t)

BarrierStep(t) ==
  Pass(t) \/ Reach(t) \/ WaitForOthers(t) \/ BeginRecovery(t) \/ Recover(t)
  \/ RecoverWithoutSurface(t) \/ RecoverFails(t) \/ NothingToRecover(t) \/ Wake(t)

InputWork == Submit \/ Fetch \/ FetchNothing \/ Queue
RenderWork == RenderLoop \/ Output
FrameWork == DoFrame \/ Render \/ Quit
StopStep == Withdraw \/ Join

Next ==
  /\ ~crashed
  /\ \/ InputWork \/ RenderWork \/ FrameWork
     \/ \E t \in Threads : ExceptionStep(t) \/ BarrierStep(t)
     \/ \E t \in Threads, kind \in {"transient", "recoverable", "fatal"} :
          Ignored(t, kind) \/ Throws(t, kind)
     \/ SetHdrMode \/ SurfaceDestroyed \/ Stop \/ StopStep

(* The host keeps sending frames, codec calls return, and threads run on.  *)
Fairness ==
  /\ WF_vars(~crashed /\ InputWork) /\ WF_vars(~crashed /\ RenderWork)
  /\ WF_vars(~crashed /\ FrameWork) /\ WF_vars(~crashed /\ StopStep)
  /\ \A t \in Threads : /\ WF_vars(~crashed /\ ExceptionStep(t))
                        /\ WF_vars(~crashed /\ BarrierStep(t))

Spec == Init /\ [][Next]_vars /\ Fairness

-----------------------------------------------------------------------------
(* Every variable keeps its type, and recoveries are bounded (CR_MAX_TRIES). *)
TypeOK ==
  /\ recoveryType \in {"none", "restart", "reset"} /\ flags \subseteq All
  /\ attempts \in 0..MaxTries
  /\ \A t \in Threads : thread[t].pc \in
       {"loop", "codec", "require", "enough", "exhausted", "barrier", "enter", "wait",
        "recover", "ended"}
  /\ nextInputBuffer \in {"none", "fresh", "stale"}
  /\ outputBufferQueue \in Seq({"fresh", "stale"}) /\ Len(outputBufferQueue) <= OutputLimit

(* Until the decoder stops: while one thread recovers the codec, no other  *)
(* thread is inside a call of it or on its way to one.  (prepareForStop()  *)
(* lets threads out of the barrier with their flags set.)                  *)
RecoveryExclusive ==
  /\ TypeOK
  /\ ~stopping => \A t, u \in Threads : thread[t].pc = "recover" /\ u # t => thread[u].pc = "wait"

(* "Input and output buffers are invalidated by stop() and reset()" (627): *)
(* no buffer of the codec before a recovery is kept for the codec after it. *)
BuffersFresh ==
  /\ nextInputBuffer # "stale"
  /\ \A i \in DOMAIN outputBufferQueue : outputBufferQueue[i] = "fresh"

(* "always return false to ensure the caller will request an IDR frame"    *)
(* (1090, 1253): the first submitDecodeUnit() to return after a recovery    *)
(* asks for an IDR frame: the recovered codec refers to no earlier frame.  *)
IdrAfterRecovery ==
  [][owed /\ thread["input"].pc # "loop" /\ thread'["input"].pc = "loop" => ~owed']_vars

(* A thread that waits although its flag was reset: another recovery was   *)
(* required before it looked again.                                        *)
Forgotten == \E t \in Threads : thread[t].pc = "wait" /\ t \notin flags

(* A required recovery takes place, unless a thread was forgotten.         *)
RecoveryEnds ==
  recoveryType # "none" ~> (recoveryType = "none" \/ stopping \/ crashed \/ Forgotten)

(* "The recovery will take place when all threads reach                    *)
(* doCodecRecoveryIfRequired()" (806).                                     *)
RecoveryTakesPlace ==
  recoveryType # "none" ~> (recoveryType = "none" \/ stopping \/ crashed)

(* stop() returns, unless the choreographer thread waits for a recovery.   *)
StopEnds ==
  stopper = "joining" ~>
    (stopper # "joining" \/ crashed \/ (HasChoreographer /\ thread["choreographer"].pc = "wait"))

(* Nobody waits for ever for one of the other threads.                     *)
WaitsEnd == RecoveryEnds /\ StopEnds
=============================================================================
