------------------------ MODULE CodecRecoveryProofs ------------------------
(***************************************************************************)
(* Proofs about CodecRecovery, for any number of tries, output buffers and *)
(* events, with and without the choreographer thread.                      *)
(***************************************************************************)
EXTENDS CodecRecovery, SequenceTheorems, TLAPS

PCs == {"loop", "codec", "require", "enough", "exhausted", "barrier", "enter", "wait",
        "recover", "ended"}
Calls == {"none", "fetch", "prefetch", "queue", "output", "frame"}
Kinds == {"none", "transient", "recoverable", "fatal", "recreate"}
Buffers == {"fresh", "stale"}

ThreadStates == [pc : PCs, call : Calls, fine : BOOLEAN, kind : Kinds]
ThreadsOK == thread \in [Threads -> ThreadStates] /\ thread["input"].pc # "ended"

StateOK ==
  /\ recoveryType \in {"none", "restart", "reset"} /\ flags \subseteq All
  /\ attempts \in 0 .. MaxTries
  /\ stopping \in BOOLEAN /\ owed \in BOOLEAN
  /\ nextInputBuffer \in {"none"} \cup Buffers
  /\ outputBufferQueue \in Seq(Buffers) /\ Len(outputBufferQueue) <= OutputLimit

(* A thread whose flag is set is kept in the barrier.  Once the decoder    *)
(* stops it may have left with its flag set, but then it does no more work.*)
QuiescedIdle ==
  \A t \in Threads : t \in flags =>
    thread[t].pc \in {"wait", "recover"} \/ (stopping /\ thread[t].pc \in {"loop", "ended"})

(* One thread recovers, when all flags are set and the buffers are dropped. *)
OneRecovers ==
  \A t, u \in Threads : thread[t].pc = "recover" /\ thread[u].pc = "recover" => t = u
RecovererQuiesced ==
  \A t \in Threads : thread[t].pc = "recover" =>
    flags = All /\ nextInputBuffer = "none" /\ outputBufferQueue = <<>>

(* Nobody is inside the barrier for nothing, until the decoder stops.      *)
InsideForRecovery ==
  ~stopping => /\ flags # {} => recoveryType # "none"
               /\ \A t \in Threads : thread[t].pc = "enter" => recoveryType # "none"

(* A recovery that is required and has not begun has a try left.           *)
TryLeft ==
  /\ recoveryType # "none" /\ MonitorFree => attempts < MaxTries
  /\ \A t \in Threads : thread[t].pc = "require" => attempts < MaxTries

StoppingFirst == stopper # "idle" => stopping

(* The input thread learns of every recovery, as it is in the barrier then. *)
OwedInBarrier ==
  owed => \/ thread["input"].pc \in {"wait", "recover"}
          \/ stopping /\ thread["input"].pc = "loop"

IInv ==
  /\ ThreadsOK /\ StateOK /\ QuiescedIdle /\ OneRecovers /\ RecovererQuiesced
  /\ InsideForRecovery /\ TryLeft /\ StoppingFirst /\ BuffersFresh /\ OwedInBarrier

-----------------------------------------------------------------------------
(* How a thread moves.                                                     *)

LEMMA InputIsThread == "input" \in Threads /\ "render" \in Threads
BY DEF Threads

LEMMA Leaves ==
  ASSUME ThreadsOK, NEW t \in Threads, NEW recovered \in BOOLEAN, Leave(t, recovered)
  PROVE  /\ ThreadsOK'
         /\ \A u \in Threads \ {t} : thread'[u] = thread[u]
         /\ thread'[t].pc \in {"loop", "codec"} /\ (recovered => thread'[t].pc = "loop")
<1>1. PICK s \in ThreadStates : /\ thread' = [thread EXCEPT ![t] = s]
                               /\ s.pc \in {"loop", "codec"} /\ (recovered => s.pc = "loop")
  <2>1. /\ At("loop", "none") \in ThreadStates /\ At("loop", "none").pc = "loop"
        /\ At("codec", "queue") \in ThreadStates /\ At("codec", "queue").pc = "codec"
        /\ At("codec", "prefetch") \in ThreadStates /\ At("codec", "prefetch").pc = "codec"
    BY DEF At, ThreadStates, PCs, Calls, Kinds
  <2> QED
    BY <2>1 DEF Leave
<1> QED
  BY <1>1, InputIsThread DEF ThreadsOK

(* An exception was thrown, or nothing was fetched.                        *)
LEMMA Fails ==
  ASSUME ThreadsOK, NEW t \in Threads,
         thread' = [thread EXCEPT ![t].pc = "barrier", ![t].fine = FALSE]
  PROVE  /\ ThreadsOK' /\ thread'[t].pc = "barrier"
         /\ \A u \in Threads \ {t} : thread'[u] = thread[u]
<1>1. PICK s \in ThreadStates : thread' = [thread EXCEPT ![t] = s] /\ s.pc = "barrier"
  <2> DEFINE s == [[thread[t] EXCEPT !.pc = "barrier"] EXCEPT !.fine = FALSE]
  <2>1. s \in ThreadStates /\ s.pc = "barrier"
    BY DEF ThreadsOK, ThreadStates, PCs
  <2>2. thread' = [thread EXCEPT ![t] = s]
    BY DEF ThreadsOK
  <2> QED
    BY <2>1, <2>2
<1> QED
  BY <1>1, InputIsThread DEF ThreadsOK

-----------------------------------------------------------------------------
(* IInv is inductive.  One lemma for each group of actions.                *)

LEMMA InitIInv == Init => IInv
<1> SUFFICES ASSUME Init PROVE IInv
  OBVIOUS
<1>1. ThreadsOK /\ QuiescedIdle /\ OneRecovers /\ RecovererQuiesced /\ OwedInBarrier
  BY InputIsThread
  DEF Init, At, ThreadsOK, ThreadStates, PCs, Calls, Kinds, QuiescedIdle, OneRecovers,
      RecovererQuiesced, OwedInBarrier
<1>2. StateOK
  <2>1. outputBufferQueue \in Seq(Buffers) /\ Len(outputBufferQueue) <= OutputLimit
    BY CodecAssumption DEF Init
  <2>2. attempts \in 0 .. MaxTries
    BY CodecAssumption DEF Init
  <2> QED
    BY <2>1, <2>2 DEF Init, StateOK
<1>3. StoppingFirst /\ BuffersFresh
  BY DEF Init, StoppingFirst, BuffersFresh
<1>4. \A t \in Threads : thread[t].pc = "loop"
  BY DEF Init, At
<1>5. InsideForRecovery /\ TryLeft
  BY <1>4 DEF Init, InsideForRecovery, TryLeft
<1> QED
  BY <1>1, <1>2, <1>3, <1>5 DEF IInv

(* A thread that is not inside the barrier has no flag set, so that nobody *)
(* recovers.                                                               *)
LEMMA Outside ==
  ASSUME IInv, NEW t \in Threads,
         thread[t].pc \in {"codec", "require", "enough", "exhausted", "barrier", "enter"}
  PROVE  t \notin flags /\ MonitorFree
<1>1. t \notin flags
  BY DEF IInv, QuiescedIdle
<1>2. t \in All
  BY DEF Threads, All
<1> QED
  BY <1>1, <1>2 DEF IInv, RecovererQuiesced, MonitorFree

(* Such a thread goes on to the barrier.                                   *)
LEMMA WorkIInv ==
  ASSUME IInv, NEW t \in Threads,
         thread[t].pc \in {"codec", "require", "enough", "exhausted"},
         thread'[t].pc \in {"require", "exhausted", "barrier"},
         thread'[t].pc = "require" => attempts < MaxTries,
         \A u \in Threads \ {t} : thread'[u] = thread[u],
         UNCHANGED <<recoveryType, flags, attempts, stopVars, owed>>,
         ThreadsOK', StateOK', BuffersFresh'
  PROVE  IInv'
<1>1. t \notin flags /\ MonitorFree
  BY Outside
<1>2. QuiescedIdle'
  BY <1>1 DEF IInv, QuiescedIdle, stopVars
<1>3. MonitorFree'
  BY <1>1 DEF MonitorFree
<1>4. OneRecovers' /\ RecovererQuiesced'
  BY <1>3 DEF OneRecovers, RecovererQuiesced, MonitorFree
<1>5. InsideForRecovery' /\ StoppingFirst'
  BY DEF IInv, InsideForRecovery, StoppingFirst, stopVars
<1>6. TryLeft'
  BY <1>1, <1>3 DEF IInv, TryLeft
<1>7. OwedInBarrier'
  BY InputIsThread DEF IInv, OwedInBarrier, stopVars
<1> QED
  BY <1>2, <1>4, <1>5, <1>6, <1>7 DEF IInv

(* The recovery ends.                                                      *)
LEMMA EndRecoveryIInv ==
  ASSUME IInv, NEW t \in Threads, thread[t].pc = "recover", EndRecovery(t),
         stopping' \in BOOLEAN, stopping => stopping',
         UNCHANGED <<attempts, stopper>>,
         nextInputBuffer' = "none" /\ outputBufferQueue' = <<>>
  PROVE  IInv'
<1>1. /\ ThreadsOK' /\ thread'[t].pc = "loop"
      /\ \A u \in Threads \ {t} : thread'[u] = thread[u]
  BY Leaves DEF IInv, EndRecovery
<1>2. StateOK'
  <2>1. owed' \in BOOLEAN
    BY DEF EndRecovery, Leave, IInv, StateOK, ThreadsOK, ThreadStates
  <2>2. outputBufferQueue' \in Seq(Buffers) /\ Len(outputBufferQueue') <= OutputLimit
    BY CodecAssumption
  <2> QED
    BY <2>1, <2>2 DEF IInv, StateOK, EndRecovery
<1>3. MonitorFree'
  BY <1>1 DEF IInv, OneRecovers, MonitorFree
<1>4. QuiescedIdle' /\ OneRecovers' /\ RecovererQuiesced'
  BY <1>3 DEF QuiescedIdle, OneRecovers, RecovererQuiesced, MonitorFree, EndRecovery
<1>5. InsideForRecovery' /\ TryLeft' /\ StoppingFirst' /\ BuffersFresh'
  <2>1. \A u \in Threads : thread[u].pc \in {"wait", "recover", "loop", "ended"}
    <3>1. Threads \subseteq flags
      BY DEF IInv, RecovererQuiesced, Threads, All
    <3> QED
      BY <3>1 DEF IInv, QuiescedIdle
  <2>2. \A u \in Threads : thread'[u].pc \in {"wait", "recover", "loop", "ended"}
    BY <1>1, <2>1
  <2> QED
    BY <2>2 DEF IInv, InsideForRecovery, TryLeft, StoppingFirst, BuffersFresh, EndRecovery
<1>6. OwedInBarrier'
  <2>1. CASE t = "input"
    <3>1. ~owed'
      BY <2>1 DEF EndRecovery, Leave
    <3> QED
      BY <3>1 DEF OwedInBarrier
  <2>2. CASE t # "input"
    BY <2>2, <1>1, InputIsThread DEF EndRecovery, Leave, IInv, OwedInBarrier
  <2> QED
    BY <2>1, <2>2
<1> QED
  BY <1>1, <1>2, <1>4, <1>5, <1>6 DEF IInv

LEMMA FetchIInv ==
  ASSUME IInv, Fetch
  PROVE  IInv'
<1>1. /\ ThreadsOK' /\ thread'["input"].pc = "barrier"
      /\ \A u \in Threads \ {"input"} : thread'[u] = thread[u]
  BY InputIsThread DEF Fetch, Goes, IInv, ThreadsOK, ThreadStates, PCs
<1>2. StateOK' /\ BuffersFresh'
  BY DEF Fetch, IInv, StateOK, BuffersFresh, Buffers, recoveryVars, stopVars
<1> QED
  BY <1>1, <1>2, InputIsThread, WorkIInv DEF Fetch, recoveryVars

LEMMA OutputIInv ==
  ASSUME IInv, Output
  PROVE  IInv'
<1>1. /\ ThreadsOK' /\ thread'["render"].pc = "barrier"
      /\ \A u \in Threads \ {"render"} : thread'[u] = thread[u]
  BY InputIsThread DEF Output, Goes, IInv, ThreadsOK, ThreadStates, PCs
<1>2. /\ outputBufferQueue' \in Seq(Buffers) /\ Len(outputBufferQueue') <= OutputLimit
      /\ \A i \in DOMAIN outputBufferQueue' : outputBufferQueue'[i] = "fresh"
  <2> DEFINE q == outputBufferQueue
             r == IF Len(q) = OutputLimit THEN Tail(q) ELSE q
  <2>1. /\ q \in Seq(Buffers) /\ Len(q) \in Nat /\ Len(q) <= OutputLimit
        /\ \A i \in 1 .. Len(q) : q[i] = "fresh"
    BY DEF IInv, StateOK, BuffersFresh
  <2>2. OutputLimit \in Nat \ {0}
    BY CodecAssumption
  <2>3. /\ r \in Seq(Buffers) /\ Len(r) \in Nat /\ Len(r) < OutputLimit
        /\ \A i \in 1 .. Len(r) : r[i] = "fresh"
    <3>1. CASE Len(q) = OutputLimit
      BY <3>1, <2>1, <2>2
    <3>2. CASE Len(q) # OutputLimit
      BY <3>2, <2>1, <2>2
    <3> QED
      BY <3>1, <3>2
  <2> HIDE DEF r
  <2>4. /\ Append(r, "fresh") \in Seq(Buffers) /\ Len(Append(r, "fresh")) = Len(r) + 1
        /\ \A i \in 1 .. Len(r) + 1 : Append(r, "fresh")[i] = "fresh"
    BY <2>3 DEF Buffers
  <2>5. outputBufferQueue' = q \/ outputBufferQueue' = Append(r, "fresh")
    BY DEF Output, r
  <2>6. CASE outputBufferQueue' = q
    BY <2>1, <2>6
  <2>7. CASE outputBufferQueue' = Append(r, "fresh")
    <3> DEFINE a == Append(r, "fresh")
    <3>1. a \in Seq(Buffers) /\ Len(a) <= OutputLimit
      BY <2>2, <2>3, <2>4
    <3>2. DOMAIN a = 1 .. Len(r) + 1
      BY <2>4
    <3> HIDE DEF a
    <3> QED
      BY <2>4, <2>7, <3>1, <3>2 DEF a
  <2> QED
    BY <2>5, <2>6, <2>7
<1>3. StateOK' /\ BuffersFresh'
  BY <1>2 DEF Output, IInv, StateOK, BuffersFresh, recoveryVars, stopVars
<1> QED
  BY <1>1, <1>3, InputIsThread, WorkIInv DEF Output, recoveryVars

LEMMA InputWorkIInv ==
  ASSUME IInv, InputWork
  PROVE  IInv'
<1> USE DEF IInv, StateOK, QuiescedIdle, OneRecovers, RecovererQuiesced,
            InsideForRecovery, TryLeft, StoppingFirst, BuffersFresh, OwedInBarrier,
            MonitorFree, All, Goes, recoveryVars, bufferVars, stopVars
<1>1. CASE Submit
  BY <1>1, CodecAssumption
  DEF Submit, ThreadsOK, ThreadStates, PCs, Calls, Kinds, Threads, At
<1>2. CASE Fetch
  BY <1>2, FetchIInv
<1>3. CASE FetchNothing
  <2>1. /\ ThreadsOK'
        /\ \A u \in Threads \ {"input"} : thread'[u] = thread[u]
        /\ thread'["input"].pc = "barrier"
    BY <1>3, Fails, InputIsThread DEF FetchNothing
  <2> QED
    BY <1>3, <2>1, InputIsThread, CodecAssumption, ZenonT(30) DEF FetchNothing
<1>4. CASE Queue
  BY <1>4, CodecAssumption DEF Queue, ThreadsOK, ThreadStates, PCs, Threads
<1> QED
  BY <1>1, <1>2, <1>3, <1>4 DEF InputWork

LEMMA RenderWorkIInv ==
  ASSUME IInv, RenderWork
  PROVE  IInv'
<1> USE DEF IInv, StateOK, QuiescedIdle, OneRecovers, RecovererQuiesced,
            InsideForRecovery, TryLeft, StoppingFirst, BuffersFresh, OwedInBarrier,
            MonitorFree, All, Goes, recoveryVars, bufferVars, stopVars
<1>1. CASE RenderLoop
  BY <1>1, CodecAssumption
  DEF RenderLoop, ThreadsOK, ThreadStates, PCs, Calls, Kinds, Threads, At
<1>2. CASE Output
  BY <1>2, OutputIInv
<1> QED
  BY <1>1, <1>2 DEF RenderWork

LEMMA FrameWorkIInv ==
  ASSUME IInv, FrameWork
  PROVE  IInv'
<1> USE DEF IInv, StateOK, QuiescedIdle, OneRecovers, RecovererQuiesced,
            InsideForRecovery, TryLeft, StoppingFirst, BuffersFresh, OwedInBarrier,
            MonitorFree, All, Goes, recoveryVars, bufferVars, stopVars
<1>1. CASE DoFrame
  BY <1>1, CodecAssumption
  DEF DoFrame, ThreadsOK, ThreadStates, PCs, Calls, Kinds, Threads, At
<1>2. CASE Render
  BY <1>2, CodecAssumption DEF Render, ThreadsOK, ThreadStates, PCs, Threads
<1>3. CASE Quit
  BY <1>3, CodecAssumption
  DEF Quit, ThreadsOK, ThreadStates, PCs, Calls, Kinds, Threads, At
<1> QED
  BY <1>1, <1>2, <1>3 DEF FrameWork

LEMMA ThrowIInv ==
  ASSUME IInv, NEW t \in Threads, NEW kind \in {"transient", "recoverable", "fatal"},
         Ignored(t, kind) \/ Throws(t, kind)
  PROVE  IInv'
<1>1. CASE Ignored(t, kind)
  <2>1. /\ ThreadsOK' /\ thread'[t].pc = "barrier"
        /\ \A u \in Threads \ {t} : thread'[u] = thread[u]
    BY <1>1, Fails DEF Ignored, IInv
  <2>2. StateOK' /\ BuffersFresh'
    BY <1>1
    DEF Ignored, GivesUpBuffer, IInv, StateOK, BuffersFresh, recoveryVars, stopVars
  <2> QED
    BY <1>1, <2>1, <2>2, WorkIInv DEF Ignored, recoveryVars
<1>2. CASE Throws(t, kind)
  <2>1. /\ ThreadsOK' /\ thread'[t].pc \in {"require", "exhausted"}
        /\ thread'[t].pc = "require" => attempts < MaxTries
        /\ \A u \in Threads \ {t} : thread'[u] = thread[u]
    <3> DEFINE pc == IF attempts < MaxTries THEN "require" ELSE "exhausted"
               s == [thread[t] EXCEPT !.pc = pc, !.fine = FALSE, !.kind = kind]
    <3>1. s \in ThreadStates /\ s.pc = pc
      BY DEF IInv, ThreadsOK, ThreadStates, PCs, Kinds
    <3>2. thread' = [thread EXCEPT ![t] = s]
      BY <1>2 DEF Throws, IInv, ThreadsOK
    <3>3. pc \in {"require", "exhausted"} /\ (pc = "require" => attempts < MaxTries)
      OBVIOUS
    <3> HIDE DEF s, pc
    <3> QED
      BY <3>1, <3>2, <3>3, InputIsThread DEF IInv, ThreadsOK
  <2>2. StateOK' /\ BuffersFresh'
    BY <1>2 DEF Throws, IInv, StateOK, BuffersFresh, recoveryVars, bufferVars, stopVars
  <2> QED
    BY <1>2, <2>1, <2>2, WorkIInv DEF Throws, recoveryVars
<1> QED
  BY <1>1, <1>2

(* An exception was handled, and the thread goes to the barrier.           *)
LEMMA HandledThread ==
  ASSUME IInv, NEW t \in Threads, Handled(t)
  PROVE  /\ ThreadsOK' /\ thread'[t].pc = "barrier"
         /\ \A u \in Threads \ {t} : thread'[u] = thread[u]
<1>1. [thread[t] EXCEPT !.pc = "barrier", !.kind = "none"] \in ThreadStates
  BY DEF IInv, ThreadsOK, ThreadStates, PCs, Kinds
<1>2. thread' = [thread EXCEPT ![t] = [thread[t] EXCEPT !.pc = "barrier", !.kind = "none"]]
  BY DEF Handled, IInv, ThreadsOK
<1> QED
  BY <1>1, <1>2, InputIsThread DEF IInv, ThreadsOK

LEMMA ExceptionStepIInv ==
  ASSUME IInv, NEW t \in Threads, ExceptionStep(t)
  PROVE  IInv'
<1>1. CASE Require(t)
  BY <1>1, CodecAssumption
  DEF Require, GivesUpBuffer, Handled, Promoted, IInv, StateOK, QuiescedIdle, OneRecovers,
      RecovererQuiesced, InsideForRecovery, TryLeft, StoppingFirst, BuffersFresh,
      OwedInBarrier, Goes, stopVars, ThreadsOK, ThreadStates, PCs, Threads
<1>2. CASE Enough(t)
  <2>1. StateOK' /\ BuffersFresh'
    BY <1>2 DEF Enough, GivesUpBuffer, IInv, StateOK, BuffersFresh, recoveryVars, stopVars
  <2>2. thread[t].pc = "enough" /\ Handled(t)
    BY <1>2 DEF Enough
  <2> QED
    BY <1>2, <2>1, <2>2, HandledThread, WorkIInv DEF Enough, recoveryVars
<1>3. CASE Exhausted(t)
  <2>1. StateOK' /\ BuffersFresh'
    BY <1>3 DEF Exhausted, GivesUpBuffer, IInv, StateOK, BuffersFresh, stopVars
  <2>2. thread[t].pc = "exhausted" /\ Handled(t)
    BY <1>3 DEF Exhausted
  <2> QED
    BY <1>3, <2>1, <2>2, HandledThread, WorkIInv DEF Exhausted
<1> QED
  BY <1>1, <1>2, <1>3 DEF ExceptionStep

LEMMA BarrierStepIInv ==
  ASSUME IInv, NEW t \in Threads, BarrierStep(t)
  PROVE  IInv'
<1> USE DEF IInv, StateOK, QuiescedIdle, OneRecovers, RecovererQuiesced,
            InsideForRecovery, TryLeft, StoppingFirst, BuffersFresh, OwedInBarrier,
            MonitorFree, All, Goes, recoveryVars, bufferVars, stopVars
<1>1. CASE Pass(t)
  <2>1. /\ ThreadsOK'
        /\ \A u \in Threads \ {t} : thread'[u] = thread[u]
        /\ thread'[t].pc \in {"loop", "codec"}
    BY <1>1, Leaves, InputIsThread DEF Pass
  <2> QED
    BY <1>1, <2>1, InputIsThread, CodecAssumption DEF Pass, Leave
<1>2. CASE Reach(t)
  BY <1>2, CodecAssumption DEF Reach, ThreadsOK, ThreadStates, PCs, Threads
<1>3. CASE WaitForOthers(t)
  BY <1>3, CodecAssumption
  DEF WaitForOthers, Quiesced, ThreadsOK, ThreadStates, PCs, Threads
<1>4. CASE BeginRecovery(t)
  BY <1>4, CodecAssumption
  DEF BeginRecovery, Quiesced, ThreadsOK, ThreadStates, PCs, Threads
<1>5. CASE Recover(t)
  <2>1. outputBufferQueue' = <<>>
    BY <1>5 DEF Recover
  <2>2. stopping' = stopping /\ nextInputBuffer' = "none"
    BY <1>5 DEF Recover
  <2> QED
    BY <1>5, <2>1, <2>2, EndRecoveryIInv DEF Recover
<1>6. CASE RecoverWithoutSurface(t)
  BY <1>6, EndRecoveryIInv DEF RecoverWithoutSurface
<1>7. CASE RecoverFails(t)
  BY <1>7, CodecAssumption DEF RecoverFails, ThreadsOK, ThreadStates, Kinds, Threads
<1>8. CASE NothingToRecover(t)
  BY <1>8, EndRecoveryIInv DEF NothingToRecover
<1>9. CASE Wake(t)
  <2>1. /\ ThreadsOK'
        /\ \A u \in Threads \ {t} : thread'[u] = thread[u]
        /\ thread'[t].pc = "loop"
    BY <1>9, Leaves, InputIsThread DEF Wake, Interrupted
  <2> QED
    BY <1>9, <2>1, InputIsThread, CodecAssumption, ZenonT(30) DEF Wake, Interrupted, Leave
<1> QED
  BY <1>1, <1>2, <1>3, <1>4, <1>5, <1>6, <1>7, <1>8, <1>9 DEF BarrierStep

LEMMA OthersIInv ==
  ASSUME IInv, SetHdrMode \/ SurfaceDestroyed \/ Stop \/ StopStep
  PROVE  IInv'
<1> USE DEF IInv, StateOK, QuiescedIdle, OneRecovers, RecovererQuiesced,
            InsideForRecovery, TryLeft, StoppingFirst, BuffersFresh, OwedInBarrier,
            MonitorFree, All, Goes, recoveryVars, bufferVars, stopVars
<1>1. CASE SetHdrMode
  BY <1>1, CodecAssumption DEF SetHdrMode, ThreadsOK, Threads
<1>2. CASE SurfaceDestroyed
  BY <1>2, CodecAssumption DEF SurfaceDestroyed, Stopping, ThreadsOK, Threads
<1>3. CASE Stop
  BY <1>3, CodecAssumption DEF Stop, Stopping, ThreadsOK, Threads
<1>4. CASE Withdraw
  BY <1>4, CodecAssumption DEF Withdraw, ThreadsOK, Threads
<1>5. CASE Join
  BY <1>5, CodecAssumption
  DEF Join, ThreadsOK, ThreadStates, PCs, Calls, Kinds, Threads, At
<1> QED
  BY <1>1, <1>2, <1>3, <1>4, <1>5 DEF StopStep

LEMMA NextIInv == IInv /\ [Next]_vars => IInv'
<1> SUFFICES ASSUME IInv, [Next]_vars PROVE IInv'
  OBVIOUS
<1>1. CASE UNCHANGED vars
  BY <1>1
  DEF IInv, StateOK, QuiescedIdle, OneRecovers, RecovererQuiesced, InsideForRecovery,
      TryLeft, StoppingFirst, BuffersFresh, OwedInBarrier, ThreadsOK, MonitorFree, vars,
      recoveryVars, bufferVars, stopVars
<1>2. CASE InputWork \/ RenderWork \/ FrameWork
  BY <1>2, InputWorkIInv, RenderWorkIInv, FrameWorkIInv
<1>3. CASE \E t \in Threads : ExceptionStep(t) \/ BarrierStep(t)
  BY <1>3, ExceptionStepIInv, BarrierStepIInv
<1>4. CASE \E t \in Threads, kind \in {"transient", "recoverable", "fatal"} :
             Ignored(t, kind) \/ Throws(t, kind)
  BY <1>4, ThrowIInv
<1>5. CASE SetHdrMode \/ SurfaceDestroyed \/ Stop \/ StopStep
  BY <1>5, OthersIInv
<1> QED
  BY <1>1, <1>2, <1>3, <1>4, <1>5 DEF Next

LEMMA Invariant == Spec => []IInv
BY InitIInv, NextIInv, PTL DEF Spec

-----------------------------------------------------------------------------
(* Until the decoder stops, while one thread recovers the codec the others *)
(* wait in doCodecRecoveryIfRequired(); and every variable keeps its type, *)
(* so that there are at most CR_MAX_TRIES recoveries.                      *)
THEOREM Exclusive == Spec => []RecoveryExclusive
<1>1. IInv => TypeOK
  BY DEF IInv, StateOK, ThreadsOK, ThreadStates, PCs, Buffers, TypeOK
<1>2. IInv /\ ~stopping =>
        \A t, u \in Threads : thread[t].pc = "recover" /\ u # t => thread[u].pc = "wait"
  BY DEF IInv, RecovererQuiesced, QuiescedIdle, OneRecovers, Threads, All
<1> QED
  BY <1>1, <1>2, Invariant, PTL DEF RecoveryExclusive

(* prepareForStop() lets threads out of the barrier with their flags set:  *)
(* even then no thread is in a codec call, or handles what one threw,      *)
(* while another thread recovers the codec.                                *)
CallsExclusive ==
  \A t, u \in Threads : thread[t].pc = "recover" /\ u # t =>
    thread[u].pc \in {"wait", "loop", "ended"} /\ (thread[u].pc # "wait" => stopping)

THEOREM StopExclusive == Spec => []CallsExclusive
<1>1. IInv => CallsExclusive
  BY DEF IInv, RecovererQuiesced, QuiescedIdle, OneRecovers, Threads, All, CallsExclusive
<1> QED
  BY <1>1, Invariant, PTL

(* No buffer index of the codec before a recovery is kept for the codec    *)
(* after it.                                                               *)
THEOREM Fresh == Spec => []BuffersFresh
<1>1. IInv => BuffersFresh
  BY DEF IInv
<1> QED
  BY <1>1, Invariant, PTL

(* The first submitDecodeUnit() to return after a recovery asks for an IDR *)
(* frame.                                                                  *)
THEOREM IdrAsked == Spec => IdrAfterRecovery
<1>1. IInv /\ [Next]_vars =>
        [owed /\ thread["input"].pc # "loop" /\ thread'["input"].pc = "loop" => ~owed']_vars
  <2> SUFFICES ASSUME IInv, Next, owed, thread["input"].pc # "loop",
                      thread'["input"].pc = "loop"
               PROVE  ~owed'
    OBVIOUS
  <2>1. thread["input"].pc \in {"wait", "recover"}
    BY DEF IInv, OwedInBarrier
  <2>2. ASSUME NEW t \in Threads, Leave(t, TRUE)
        PROVE  ~owed'
    <3>1. CASE t = "input"
      BY <2>2, <3>1 DEF Leave
    <3>2. CASE t # "input"
      BY <2>2, <3>2, Leaves, InputIsThread DEF IInv
    <3> QED
      BY <3>1, <3>2
  <2>3. ASSUME NEW t \in Threads, thread[t].pc \notin {"wait", "recover"},
               \A u \in Threads \ {t} : thread'[u] = thread[u]
        PROVE  FALSE
    BY <2>1, <2>3, InputIsThread
  <2>4. ASSUME InputWork \/ RenderWork \/ FrameWork
        PROVE  FALSE
    BY <2>1, <2>4, InputIsThread
    DEF InputWork, RenderWork, FrameWork, Submit, Fetch, FetchNothing, Queue, RenderLoop,
        Output, DoFrame, Render, Quit, Goes, IInv, ThreadsOK, Threads
  <2>5. ASSUME NEW t \in Threads, ExceptionStep(t)
        PROVE  FALSE
    BY <2>1, <2>5, InputIsThread
    DEF ExceptionStep, Require, Enough, Exhausted, Handled, Goes, IInv, ThreadsOK
  <2>6. ASSUME NEW t \in Threads, BarrierStep(t)
        PROVE  ~owed'
    <3>1. CASE Pass(t)
      BY <2>3, <3>1, Leaves DEF Pass, IInv
    <3>2. CASE Reach(t) \/ WaitForOthers(t) \/ BeginRecovery(t) \/ RecoverFails(t)
      <4>1. CASE Reach(t) \/ WaitForOthers(t)
        BY <2>1, <2>3, <4>1, InputIsThread DEF Reach, WaitForOthers, Goes, IInv, ThreadsOK
      <4>2. CASE BeginRecovery(t)
        <5>1. thread[t].pc = "enter" /\ thread'[t].pc = "recover"
          BY <4>2 DEF BeginRecovery, IInv, ThreadsOK, ThreadStates
        <5> QED
          BY <4>2, <5>1, <2>1, InputIsThread DEF BeginRecovery, IInv, ThreadsOK
      <4>3. CASE RecoverFails(t)
        <5>1. thread'["input"].pc = thread["input"].pc
          BY <4>3, InputIsThread DEF RecoverFails, IInv, ThreadsOK, ThreadStates
        <5> QED
          BY <2>1, <5>1
      <4> QED
        BY <3>2, <4>1, <4>2, <4>3
    <3>3. CASE Recover(t) \/ RecoverWithoutSurface(t) \/ NothingToRecover(t) \/ Wake(t)
      BY <2>2, <3>3
      DEF Recover, RecoverWithoutSurface, NothingToRecover, Wake, EndRecovery
    <3> QED
      BY <2>6, <3>1, <3>2, <3>3 DEF BarrierStep
  <2>7. ASSUME NEW t \in Threads, NEW kind \in {"transient", "recoverable", "fatal"},
               Ignored(t, kind) \/ Throws(t, kind)
        PROVE  FALSE
    <3>1. \A u \in Threads \ {t} : thread'[u] = thread[u]
      BY <2>7, Fails DEF Ignored, Throws, IInv, ThreadsOK
    <3> QED
      BY <2>3, <2>7, <3>1 DEF Ignored, Throws
  <2>8. ASSUME SetHdrMode \/ SurfaceDestroyed \/ Stop \/ StopStep
        PROVE  FALSE
    BY <2>8 DEF SetHdrMode, SurfaceDestroyed, Stop, Stopping, StopStep, Withdraw, Join
  <2> QED
    BY <2>4, <2>5, <2>6, <2>7, <2>8 DEF Next
<1> QED
  BY <1>1, Invariant, PTL DEF Spec, IdrAfterRecovery

=============================================================================
