--------------------- MODULE LinkedBlockingQueueProofs ---------------------
(***************************************************************************)
(* Proofs about LinkedBlockingQueue, for any threads and any bound.        *)
(***************************************************************************)
EXTENDS LinkedBlockingQueue, SequenceTheorems, TLAPS

(* What is known of the list and its counters, *)
ContentsOK ==
  /\ queue \in Seq(Nat) /\ removed \in Seq(Nat)
  /\ currentSize \in Nat /\ lifetimeSize \in Nat
  /\ FifoExactlyOnce

(* and of the rest of the state. *)
ControlOK ==
  /\ initialized \in BOOLEAN
  /\ shutdown \in BOOLEAN /\ draining \in BOOLEAN /\ pendingUserWake \in BOOLEAN
  /\ pc \in [Threads -> PCs]
  /\ result \in [Threads -> Results]
  /\ ~initialized => \A t \in Threads : pc[t] = "idle"

(* TypeOK alone is not inductive: that currentSize stays a natural number  *)
(* when an item is taken needs its agreement with the list.                *)
IInv == ContentsOK /\ ControlOK

-----------------------------------------------------------------------------
(* The list operations keep the contents in order. *)

LEMMA Counters ==
  ASSUME ContentsOK
  PROVE  /\ Len(queue) \in Nat /\ Len(removed) \in Nat
         /\ Len(removed) + Len(queue) = lifetimeSize
         /\ currentSize = Len(queue) /\ currentSize <= SizeBound
BY LenProperties DEF ContentsOK, FifoExactlyOnce

LEMMA DequeueKeepsOrder ==
  ASSUME ContentsOK, queue # <<>>, Dequeue
  PROVE  ContentsOK'
<1>1. /\ Head(queue) \in Nat /\ Tail(queue) \in Seq(Nat)
      /\ Len(Tail(queue)) = Len(queue) - 1
      /\ \A i \in 1..Len(Tail(queue)) : Tail(queue)[i] = queue[i + 1]
  BY HeadTailProperties DEF ContentsOK
<1>2. Len(queue) \in Nat \ {0} /\ Len(removed) \in Nat
  BY EmptySeq, LenProperties DEF ContentsOK
<1>3. Head(queue) = Len(removed) + 1
  BY <1>2 DEF ContentsOK, FifoExactlyOnce
<1>4. /\ removed' \in Seq(Nat)
      /\ Len(removed') = Len(removed) + 1
      /\ \A i \in 1..Len(removed) : removed'[i] = removed[i]
      /\ removed'[Len(removed) + 1] = Len(removed) + 1
  BY <1>1, <1>2, <1>3 DEF ContentsOK, Dequeue
<1>5. ASSUME NEW i \in 1..Len(removed') PROVE removed'[i] = i
  <2>1. CASE i \in 1..Len(removed)
    BY <1>4, <2>1 DEF ContentsOK, FifoExactlyOnce
  <2>2. CASE i = Len(removed) + 1
    BY <1>4, <2>2
  <2> QED
    BY <1>2, <1>4, <2>1, <2>2
<1>6. \A i \in 1..Len(queue') : queue'[i] = Len(removed') + i
  BY <1>1, <1>2, <1>4 DEF ContentsOK, FifoExactlyOnce, Dequeue
<1>7. /\ Len(removed') + Len(queue') = lifetimeSize'
      /\ currentSize' = Len(queue') /\ currentSize' \in Nat
      /\ currentSize' <= SizeBound
  BY <1>1, <1>2, <1>4, Counters, SizeBoundAssumption DEF Dequeue
<1> QED
  BY <1>1, <1>4, <1>5, <1>6, <1>7 DEF ContentsOK, FifoExactlyOnce, Dequeue

LEMMA EnqueueKeepsOrder ==
  ASSUME ContentsOK, currentSize # SizeBound, Enqueue
  PROVE  ContentsOK'
<1>1. Len(queue) \in Nat /\ Len(removed) \in Nat
  BY LenProperties DEF ContentsOK
<1>2. /\ queue' \in Seq(Nat)
      /\ Len(queue') = Len(queue) + 1
      /\ \A i \in 1..Len(queue) : queue'[i] = queue[i]
      /\ queue'[Len(queue) + 1] = lifetimeSize + 1
  BY <1>1 DEF ContentsOK, Enqueue
<1>3. ASSUME NEW i \in 1..Len(queue') PROVE queue'[i] = Len(removed') + i
  <2>1. CASE i \in 1..Len(queue)
    BY <1>2, <2>1 DEF ContentsOK, FifoExactlyOnce, Enqueue
  <2>2. CASE i = Len(queue) + 1
    BY <1>1, <1>2, <2>2, Counters DEF Enqueue
  <2> QED
    BY <1>1, <1>2, <2>1, <2>2
<1>4. /\ Len(removed') + Len(queue') = lifetimeSize'
      /\ currentSize' = Len(queue') /\ currentSize' \in Nat
      /\ lifetimeSize' \in Nat /\ currentSize' <= SizeBound
  BY <1>1, <1>2, Counters, SizeBoundAssumption DEF Enqueue
<1> QED
  BY <1>2, <1>3, <1>4 DEF ContentsOK, FifoExactlyOnce, Enqueue

LEMMA TakeAllKeepsOrder ==
  ASSUME ContentsOK, TakeAll
  PROVE  ContentsOK'
<1>1. Len(queue) \in Nat /\ Len(removed) \in Nat
  BY LenProperties DEF ContentsOK
<1>2. /\ removed' \in Seq(Nat)
      /\ Len(removed') = Len(removed) + Len(queue)
      /\ \A i \in 1..Len(removed) + Len(queue) :
           removed'[i] = IF i <= Len(removed) THEN removed[i]
                         ELSE queue[i - Len(removed)]
  BY ConcatProperties DEF ContentsOK, TakeAll
<1>3. ASSUME NEW i \in 1..Len(removed') PROVE removed'[i] = i
  <2>1. CASE i \in 1..Len(removed)
    BY <1>1, <1>2, <2>1, i <= Len(removed) DEF ContentsOK, FifoExactlyOnce
  <2>2. CASE i \in Len(removed) + 1..Len(removed) + Len(queue)
    <3>1. i - Len(removed) \in 1..Len(queue)
      BY <1>1, <2>2
    <3>2. queue[i - Len(removed)] = Len(removed) + (i - Len(removed))
      BY <3>1 DEF ContentsOK, FifoExactlyOnce
    <3>3. removed'[i] = queue[i - Len(removed)]
      BY <1>1, <1>2, <2>2
    <3> QED
      BY <1>1, <2>2, <3>2, <3>3
  <2> QED
    BY <1>1, <1>2, <2>1, <2>2
<1>4. queue' \in Seq(Nat) /\ Len(queue') = 0
  BY EmptySeq DEF TakeAll
<1> QED
  BY <1>1, <1>2, <1>3, <1>4, SizeBoundAssumption
  DEF ContentsOK, FifoExactlyOnce, TakeAll

LEMMA UnchangedContents ==
  ASSUME ContentsOK, UNCHANGED contents
  PROVE  ContentsOK'
BY DEF ContentsOK, FifoExactlyOnce, contents

LEMMA EmptyContents ==
  ASSUME queue' = <<>>, removed' = <<>>, currentSize' = 0, lifetimeSize' = 0
  PROVE  ContentsOK'
BY EmptySeq, SizeBoundAssumption DEF ContentsOK, FifoExactlyOnce

-----------------------------------------------------------------------------
(* The invariant is inductive. *)

LEMMA InitIInv == Init => IInv
<1> SUFFICES ASSUME Init PROVE IInv
  OBVIOUS
<1>1. ContentsOK
  BY EmptySeq, SizeBoundAssumption DEF Init, ContentsOK, FifoExactlyOnce
<1>2. ControlOK
  BY DEF Init, ControlOK, PCs, Results
<1> QED
  BY <1>1, <1>2 DEF IInv

LEMMA WaitLoopIInv ==
  ASSUME IInv, NEW t \in Threads, WaitLoop(t), initialized
  PROVE  IInv'
<1>1. CASE ~WakeCondition /\ Goto(t, "waiting") /\ UNCHANGED <<contents, flags, result>>
  <2>1. ContentsOK'
    BY <1>1, UnchangedContents DEF IInv
  <2>2. ControlOK'
    BY <1>1 DEF IInv, ControlOK, Goto, flags, PCs, WaitLoop
  <2> QED
    BY <2>1, <2>2 DEF IInv
<1>2. CASE /\ Goto(t, "idle") /\ UNCHANGED contents
           /\ \/ Return(t, "INTERRUPTED") /\ UNCHANGED flags
              \/ /\ Return(t, "USER_WAKE") /\ pendingUserWake' = FALSE
                 /\ UNCHANGED <<shutdown, draining>>
  <2>1. ContentsOK'
    BY <1>2, UnchangedContents DEF IInv
  <2>2. ControlOK'
    BY <1>2 DEF IInv, ControlOK, Goto, Return, flags, PCs, Results, WaitLoop
  <2> QED
    BY <2>1, <2>2 DEF IInv
<1>3. CASE /\ queue # <<>> /\ Dequeue
           /\ Goto(t, "idle") /\ Return(t, "SUCCESS") /\ UNCHANGED flags
  <2>1. ContentsOK'
    BY <1>3, DequeueKeepsOrder DEF IInv
  <2>2. ControlOK'
    BY <1>3 DEF IInv, ControlOK, Goto, Return, flags, PCs, Results, WaitLoop
  <2> QED
    BY <2>1, <2>2 DEF IInv
<1> QED
  BY <1>1, <1>2, <1>3 DEF WaitLoop

LEMMA NextIInv == IInv /\ [Next]_vars => IInv'
<1> SUFFICES ASSUME IInv, [Next]_vars PROVE IInv'
  OBVIOUS
<1> USE DEF IInv
<1>1. ASSUME NEW t \in Producers, OfferQueueItem(t) PROVE IInv'
  <2> t \in Threads
    BY DEF Threads
  <2>1. ContentsOK'
    BY <1>1, EnqueueKeepsOrder, UnchangedContents DEF OfferQueueItem
  <2>2. ControlOK'
    BY <1>1 DEF OfferQueueItem, Calls, ControlOK, Goto, Return, flags, PCs, Results
  <2> QED
    BY <2>1, <2>2
<1>2. ASSUME NEW t \in Consumers, Consume(t) PROVE IInv'
  <2> t \in Threads
    BY DEF Threads
  <2>1. CASE WaitForQueueElement(t) \/ Reacquire(t)
    <3>1. initialized
      BY <2>1 DEF WaitForQueueElement, Reacquire, Calls, ControlOK
    <3> QED
      BY <2>1, <3>1, WaitLoopIInv DEF WaitForQueueElement, Reacquire
  <2>2. CASE SpuriousWake(t)
    <3>1. ContentsOK'
      BY <2>2, UnchangedContents DEF SpuriousWake
    <3>2. ControlOK'
      BY <2>2 DEF SpuriousWake, ControlOK, Goto, flags, PCs
    <3> QED
      BY <3>1, <3>2
  <2>3. CASE PollQueueElement(t)
    <3>1. ContentsOK'
      BY <2>3, UnchangedContents, DequeueKeepsOrder DEF PollQueueElement
    <3>2. ControlOK'
      BY <2>3 DEF PollQueueElement, ControlOK, Return, EmptyResult, flags, Results
    <3> QED
      BY <3>1, <3>2
  <2>4. CASE PeekQueueElement(t)
    <3>1. ContentsOK'
      BY <2>4, UnchangedContents DEF PeekQueueElement
    <3>2. ControlOK'
      BY <2>4 DEF PeekQueueElement, ControlOK, Return, EmptyResult, flags, Results
    <3> QED
      BY <3>1, <3>2
  <2> QED
    BY <1>2, <2>1, <2>2, <2>3, <2>4 DEF Consume
<1>3. ASSUME NEW t \in Controllers, Control(t) PROVE IInv'
  <2> t \in Threads
    BY DEF Threads
  <2>1. CASE FlushQueueItems(t) \/ DestroyLinkedBlockingQueue(t)
    <3>1. ContentsOK'
      BY <2>1, TakeAllKeepsOrder DEF FlushQueueItems, DestroyLinkedBlockingQueue
    <3>2. ControlOK'
      BY <2>1 DEF FlushQueueItems, DestroyLinkedBlockingQueue, ControlOK, flags
    <3> QED
      BY <3>1, <3>2
  <2>2. CASE \/ SignalQueueShutdown(t) \/ SignalQueueDrain(t)
             \/ SignalQueueUserWake(t)
    <3>1. ContentsOK'
      BY <2>2, UnchangedContents
      DEF SignalQueueShutdown, SignalQueueDrain, SignalQueueUserWake
    <3>2. ControlOK'
      BY <2>2 DEF SignalQueueShutdown, SignalQueueDrain, SignalQueueUserWake,
                  Calls, ControlOK, Goto, PCs
    <3> QED
      BY <3>1, <3>2
  <2>3. CASE InitializeLinkedBlockingQueue(t)
    <3>1. ContentsOK'
      BY <2>3, EmptyContents DEF InitializeLinkedBlockingQueue
    <3>2. ControlOK'
      BY <2>3 DEF InitializeLinkedBlockingQueue, ControlOK, Results
    <3> QED
      BY <3>1, <3>2
  <2> QED
    BY <1>3, <2>1, <2>2, <2>3 DEF Control
<1>4. ASSUME NEW t \in Threads, SignalConditionVariable(t) PROVE IInv'
  <2>1. ContentsOK'
    BY <1>4, UnchangedContents DEF SignalConditionVariable
  <2>2. ControlOK'
    BY <1>4 DEF SignalConditionVariable, Waiting, ControlOK, Goto, flags, PCs
  <2> QED
    BY <2>1, <2>2
<1>5. CASE UNCHANGED vars
  <2>1. ContentsOK'
    BY <1>5, UnchangedContents DEF vars, contents
  <2>2. ControlOK'
    BY <1>5 DEF vars, ControlOK
  <2> QED
    BY <2>1, <2>2
<1> QED
  BY <1>1, <1>2, <1>3, <1>4, <1>5 DEF Next, Produce

(* Type correctness. *)
THEOREM TypeCorrect == Spec => []TypeOK
<1>1. IInv => TypeOK
  BY DEF IInv, ContentsOK, ControlOK, TypeOK
<1> QED
  BY InitIInv, NextIInv, <1>1, PTL DEF Spec

(* No item is lost, duplicated or overtaken, however many threads offer,   *)
(* take and flush.                                                         *)
THEOREM Fifo == Spec => []FifoExactlyOnce
<1>1. IInv => FifoExactlyOnce
  BY DEF IInv, ContentsOK
<1> QED
  BY InitIInv, NextIInv, <1>1, PTL DEF Spec
-----------------------------------------------------------------------------
(* No lost wake-up, for the queues of the core: each has one consumer. *)

OneConsumer == \A c, d \in Consumers : c = d

LEMMA NextNoStranded ==
  OneConsumer /\ IInv /\ NoStrandedWaiter /\ [Next]_vars => NoStrandedWaiter'
<1> SUFFICES ASSUME OneConsumer, IInv, NoStrandedWaiter, [Next]_vars,
                    NEW c \in Consumers, pc'[c] = "waiting", WakeCondition'
             PROVE  \E t \in Threads : pc'[t] = "signal"
  BY DEF NoStrandedWaiter, Waiting
<1> USE DEF Threads
<1>0. pc \in [Threads -> PCs]
  BY DEF IInv, ControlOK
<1>1. ASSUME pc[c] = "waiting", WakeCondition,
             \A t \in Threads : pc[t] = "signal" => pc'[t] = "signal"
      PROVE  \E t \in Threads : pc'[t] = "signal"
  BY <1>1 DEF NoStrandedWaiter, Waiting
<1>2. ASSUME NEW t \in Producers, OfferQueueItem(t)
      PROVE  \E u \in Threads : pc'[u] = "signal"
  <2>1. pc[c] = "waiting"
    BY <1>0, <1>2 DEF OfferQueueItem, Goto, Calls
  <2>2. CASE queue = <<>> /\ Goto(t, "signal")
    BY <1>0, <2>2 DEF Goto
  <2>3. CASE WakeCondition
    BY <1>0, <1>1, <1>2, <2>1, <2>3 DEF OfferQueueItem, Goto, Calls
  <2> QED
    BY <1>2, <2>2, <2>3
    DEF OfferQueueItem, WasEmpty, WakeCondition, contents, flags
<1>3. ASSUME NEW t \in Consumers, Consume(t)
      PROVE  \E u \in Threads : pc'[u] = "signal"
  <2> t = c
    BY DEF OneConsumer
  <2>1. CASE WaitForQueueElement(t) \/ Reacquire(t)
    BY <1>0, <2>1 DEF WaitForQueueElement, Reacquire, WaitLoop, Goto,
                      WakeCondition, contents, flags
  <2>2. CASE SpuriousWake(t)
    BY <1>0, <2>2 DEF SpuriousWake, Goto
  <2>3. CASE PollQueueElement(t) \/ PeekQueueElement(t)
    BY <2>3 DEF PollQueueElement, PeekQueueElement, Calls
  <2> QED
    BY <1>3, <2>1, <2>2, <2>3 DEF Consume
<1>4. ASSUME NEW t \in Controllers, Control(t)
      PROVE  \E u \in Threads : pc'[u] = "signal"
  <2>1. CASE FlushQueueItems(t)
    BY <1>1, <2>1 DEF FlushQueueItems, TakeAll, WakeCondition, flags
  <2>2. CASE \/ SignalQueueShutdown(t) \/ SignalQueueDrain(t)
             \/ SignalQueueUserWake(t)
    BY <1>0, <2>2 DEF SignalQueueShutdown, SignalQueueDrain,
                      SignalQueueUserWake, Goto
  <2>3. CASE DestroyLinkedBlockingQueue(t)
    BY <2>3 DEF DestroyLinkedBlockingQueue
  <2>4. CASE InitializeLinkedBlockingQueue(t)
    BY <2>4 DEF InitializeLinkedBlockingQueue, WakeCondition
  <2> QED
    BY <1>4, <2>1, <2>2, <2>3, <2>4 DEF Control
<1>5. ASSUME NEW t \in Threads, SignalConditionVariable(t)
      PROVE  \E u \in Threads : pc'[u] = "signal"
  <2>1. pc[c] = "waiting"
    BY <1>0, <1>5 DEF SignalConditionVariable, Goto, Waiting
  <2>2. PICK w \in Waiting : pc' = [pc EXCEPT ![t] = "idle", ![w] = "woken"]
    BY <1>5, <2>1 DEF SignalConditionVariable, Waiting
  <2>3. w = c
    BY <2>2 DEF Waiting, OneConsumer
  <2> QED
    BY <1>0, <2>2, <2>3
<1>6. CASE UNCHANGED vars
  BY <1>1, <1>6 DEF vars, WakeCondition
<1> QED
  BY <1>2, <1>3, <1>4, <1>5, <1>6 DEF Next, Produce

(* A consumer never sleeps through the offer, shutdown, drain or user wake *)
(* that should wake it.                                                    *)
THEOREM NoLostWakeUp ==
  ASSUME OneConsumer
  PROVE  Spec => []NoStrandedWaiter
<1>1. Init => NoStrandedWaiter
  BY DEF Init, NoStrandedWaiter, WakeCondition
<1>2. IInv /\ NoStrandedWaiter /\ [Next]_vars => NoStrandedWaiter'
  BY NextNoStranded
<1> QED
  BY InitIInv, NextIInv, <1>1, <1>2, PTL DEF Spec

-----------------------------------------------------------------------------
(* Draining. *)

LEMMA NextDrain ==
  IInv /\ DrainLosesNothing /\ [Next]_vars => DrainLosesNothing'
<1> SUFFICES ASSUME IInv, DrainLosesNothing, [Next]_vars,
                    NEW c \in Consumers,
                    result'[c] = "INTERRUPTED", ~shutdown'
             PROVE  draining' /\ queue' = <<>>
  BY DEF DrainLosesNothing
<1> USE DEF Threads
<1>0. result \in [Threads -> Results] /\ shutdown \in BOOLEAN /\ queue \in Seq(Nat)
  BY DEF IInv, ControlOK, ContentsOK
<1>1. ASSUME result[c] = "INTERRUPTED", ~shutdown
      PROVE  draining /\ queue = <<>>
  BY <1>1 DEF DrainLosesNothing
<1>2. ASSUME NEW t \in Producers, OfferQueueItem(t)
      PROVE  draining' /\ queue' = <<>>
  <2>1. t # c
    BY RolesAssumption
  <2>2. result'[c] = result[c] /\ UNCHANGED flags
    BY <1>0, <1>2, <2>1 DEF OfferQueueItem, Return
  <2> QED
    BY <1>1, <1>2, <2>2 DEF OfferQueueItem, Closed, flags, contents
<1>3. ASSUME NEW t \in Consumers, Consume(t)
      PROVE  draining' /\ queue' = <<>>
  <2>1. CASE WaitForQueueElement(t) \/ Reacquire(t)
    <3>1. WaitLoop(t)
      BY <2>1 DEF WaitForQueueElement, Reacquire
    <3> QED
      BY <1>0, <1>1, <3>1 DEF WaitLoop, Return, Dequeue, contents, flags
  <2>2. CASE SpuriousWake(t)
    BY <1>1, <2>2 DEF SpuriousWake, contents, flags
  <2>3. CASE PollQueueElement(t) \/ PeekQueueElement(t)
    BY <1>0, <1>1, <2>3 DEF PollQueueElement, PeekQueueElement, Return,
                            EmptyResult, Dequeue, contents, flags
  <2> QED
    BY <1>3, <2>1, <2>2, <2>3 DEF Consume
<1>4. ASSUME NEW t \in Controllers, Control(t)
      PROVE  draining' /\ queue' = <<>>
  BY <1>0, <1>1, <1>4
  DEF Control, FlushQueueItems, TakeAll, DestroyLinkedBlockingQueue,
      SignalQueueShutdown, SignalQueueDrain, SignalQueueUserWake,
      InitializeLinkedBlockingQueue, contents, flags
<1>5. ASSUME NEW t \in Threads, SignalConditionVariable(t)
      PROVE  draining' /\ queue' = <<>>
  BY <1>1, <1>5 DEF SignalConditionVariable, contents, flags
<1>6. CASE UNCHANGED vars
  BY <1>1, <1>6 DEF vars
<1> QED
  BY <1>2, <1>3, <1>4, <1>5, <1>6 DEF Next, Produce

(* The consumer that a drain stops has seen every accepted item. *)
THEOREM DrainComplete == Spec => []DrainLosesNothing
<1>1. Init => DrainLosesNothing
  BY DEF Init, DrainLosesNothing, Threads
<1> QED
  BY InitIInv, NextIInv, NextDrain, <1>1, PTL DEF Spec

-----------------------------------------------------------------------------
(* The queue implements the closable FIFO. *)

LEMMA InitAbstract == Init => Abstract!Init
BY DEF Init, Abstract!Init

LEMMA DequeueIsTake ==
  ASSUME IInv, Dequeue, queue # <<>>, initialized, ~shutdown,
         UNCHANGED <<initialized, flags>>
  PROVE  Abstract!Take
BY DEF Dequeue, flags, Abstract!Take

LEMMA NextAbstract == IInv /\ [Next]_vars => [Abstract!Next]_(Abstract!vars)
<1> SUFFICES ASSUME IInv, [Next]_vars
             PROVE  Abstract!Next \/ UNCHANGED Abstract!vars
  OBVIOUS
<1>1. /\ Len(queue) \in Nat /\ Abstract!NextItem = lifetimeSize + 1
      /\ currentSize = Len(queue) /\ currentSize <= SizeBound
  BY Counters DEF IInv, Abstract!NextItem
<1>2. ASSUME NEW t \in Producers, OfferQueueItem(t)
      PROVE  Abstract!Next \/ UNCHANGED Abstract!vars
  <2>1. CASE UNCHANGED contents
    BY <1>2, <2>1 DEF OfferQueueItem, contents, flags, Abstract!vars
  <2>2. CASE ~Closed /\ currentSize # SizeBound /\ Enqueue
    <3>1. Len(queue) < SizeBound
      BY <1>1, <2>2, SizeBoundAssumption
    <3>2. Abstract!Put
      BY <1>1, <1>2, <2>2, <3>1
      DEF OfferQueueItem, Calls, Closed, Enqueue, flags, Abstract!Put
    <3> QED
      BY <3>2 DEF Abstract!Next
  <2> QED
    BY <1>2, <2>1, <2>2 DEF OfferQueueItem
<1>3. ASSUME NEW t \in Consumers, Consume(t), initialized
      PROVE  Abstract!Next \/ UNCHANGED Abstract!vars
  <2>1. CASE WaitForQueueElement(t) \/ Reacquire(t)
    <3>1. WaitLoop(t)
      BY <2>1 DEF WaitForQueueElement, Reacquire
    <3>2. CASE UNCHANGED <<contents, shutdown, draining>>
      BY <3>1, <3>2 DEF WaitLoop, contents, Abstract!vars
    <3>3. CASE ~shutdown /\ queue # <<>> /\ Dequeue /\ UNCHANGED flags
      BY <1>3, <3>1, <3>3, DequeueIsTake DEF WaitLoop, Abstract!Next
    <3> QED
      BY <3>1, <3>2, <3>3 DEF WaitLoop, flags
  <2>2. CASE SpuriousWake(t) \/ PeekQueueElement(t)
    BY <2>2 DEF SpuriousWake, PeekQueueElement, contents, flags, Abstract!vars
  <2>3. CASE PollQueueElement(t)
    <3>1. CASE UNCHANGED contents
      BY <2>3, <3>1 DEF PollQueueElement, contents, flags, Abstract!vars
    <3>2. CASE ~shutdown /\ queue # <<>> /\ Dequeue
      BY <1>3, <2>3, <3>2, DequeueIsTake DEF PollQueueElement, Abstract!Next
    <3> QED
      BY <2>3, <3>1, <3>2 DEF PollQueueElement
  <2> QED
    BY <1>3, <2>1, <2>2, <2>3 DEF Consume
<1>4. ASSUME NEW t \in Controllers, Control(t)
      PROVE  Abstract!Next \/ UNCHANGED Abstract!vars
  <2>1. CASE FlushQueueItems(t)
    BY <2>1 DEF FlushQueueItems, Calls, TakeAll, flags,
                Abstract!Next, Abstract!Discard
  <2>2. CASE SignalQueueShutdown(t) \/ SignalQueueDrain(t)
    BY <2>2 DEF SignalQueueShutdown, SignalQueueDrain, Calls, contents,
                IInv, ControlOK, Abstract!vars, Abstract!Next, Abstract!Close
  <2>3. CASE SignalQueueUserWake(t)
    BY <2>3 DEF SignalQueueUserWake, contents, Abstract!vars
  <2>4. CASE DestroyLinkedBlockingQueue(t)
    <3>1. lifetimeSize = 0 => Abstract!NextItem = 1
      BY <1>1
    <3> QED
      BY <2>4, <3>1 DEF DestroyLinkedBlockingQueue, TakeAll, flags,
                        Abstract!Next, Abstract!Destroy
  <2>5. CASE InitializeLinkedBlockingQueue(t)
    BY <2>5 DEF InitializeLinkedBlockingQueue, Abstract!Next, Abstract!Reopen
  <2> QED
    BY <1>4, <2>1, <2>2, <2>3, <2>4, <2>5 DEF Control
<1>5. ASSUME NEW t \in Threads, SignalConditionVariable(t)
      PROVE  Abstract!Next \/ UNCHANGED Abstract!vars
  BY <1>5 DEF SignalConditionVariable, contents, flags, Abstract!vars
<1>6. CASE UNCHANGED vars
  BY <1>6 DEF vars, Abstract!vars
<1> QED
  <2>1. ASSUME NEW t \in Consumers, Consume(t) PROVE initialized
    BY <2>1 DEF Consume, WaitForQueueElement, Reacquire, SpuriousWake,
                PollQueueElement, PeekQueueElement, Calls, IInv, ControlOK, Threads
  <2> QED
    BY <1>2, <1>3, <1>4, <1>5, <1>6, <2>1 DEF Next, Produce

(* What a caller sees of the queue is a closable FIFO. *)
THEOREM Refinement == Spec => Implements
<1> QED
  BY InitIInv, NextIInv, InitAbstract, NextAbstract, PTL
  DEF Spec, Implements, Abstract!Spec
=============================================================================
