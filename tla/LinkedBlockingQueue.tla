------------------------ MODULE LinkedBlockingQueue ------------------------
(***************************************************************************)
(* LinkedBlockingQueue.c: the bounded queue between the threads of the     *)
(* streaming core.  Video depacketizer -> decoder, audio receiver ->       *)
(* decoder, input callers -> input sender and frame-loss reports -> the    *)
(* reference frame invalidation thread each go through one.                *)
(*                                                                         *)
(* Every function takes the queue's mutex once, so the code between lock   *)
(* and unlock is one action.  PltSignalConditionVariable() is called after *)
(* the unlock and wakes one waiter: it is an action of its own, and other  *)
(* threads run between the two.  A thread in                               *)
(* PltWaitForConditionVariable() may also wake for no reason.              *)
(*                                                                         *)
(* An item stands for its entry and its data and is named by its place     *)
(* among the items accepted since the queue was initialized.               *)
(***************************************************************************)
EXTENDS Naturals, Sequences

CONSTANTS Producers,    \* threads that call LbqOfferQueueItem
          Consumers,    \* threads that call LbqWait-, LbqPoll- and LbqPeek-
          Controllers,  \* threads that flush, signal, destroy and initialize
          SizeBound,    \* sizeBound of LbqInitializeLinkedBlockingQueue
          MaxOffers     \* bound of the model: items accepted per lifetime

Threads == Producers \cup Consumers \cup Controllers

ASSUME SizeBoundAssumption == SizeBound \in Nat /\ MaxOffers \in Nat
ASSUME RolesAssumption == /\ Producers \cap Consumers = {}
                          /\ Consumers \cap Controllers = {}

VARIABLES
  initialized,     \* between LbqInitialize- and LbqDestroyLinkedBlockingQueue
  queue,           \* the list from head to tail
  currentSize, lifetimeSize,
  shutdown, draining, pendingUserWake,
  pc,              \* where each thread stands
  result,          \* what each thread's last call returned
  removed          \* history: the items that left the queue, in order

vars == <<initialized, queue, currentSize, lifetimeSize, shutdown, draining,
          pendingUserWake, pc, result, removed>>

contents == <<queue, currentSize, lifetimeSize, removed>>
flags == <<shutdown, draining, pendingUserWake>>

(* "signal": past the unlock, about to signal the condition variable;      *)
(* "waiting": asleep on it; "woken": to take the mutex and look again.     *)
PCs == {"idle", "signal", "waiting", "woken"}
Results == {"none", "SUCCESS", "INTERRUPTED", "BOUND_EXCEEDED", "NO_ELEMENT",
            "USER_WAKE"}

TypeOK ==
  /\ initialized \in BOOLEAN
  /\ queue \in Seq(Nat) /\ removed \in Seq(Nat)
  /\ currentSize \in Nat /\ lifetimeSize \in Nat
  /\ shutdown \in BOOLEAN /\ draining \in BOOLEAN /\ pendingUserWake \in BOOLEAN
  /\ pc \in [Threads -> PCs]
  /\ result \in [Threads -> Results]

Init ==
  /\ initialized = TRUE
  /\ queue = <<>> /\ removed = <<>>
  /\ currentSize = 0 /\ lifetimeSize = 0
  /\ shutdown = FALSE /\ draining = FALSE /\ pendingUserWake = FALSE
  /\ pc = [t \in Threads |-> "idle"]
  /\ result = [t \in Threads |-> "none"]

Waiting == {c \in Consumers : pc[c] = "waiting"}

Return(t, code) == result' = [result EXCEPT ![t] = code]
Goto(t, label) == pc' = [pc EXCEPT ![t] = label]

(* A call starts in a thread that is in no other call. *)
Calls(t) == initialized /\ pc[t] = "idle"

-----------------------------------------------------------------------------
(* The two list operations. *)

Dequeue ==
  /\ removed' = Append(removed, Head(queue))
  /\ queue' = Tail(queue)
  /\ currentSize' = currentSize - 1
  /\ UNCHANGED lifetimeSize

(* Mutant: the entry is linked before the head. *)
EnqueueAtHead ==
  /\ queue' = <<lifetimeSize + 1>> \o queue
  /\ currentSize' = currentSize + 1
  /\ lifetimeSize' = lifetimeSize + 1
  /\ UNCHANGED removed

Enqueue ==
  /\ queue' = Append(queue, lifetimeSize + 1)
  /\ currentSize' = currentSize + 1
  /\ lifetimeSize' = lifetimeSize + 1
  /\ UNCHANGED removed

TakeAll ==
  /\ removed' = removed \o queue
  /\ queue' = <<>>
  /\ currentSize' = 0
  /\ UNCHANGED lifetimeSize

-----------------------------------------------------------------------------
(* Offering: only the offer that finds the queue empty signals. *)

(* Mutant: wasEmpty is read after the entry was linked. *)
EmptyAfterLinking == queue' = <<>>
WasEmpty == queue = <<>>

(* Mutant: a draining queue still accepts items. *)
ClosedByShutdownOnly == shutdown
Closed == shutdown \/ draining

OfferQueueItem(t) ==
  /\ Calls(t)
  /\ \/ /\ Closed
        /\ Return(t, "INTERRUPTED")
        /\ UNCHANGED <<pc, contents>>
     \/ /\ ~Closed
        /\ currentSize = SizeBound
        /\ Return(t, "BOUND_EXCEEDED")
        /\ UNCHANGED <<pc, contents>>
     \/ /\ ~Closed
        /\ currentSize # SizeBound
        /\ lifetimeSize < MaxOffers
        /\ Enqueue
        /\ Return(t, "SUCCESS")
        /\ Goto(t, IF WasEmpty THEN "signal" ELSE "idle")
  /\ UNCHANGED <<initialized, flags>>

SignalConditionVariable(t) ==
  /\ pc[t] = "signal"
  /\ \/ /\ Waiting = {}
        /\ Goto(t, "idle")
     \/ \E w \in Waiting : pc' = [pc EXCEPT ![t] = "idle", ![w] = "woken"]
  /\ UNCHANGED <<initialized, contents, flags, result>>

-----------------------------------------------------------------------------
(* Consuming. *)

(* Mutant: draining does not end the wait. *)
WakeConditionWithoutDrain == queue # <<>> \/ shutdown \/ pendingUserWake
WakeCondition == queue # <<>> \/ draining \/ shutdown \/ pendingUserWake

(* The body of LbqWaitForQueueElement from the loop's test on. *)
WaitLoop(t) ==
  /\ \/ /\ ~WakeCondition
        /\ Goto(t, "waiting")
        /\ UNCHANGED <<contents, flags, result>>
     \/ /\ shutdown
        /\ Goto(t, "idle") /\ Return(t, "INTERRUPTED")
        /\ UNCHANGED <<contents, flags>>
     \/ /\ ~shutdown /\ pendingUserWake
        /\ pendingUserWake' = FALSE
        /\ Goto(t, "idle") /\ Return(t, "USER_WAKE")
        /\ UNCHANGED <<contents, shutdown, draining>>
     \/ /\ ~shutdown /\ ~pendingUserWake
        /\ draining /\ queue = <<>>
        /\ Goto(t, "idle") /\ Return(t, "INTERRUPTED")
        /\ UNCHANGED <<contents, flags>>
     \/ /\ ~shutdown /\ ~pendingUserWake
        /\ queue # <<>>
        /\ Dequeue
        /\ Goto(t, "idle") /\ Return(t, "SUCCESS")
        /\ UNCHANGED flags
  /\ UNCHANGED initialized

WaitForQueueElement(t) == Calls(t) /\ WaitLoop(t)

Reacquire(t) == pc[t] = "woken" /\ WaitLoop(t)

SpuriousWake(t) ==
  /\ pc[t] = "waiting"
  /\ Goto(t, "woken")
  /\ UNCHANGED <<initialized, contents, flags, result>>

EmptyResult == IF draining THEN "INTERRUPTED" ELSE "NO_ELEMENT"

(* Mutant: polling does not look at shutdown. *)
PollAfterShutdown(t) ==
  /\ Calls(t)
  /\ \/ queue = <<>> /\ Return(t, EmptyResult) /\ UNCHANGED contents
     \/ queue # <<>> /\ Dequeue /\ Return(t, "SUCCESS")
  /\ UNCHANGED <<initialized, flags, pc>>

PollQueueElement(t) ==
  /\ Calls(t)
  /\ \/ /\ shutdown
        /\ Return(t, "INTERRUPTED")
        /\ UNCHANGED contents
     \/ /\ ~shutdown /\ queue = <<>>
        /\ Return(t, EmptyResult)
        /\ UNCHANGED contents
     \/ /\ ~shutdown /\ queue # <<>>
        /\ Dequeue
        /\ Return(t, "SUCCESS")
  /\ UNCHANGED <<initialized, flags, pc>>

PeekQueueElement(t) ==
  /\ Calls(t)
  /\ Return(t, IF shutdown THEN "INTERRUPTED"
               ELSE IF queue = <<>> THEN EmptyResult ELSE "SUCCESS")
  /\ UNCHANGED <<initialized, contents, flags, pc>>

-----------------------------------------------------------------------------
(* Control. *)

FlushQueueItems(t) ==
  /\ Calls(t)
  /\ TakeAll
  /\ UNCHANGED <<initialized, flags, pc, result>>

SignalQueueShutdown(t) ==
  /\ Calls(t)
  /\ shutdown' = TRUE
  /\ Goto(t, "signal")
  /\ UNCHANGED <<initialized, contents, draining, pendingUserWake, result>>

SignalQueueDrain(t) ==
  /\ Calls(t)
  /\ draining' = TRUE
  /\ Goto(t, "signal")
  /\ UNCHANGED <<initialized, contents, shutdown, pendingUserWake, result>>

SignalQueueUserWake(t) ==
  /\ Calls(t)
  /\ pendingUserWake' = TRUE
  /\ Goto(t, "signal")
  /\ UNCHANGED <<initialized, contents, shutdown, draining, result>>

(* The owner destroys the queue once it has joined every thread that uses  *)
(* it and closed it, or never used it: the assertion is its precondition.  *)
DestroyLinkedBlockingQueue(t) ==
  /\ initialized
  /\ \A u \in Threads : pc[u] = "idle"
  /\ shutdown \/ draining \/ lifetimeSize = 0
  /\ initialized' = FALSE
  /\ TakeAll
  /\ UNCHANGED <<flags, pc, result>>

(* The queues are static: the next connection initializes the same memory. *)
InitializeLinkedBlockingQueue(t) ==
  /\ ~initialized
  /\ initialized' = TRUE
  /\ queue' = <<>> /\ removed' = <<>>
  /\ currentSize' = 0 /\ lifetimeSize' = 0
  /\ shutdown' = FALSE /\ draining' = FALSE /\ pendingUserWake' = FALSE
  /\ result' = [u \in Threads |-> "none"]
  /\ UNCHANGED pc

-----------------------------------------------------------------------------
Produce(t) == OfferQueueItem(t)

Consume(t) ==
  \/ WaitForQueueElement(t) \/ Reacquire(t) \/ SpuriousWake(t)
  \/ PollQueueElement(t) \/ PeekQueueElement(t)

Control(t) ==
  \/ FlushQueueItems(t)
  \/ SignalQueueShutdown(t) \/ SignalQueueDrain(t) \/ SignalQueueUserWake(t)
  \/ DestroyLinkedBlockingQueue(t) \/ InitializeLinkedBlockingQueue(t)

Next ==
  \/ \E t \in Producers : Produce(t)
  \/ \E t \in Consumers : Consume(t)
  \/ \E t \in Controllers : Control(t)
  \/ \E t \in Threads : SignalConditionVariable(t)

Spec == Init /\ [][Next]_vars

(* A thread that left the critical section reaches its signal, and one     *)
(* that was woken gets the mutex: nobody holds it for long.                *)
Fairness ==
  /\ \A t \in Threads : WF_vars(SignalConditionVariable(t))
  /\ \A t \in Consumers : WF_vars(Reacquire(t))

FairSpec == Spec /\ Fairness

-----------------------------------------------------------------------------
(* Properties. *)

(* Every accepted item leaves the queue at most once, in the order of the  *)
(* offers, whichever threads offer, take and flush; and the counters agree *)
(* with the list and with the bound, as the LC_ASSERTs of Offer, Poll,     *)
(* Wait and Flush expect.                                                  *)
FifoExactlyOnce ==
  /\ Len(removed) + Len(queue) = lifetimeSize
  /\ \A i \in 1..Len(removed) : removed[i] = i
  /\ \A i \in 1..Len(queue) : queue[i] = Len(removed) + i
  /\ currentSize = Len(queue)
  /\ currentSize <= SizeBound

(* A consumer asleep on the condition variable while there is something to *)
(* wake up for has a signal on its way, although only the offer that finds *)
(* the queue empty signals.  (For one consumer: a signal wakes one waiter, *)
(* so a second one could sleep on while an item is queued.)                *)
NoStrandedWaiter ==
  Waiting # {} /\ WakeCondition => \E t \in Threads : pc[t] = "signal"

(* Draining loses nothing: the consumer that is told to stop because of it *)
(* leaves no accepted item behind, then or later.                          *)
DrainLosesNothing ==
  \A c \in Consumers :
    result[c] = "INTERRUPTED" /\ ~shutdown => draining /\ queue = <<>>

(* A blocked consumer returns once the queue is shut down or drained and   *)
(* the rest of it was taken or flushed, so that its thread can be joined.  *)
WaiterReturns ==
  \A c \in Consumers :
    pc[c] = "waiting" /\ (shutdown \/ draining) ~> pc[c] = "idle"

(* What the callers may rely on, without the threads. *)
Abstract ==
  INSTANCE ClosableFifo WITH
    Bound <- SizeBound, buf <- queue, gone <- removed,
    closed <- IF ~initialized THEN "destroyed"
              ELSE IF shutdown THEN "shut"
              ELSE IF draining THEN "draining" ELSE "open"

Implements == Abstract!Spec
=============================================================================
