---------------------------- MODULE InputStream ----------------------------
(***************************************************************************)
(* InputStream.c: client threads put events into packetQueue, the input    *)
(* send thread merges what can be merged and sends it on the control       *)
(* stream, and stopInputStream() has it drain the queue.  Packet holders   *)
(* are recycled through a free list.                                       *)
(*                                                                         *)
(* Of the control stream (ControlStream.c, ENet) the module keeps what the *)
(* input stream sees: whether the peer is connected and whether reliable   *)
(* data is in transit.  ENet reads acknowledgements only while some thread *)
(* services the host.                                                      *)
(*                                                                         *)
(* An event is [kind, tag, val].  Kind "key" stands for every event that   *)
(* is never merged (keys, buttons, unbatched scrolls); tag is the part of  *)
(* a controller packet that must agree (buttons, number, mask); val is the *)
(* rest, the coordinate of a motion, or the code points of a text, where 0 *)
(* is one with an invalid first byte.                                      *)
(***************************************************************************)
EXTENDS Integers, Sequences, FiniteSets

CONSTANTS Clients,             \* threads that call LiSend...()
          Scrollers,           \* the one of them that scrolls
          Events,              \* what each of them sends
          Early,               \* what was accepted before, or None: haptics are enabled
          Amounts,             \* what LiSendHighResScrollEvent() is called with
          WheelDelta,          \* LI_WHEEL_DELTA (120)
          DeltaMin, DeltaMax,  \* INT16_MIN, INT16_MAX
          QueueBound,          \* MAX_QUEUED_INPUT_PACKETS (150)
          ShortText,           \* the longest text that fits a PACKET_HOLDER
          Holders,             \* bound: addresses malloc() returns
          MaxCalls             \* bound: calls of the clients

ASSUME InputAssumption ==
  /\ WheelDelta \in Nat \ {0} /\ QueueBound \in Nat \ {0}
  /\ DeltaMin \in Int /\ DeltaMax \in Nat \ {0} /\ DeltaMin < 0
  /\ Holders \subseteq Nat \ {0} /\ 1 \in Holders
  /\ \E c \in Clients : Scrollers = {c}
  /\ Amounts \subseteq Int \ {0} /\ MaxCalls \in Nat


VARIABLES
  initialized, packetQueue, draining, freeList, freeListShut,
  packet,              \* what each holder contains
  batchedScrollDelta,
  client,              \* where each client is in its call
  sender,              \* inputSendThreadProc()
  stopper,             \* where LiStopConnection() and stopInputStream() are
  \* control stream
  connectionInterrupted, receiving, transit, connected,
  \* history
  calls,
  batch,               \* the events the sender's packet stands for
  delivered,           \* the packet sent last
  unheard,             \* the host has not acknowledged all input sent
  wheel                \* the scrolls since the direction changed

queueVars == <<packetQueue, draining, freeList, freeListShut, packet>>
clientVars == <<client, batchedScrollDelta, calls, wheel>>
sendVars == <<sender, batch, delivered>>
stopVars == <<stopper, initialized, connectionInterrupted>>
controlVars == <<receiving, transit, connected, unheard>>
vars == <<queueVars, clientVars, sendVars, stopVars, controlVars>>

Event(kind, tag, val) == [kind |-> kind, tag |-> tag, val |-> val]
None == Event("none", "", <<>>)
Freed == Event("freed", "", <<>>)   \* the address is not allocated
Blank == Event("blank", "", <<>>)   \* in the free list, or not yet filled

(* What can be sent, and what a holder contains.                           *)
Sent == (UNION {Events[c] : c \in Clients}) \cup (Early \ {None})
Kinds == {"key", "text", "controller", "move", "position"}
Contents == [kind : Kinds \cup {"scroll", "none", "freed", "blank"},
             tag : {e.tag : e \in Sent} \cup {""}, val : Seq(Int)]

ASSUME EventsAssumption ==
  \A e \in Sent :
    /\ e \in Contents /\ e.kind \in Kinds
    /\ e.kind = "move" => Len(e.val) = 1 /\ e.val[1] \in DeltaMin..DeltaMax

Sign(n) == IF n > 0 THEN 1 ELSE IF n < 0 THEN -1 ELSE 0
Abs(n) == Sign(n) * n

Idle == [pc |-> "idle", event |-> None, holder |-> 0]
Waiting == [pc |-> "wait", holder |-> 0, peeked |-> 0, total |-> 0, rest |-> <<>>]

Init ==
  /\ initialized = TRUE /\ draining = FALSE
  /\ freeList = <<>> /\ freeListShut = FALSE
  /\ \E e \in Early :
       /\ packetQueue = IF e = None THEN <<>> ELSE <<1>>
       /\ packet = [h \in Holders |-> IF h = 1 /\ e # None THEN e ELSE Freed]
  /\ batchedScrollDelta = 0
  /\ client = [c \in Clients |-> Idle]
  /\ sender = Waiting
  /\ stopper = "streaming" /\ connectionInterrupted = FALSE
  /\ receiving = TRUE /\ transit = "none" /\ connected = TRUE
  /\ calls = 0 /\ batch = <<>> /\ delivered = None /\ unheard = FALSE
  /\ wheel = [asked |-> 0, accepted |-> 0, exact |-> TRUE]

-----------------------------------------------------------------------------
(* Packet holders.                                                         *)

(* The free list takes back a holder of the standard size.                 *)
Keeps(h) ==
  /\ packet[h].kind = "text" => Len(packet[h].val) <= ShortText
  /\ ~freeListShut /\ Len(freeList) < QueueBound

(* freePacketHolder(): into the free list or to the heap.                  *)
ListWith(h) == IF Keeps(h) THEN Append(freeList, h) ELSE freeList
Without(contents, h) == [contents EXCEPT ![h] = IF Keeps(h) THEN Blank ELSE Freed]
FreePacketHolder(h) == freeList' = ListWith(h) /\ packet' = Without(packet, h)

(* An address that is not allocated.                                       *)
Malloc == CHOOSE h \in Holders : packet[h] = Freed

-----------------------------------------------------------------------------
(* The clients.                                                            *)

(* The scroll loop: another notch is sent while the batched delta holds a  *)
(* whole one.                                                              *)
ScrollOn(delta) ==
  IF Abs(delta) >= WheelDelta
  THEN [pc |-> "allocate", event |-> Event("scroll", "", <<Sign(delta) * WheelDelta>>),
        holder |-> 0]
  ELSE Idle

(* History: the scrolls start again when the direction changes.            *)
Asked(amount, exact) ==
  LET turned == wheel.asked * amount < 0 IN
  [asked |-> amount + (IF turned THEN 0 ELSE wheel.asked),
   accepted |-> IF turned THEN 0 ELSE wheel.accepted, exact |-> exact]

Call(c, e) ==
  /\ client[c].pc = "idle" /\ initialized /\ calls < MaxCalls
  /\ calls' = calls + 1
  /\ client' = [client EXCEPT ![c] = [pc |-> "allocate", event |-> e, holder |-> 0]]
  /\ UNCHANGED <<queueVars, batchedScrollDelta, wheel, sendVars, stopVars, controlVars>>

(* Mutant: the batched delta survives a change of direction.               *)
ScrollKeepingDelta(c, amount) ==
  /\ client[c].pc = "idle" /\ initialized /\ calls < MaxCalls
  /\ calls' = calls + 1
  /\ batchedScrollDelta' = batchedScrollDelta + amount
  /\ client' = [client EXCEPT ![c] = ScrollOn(batchedScrollDelta')]
  /\ wheel' = Asked(amount, client'[c].pc = "idle")
  /\ UNCHANGED <<queueVars, sendVars, stopVars, controlVars>>

(* LiSendHighResScrollEvent() to a host that needs batched scrolls.        *)
Scroll(c, amount) ==
  /\ client[c].pc = "idle" /\ initialized /\ calls < MaxCalls
  /\ calls' = calls + 1
  /\ batchedScrollDelta' =
       amount + (IF batchedScrollDelta * amount < 0 THEN 0 ELSE batchedScrollDelta)
  /\ client' = [client EXCEPT ![c] = ScrollOn(batchedScrollDelta')]
  /\ wheel' = Asked(amount, client'[c].pc = "idle")
  /\ UNCHANGED <<queueVars, sendVars, stopVars, controlVars>>

(* allocatePacketHolder(): a text is never put into a recycled holder.     *)
Recycles(c) == client[c].event.kind # "text"

(* The free list is shut, or malloc() has no memory.                       *)
AllocateFails(c) ==
  /\ client[c].pc = "allocate" /\ (Recycles(c) => freeListShut \/ freeList = <<>>)
  /\ client' = [client EXCEPT ![c] = Idle]
  /\ UNCHANGED <<queueVars, batchedScrollDelta, calls, wheel, sendVars, stopVars, controlVars>>

Fill(c, h) ==
  /\ client' = [client EXCEPT ![c].pc = "offer", ![c].holder = h]
  /\ packet' = [packet EXCEPT ![h] = client[c].event]
  /\ UNCHANGED <<packetQueue, draining, freeListShut, batchedScrollDelta, calls, wheel,
                 sendVars, stopVars, controlVars>>

AllocateRecycled(c) ==
  /\ client[c].pc = "allocate" /\ Recycles(c) /\ ~freeListShut /\ freeList # <<>>
  /\ Fill(c, Head(freeList)) /\ freeList' = Tail(freeList)

AllocateNew(c) ==
  /\ client[c].pc = "allocate" /\ (Recycles(c) => ~freeListShut /\ freeList = <<>>)
  /\ \E h \in Holders : packet[h] = Freed
  /\ Fill(c, Malloc) /\ UNCHANGED freeList

(* LbqOfferQueueItem() and what the callers do with its result.            *)
Offer(c) ==
  /\ client[c].pc = "offer" /\ ~draining /\ Len(packetQueue) < QueueBound
  /\ packetQueue' = Append(packetQueue, client[c].holder)
  /\ IF client[c].event.kind = "scroll"
     THEN LET amount == client[c].event.val[1] IN
          /\ batchedScrollDelta' = batchedScrollDelta - amount
          /\ client' = [client EXCEPT ![c] = ScrollOn(batchedScrollDelta')]
          /\ wheel' = [wheel EXCEPT !.accepted = @ + amount, !.exact = client'[c].pc = "idle"]
     ELSE /\ client' = [client EXCEPT ![c] = Idle]
          /\ UNCHANGED <<batchedScrollDelta, wheel>>
  /\ UNCHANGED <<draining, freeList, freeListShut, packet, calls, sendVars, stopVars,
                 controlVars>>

OfferFails(c) ==
  /\ client[c].pc = "offer" /\ (draining \/ Len(packetQueue) = QueueBound)
  /\ FreePacketHolder(client[c].holder)
  /\ client' = [client EXCEPT ![c] = Idle]
  /\ UNCHANGED <<packetQueue, draining, freeListShut, batchedScrollDelta, calls, wheel,
                 sendVars, stopVars, controlVars>>

-----------------------------------------------------------------------------
(* The input send thread.                                                  *)

Batched == {"controller", "move", "position"}

(* LbqWaitForQueueElement().                                               *)
Take ==
  /\ sender.pc = "wait" /\ packetQueue # <<>>
  /\ LET h == Head(packetQueue) IN
     /\ batch' = <<packet[h]>>
     /\ sender' = [Waiting EXCEPT !.holder = h,
          !.pc = IF packet[h].kind \in Batched THEN "peek"
                 ELSE IF packet[h].kind = "text" THEN "transit" ELSE "send",
          !.total = IF packet[h].kind = "move" THEN packet[h].val[1] ELSE 0,
          !.rest = IF packet[h].kind = "text" THEN packet[h].val ELSE <<>>]
  /\ packetQueue' = Tail(packetQueue)
  /\ UNCHANGED <<draining, freeList, freeListShut, packet, clientVars, delivered, stopVars,
                 controlVars>>

(* Mutant: a drained queue ends the thread only before the stop begins.    *)
EndsInterrupted ==
  /\ sender.pc = "wait" /\ packetQueue = <<>> /\ draining /\ stopper = "interrupted"
  /\ sender' = [sender EXCEPT !.pc = "drained"]
  /\ UNCHANGED <<queueVars, clientVars, batch, delivered, stopVars, controlVars>>

EndsDrained ==
  /\ sender.pc = "wait" /\ packetQueue = <<>> /\ draining
  /\ sender' = [sender EXCEPT !.pc = "drained"]
  /\ UNCHANGED <<queueVars, clientVars, batch, delivered, stopVars, controlVars>>

(* A 16-bit cast.                                                          *)
Short(n) == DeltaMin + ((n - DeltaMin) % (DeltaMax - DeltaMin + 1))

(* Mutant: no check for overflow.                                          *)
BatchesAnyMove(old, new) ==
  /\ old.kind \in Batched /\ new.kind = old.kind
  /\ old.kind = "controller" => new.tag = old.tag

(* The packet can be merged into the one in hand.                          *)
Batches(old, new) ==
  /\ old.kind \in Batched /\ new.kind = old.kind
  /\ old.kind = "controller" => new.tag = old.tag
  /\ old.kind = "move" => sender.total + new.val[1] \in DeltaMin..DeltaMax

Peek ==
  /\ sender.pc = "peek" /\ packetQueue # <<>>
  /\ Batches(packet[sender.holder], packet[Head(packetQueue)])
  /\ sender' = [sender EXCEPT !.pc = "poll", !.peeked = Head(packetQueue)]
  /\ UNCHANGED <<queueVars, clientVars, batch, delivered, stopVars, controlVars>>

(* Nothing more to merge; a motion gets its total.                         *)
EndBatch ==
  /\ sender.pc = "peek"
  /\ packetQueue # <<>> => ~Batches(packet[sender.holder], packet[Head(packetQueue)])
  /\ sender' = [sender EXCEPT !.pc = "send"]
  /\ packet' = IF packet[sender.holder].kind = "move"
               THEN [packet EXCEPT ![sender.holder].val = <<Short(sender.total)>>]
               ELSE packet
  /\ UNCHANGED <<packetQueue, draining, freeList, freeListShut, clientVars, batch, delivered,
                 stopVars, controlVars>>

(* Mutant: the holder that is replaced is not the one that is freed.       *)
PollFreeingNew ==
  /\ sender.pc = "poll" /\ packetQueue # <<>>
  /\ LET polled == Head(packetQueue)
         old == packet[sender.holder]
         new == packet[sender.peeked]
     IN  /\ sender' = [sender EXCEPT !.pc = "peek", !.peeked = 0,
              !.holder = IF old.kind = "position" THEN polled ELSE @,
              !.total = IF old.kind = "move" THEN @ + new.val[1] ELSE @]
         /\ freeList' = ListWith(polled)
         /\ packet' = Without(IF old.kind = "controller"
                              THEN [packet EXCEPT ![sender.holder].val = new.val]
                              ELSE packet, polled)
         /\ batch' = Append(batch, packet[polled])
  /\ packetQueue' = Tail(packetQueue)
  /\ UNCHANGED <<draining, freeListShut, clientVars, delivered, stopVars, controlVars>>

(* Merge the next packet: values come from the holder peeked at, the       *)
(* holder freed is the one polled; of two positions the new holder stays.  *)
Poll ==
  /\ sender.pc = "poll" /\ packetQueue # <<>>
  /\ LET polled == Head(packetQueue)
         old == packet[sender.holder]
         new == packet[sender.peeked]
         spare == IF old.kind = "position" THEN sender.holder ELSE polled
     IN  /\ sender' = [sender EXCEPT !.pc = "peek", !.peeked = 0,
              !.holder = IF old.kind = "position" THEN polled ELSE @,
              !.total = IF old.kind = "move" THEN @ + new.val[1] ELSE @]
         /\ freeList' = ListWith(spare)
         /\ packet' = Without(IF old.kind = "controller"
                              THEN [packet EXCEPT ![sender.holder].val = new.val]
                              ELSE packet, spare)
         /\ batch' = Append(batch, packet[polled])
  /\ packetQueue' = Tail(packetQueue)
  /\ UNCHANGED <<draining, freeListShut, clientVars, delivered, stopVars, controlVars>>

(* sendMessageEnet(): the message is in transit; what was acknowledged     *)
(* before is read while it is sent.                                        *)
SendMessage(p) ==
  /\ connected /\ delivered' = p
  /\ transit' = "unacknowledged" /\ unheard' = TRUE
  /\ UNCHANGED <<receiving, connected>>

Done(h) == FreePacketHolder(h) /\ UNCHANGED <<packetQueue, draining, freeListShut>>

Send ==
  /\ sender.pc = "send" /\ SendMessage(packet[sender.holder])
  /\ Done(sender.holder) /\ sender' = Waiting /\ batch' = <<>>
  /\ UNCHANGED <<clientVars, stopVars>>

(* The thread returns after a failure, and nobody empties the queue.       *)
SendFails ==
  /\ ~connected
  /\ \/ sender.pc = "send"
     \/ sender.pc = "split" /\ sender.rest # <<>> /\ Head(sender.rest) # 0
  /\ Done(sender.holder) /\ sender' = [Waiting EXCEPT !.pc = "failed"]
  /\ UNCHANGED <<clientVars, batch, delivered, stopVars, controlVars>>

(* Mutant: the text does not wait.                                         *)
TextAtOnce ==
  /\ sender.pc = "transit"
  /\ sender' = [sender EXCEPT !.pc = "split"]
  /\ UNCHANGED <<queueVars, clientVars, batch, delivered, stopVars, controlVars>>

(* A text waits until isControlDataInTransit() is false.  The other        *)
(* condition of the loop never ends it: nobody interrupts this thread.     *)
TextWaited ==
  /\ sender.pc = "transit" /\ (connected => transit = "none")
  /\ sender' = [sender EXCEPT !.pc = "split"]
  /\ UNCHANGED <<queueVars, clientVars, batch, delivered, stopVars, controlVars>>

(* The code points go out one by one.                                      *)
SendCodePoint ==
  /\ sender.pc = "split" /\ sender.rest # <<>> /\ Head(sender.rest) # 0
  /\ SendMessage([packet[sender.holder] EXCEPT !.val = <<Head(sender.rest)>>])
  /\ sender' = [sender EXCEPT !.rest = Tail(@)]
  /\ batch' = <<[batch[1] EXCEPT !.val = Tail(@)]>>
  /\ UNCHANGED <<queueVars, clientVars, stopVars>>

EndText ==
  /\ sender.pc = "split" /\ (sender.rest # <<>> => Head(sender.rest) = 0)
  /\ Done(sender.holder) /\ sender' = Waiting /\ batch' = <<>>
  /\ UNCHANGED <<clientVars, delivered, stopVars, controlVars>>

-----------------------------------------------------------------------------
(* The thread that stops the connection.                                   *)

(* LiStopConnection() cancels waits for the host first.                    *)
Interrupt ==
  /\ stopper = "streaming"
  /\ stopper' = "interrupted" /\ connectionInterrupted' = TRUE
  /\ UNCHANGED <<queueVars, clientVars, sendVars, initialized, controlVars>>

RefuseCalls ==
  /\ stopper = "interrupted"
  /\ stopper' = "refusing" /\ initialized' = FALSE
  /\ UNCHANGED <<queueVars, clientVars, sendVars, connectionInterrupted, controlVars>>

ShutFreeList ==
  /\ stopper = "refusing"
  /\ stopper' = "freeListShut" /\ freeListShut' = TRUE
  /\ UNCHANGED <<packetQueue, draining, freeList, packet, clientVars, sendVars, initialized,
                 connectionInterrupted, controlVars>>

Drain ==
  /\ stopper = "freeListShut"
  /\ stopper' = "joining" /\ draining' = TRUE
  /\ UNCHANGED <<packetQueue, freeList, freeListShut, packet, clientVars, sendVars, initialized,
                 connectionInterrupted, controlVars>>

Join ==
  /\ stopper = "joining" /\ sender.pc \in {"drained", "failed"}
  /\ stopper' = "stopped"
  /\ UNCHANGED <<queueVars, clientVars, sendVars, initialized, connectionInterrupted,
                 controlVars>>

(* destroyInputStream() frees what the two queues hold.  A client still in *)
(* its call would use a destroyed queue: here it has returned by then.     *)
Destroy ==
  /\ stopper = "stopped" /\ \A c \in Clients : client[c].pc = "idle"
  /\ stopper' = "destroyed"
  /\ packet' = [h \in Holders |->
       IF \E i \in DOMAIN packetQueue : packetQueue[i] = h THEN Freed
       ELSE IF \E i \in DOMAIN freeList : freeList[i] = h THEN Freed ELSE packet[h]]
  /\ packetQueue' = <<>> /\ freeList' = <<>> /\ batch' = <<>>
  /\ UNCHANGED <<draining, freeListShut, clientVars, sender, delivered, initialized,
                 connectionInterrupted, controlVars>>

-----------------------------------------------------------------------------
(* The control stream.                                                     *)

(* External: the host acknowledges what it received; the acknowledgement   *)
(* lies in the socket until the ENet host is serviced.                     *)
HostAcknowledges ==
  /\ connected /\ transit = "unacknowledged"
  /\ transit' = "acknowledged" /\ unheard' = FALSE
  /\ UNCHANGED <<queueVars, clientVars, sendVars, stopVars, receiving, connected>>

(* controlReceiveThreadFunc() services the host, but ends with the first   *)
(* round after the interruption.                                           *)
ReceiveThreadServes ==
  /\ receiving /\ connected /\ ~connectionInterrupted /\ transit = "acknowledged"
  /\ transit' = "none"
  /\ UNCHANGED <<queueVars, clientVars, sendVars, stopVars, receiving, connected, unheard>>

ReceiveThreadEnds ==
  /\ receiving /\ (connectionInterrupted \/ ~connected)
  /\ receiving' = FALSE
  /\ UNCHANGED <<queueVars, clientVars, sendVars, stopVars, transit, connected, unheard>>

(* lossStatsThreadFunc() goes on until the control stream is stopped,      *)
(* which is after the input stream.                                        *)
Ping ==
  /\ connected
  /\ transit' = "unacknowledged"
  /\ UNCHANGED <<queueVars, clientVars, sendVars, stopVars, receiving, connected, unheard>>

(* External: the peer disconnects or times out.                            *)
PeerLost ==
  /\ connected
  /\ connected' = FALSE /\ transit' = "none"
  /\ UNCHANGED <<queueVars, clientVars, sendVars, stopVars, receiving, unheard>>

(* Nothing is left to do.                                                  *)
Over == stopper = "destroyed" /\ ~connected /\ UNCHANGED vars

ClientStep(c) == AllocateFails(c) \/ AllocateRecycled(c) \/ AllocateNew(c) \/ Offer(c)
                 \/ OfferFails(c)

SenderStep == Take \/ EndsDrained \/ Peek \/ EndBatch \/ Poll \/ Send \/ SendFails
              \/ TextWaited \/ SendCodePoint \/ EndText

StopStep == RefuseCalls \/ ShutFreeList \/ Drain \/ Join \/ Destroy

ReceiveStep == ReceiveThreadServes \/ ReceiveThreadEnds

Next ==
  \/ \E c \in Clients : \E e \in Events[c] : Call(c, e)
  \/ \E c \in Scrollers, amount \in Amounts : Scroll(c, amount)
  \/ \E c \in Clients : ClientStep(c)
  \/ SenderStep \/ Interrupt \/ StopStep
  \/ HostAcknowledges \/ ReceiveStep \/ Ping \/ PeerLost \/ Over

(* Every thread runs on, and a connected host answers.                     *)
Fairness ==
  /\ \A c \in Clients : WF_vars(ClientStep(c))
  /\ WF_vars(SenderStep) /\ WF_vars(StopStep) /\ WF_vars(ReceiveStep)
  /\ WF_vars(HostAcknowledges) /\ WF_vars(Ping)

Spec == Init /\ [][Next]_vars /\ Fairness

-----------------------------------------------------------------------------
(* Every variable keeps its type.                                          *)
TypeOK ==
  /\ initialized \in BOOLEAN /\ draining \in BOOLEAN /\ freeListShut \in BOOLEAN
  /\ packetQueue \in Seq(Holders) /\ Len(packetQueue) <= QueueBound
  /\ freeList \in Seq(Holders) /\ Len(freeList) <= QueueBound
  /\ \A c \in Clients : client[c].pc \in {"idle", "allocate", "offer"}
  /\ sender.pc \in {"wait", "peek", "poll", "send", "transit", "split", "drained", "failed"}
  /\ stopper \in {"streaming", "interrupted", "refusing", "freeListShut", "joining", "stopped",
                  "destroyed"}
  /\ transit \in {"none", "unacknowledged", "acknowledged"}
  /\ \A h \in Holders : packet[h].kind = "move" => packet[h].val[1] \in DeltaMin..DeltaMax

(* A holder that is allocated is in exactly one place (a queue, the free   *)
(* list or the hands of one thread), and a freed one in none: nothing is   *)
(* used after it was freed, freed twice, shared or leaked, on every path of *)
(* a call, a merge, a failed send and a stop.                              *)
HoldersOwned ==
  TypeOK /\ LET Times(s, h) == Cardinality({i \in DOMAIN s : s[i] = h})
      Held(h) == Cardinality({c \in Clients : client[c].pc = "offer" /\ client[c].holder = h})
                 + (IF sender.holder = h THEN 1 ELSE 0)
  IN  \A h \in Holders :
        Times(packetQueue, h) + Times(freeList, h) + Held(h) = IF packet[h] = Freed THEN 0 ELSE 1

(* LiSendHighResScrollEvent() sends whole notches and keeps the rest: when *)
(* a call succeeds, the notches queued are those of everything asked for   *)
(* since the direction changed, calls that failed on a full queue included. *)
ScrollExact ==
  wheel.exact =>
    /\ Abs(wheel.asked - wheel.accepted) < WheelDelta
    /\ wheel.accepted * wheel.asked >= 0

(* "We need to make sure any previous keyboard events have been processed  *)
(* prior to sending these UTF-8 events" (InputStream.c:438): the first     *)
(* code point of a text leaves when the host has acknowledged all earlier  *)
(* input, or the peer is lost.                                             *)
TextAfterInput ==
  [][sender.pc = "transit" /\ sender'.pc = "split" => ~unheard \/ ~connected]_vars

(* What the callers are promised (InputLog): each packet sent is the merge *)
(* of the next run of accepted events, in order, and stopInputStream()     *)
(* returns only when all of them were sent, or a send failed.              *)
Log == INSTANCE InputLog WITH
  Events <- (UNION {Events[c] : c \in Clients}) \cup Early \cup
            {Event("scroll", "", <<WheelDelta>>), Event("scroll", "", <<-WheelDelta>>)},
  pending <- batch \o [i \in DOMAIN packetQueue |-> packet[packetQueue[i]]],
  phase <- IF stopper \in {"stopped", "destroyed"} THEN "returned"
           ELSE IF draining THEN "closed" ELSE "open",
  working <- sender.pc # "failed"

LogSpec == Log!Spec

(* stopInputStream() returns, unless the sender waits with a text.         *)
StopDrains == stopper = "joining" ~> (stopper # "joining" \/ sender.pc = "transit")

(* "This must be set to stop in a timely manner" (ControlStream.c:1220):   *)
(* once the connection is interrupted, stopInputStream() returns.          *)
StopReturns == stopper = "joining" ~> stopper # "joining"
=============================================================================
