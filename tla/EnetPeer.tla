------------------------------ MODULE EnetPeer ------------------------------
(***************************************************************************)
(* enet/peer.c and enet/protocol.c, as far as the control stream uses      *)
(* them: the one peer of a client, connected, with one channel of whole    *)
(* reliable packets.  enet_host_service() runs under a lock, so it is an   *)
(* operator from a peer to a peer.                                         *)
(*                                                                         *)
(* A command is [n, tried]: the sequence number of a packet of data, or    *)
(* Disconnecting, and whether it has been sent before.  A datagram is      *)
(* [kind, n] and carries one command; the unsequenced disconnect, which    *)
(* nobody acknowledges, is of the kind "leave".                            *)
(*                                                                         *)
(* Left out: the establishment of the connection; pings and the arithmetic *)
(* of time; unreliable packets, fragments and the wrap-around of sequence  *)
(* numbers; the acknowledgements of data received, which do not change the *)
(* peer.  What depends on the clock is an input of a round, "now":         *)
(* the numbers of the commands that have expired, whether the peer gives up *)
(* on its host, and the window, as the packet throttle leaves it.          *)
(***************************************************************************)
EXTENDS Integers, Sequences, FiniteSets, SequencesExt

CONSTANT Window   \* packets that may be in transit when nothing is throttled;
                  \* one always may (ENET_MAX(windowSize, mtu))
ASSUME WindowAssumption == Window \in Nat \ {0}

Disconnecting == 0
IsData(c) == c.n # Disconnecting
New(n) == [n |-> n, tried |-> FALSE]

Datagram(kind, n) == [kind |-> kind, n |-> n]
Carrying(c) == Datagram(IF IsData(c) THEN "data" ELSE "disconnect", c.n)

ConnectedPeer ==
  [state |-> "connected", outgoing |-> <<>>, sent |-> <<>>, inTransit |-> 0,
   lastIn |-> 0, early |-> {}, dispatched |-> <<>>, needsDispatch |-> FALSE,
   acknowledges |-> FALSE,   \* a disconnect is to be acknowledged
   event |-> "none", packet |-> 0, wire |-> {},   \* what a service brought and sent
   intercept |-> TRUE, disconnectPending |-> FALSE,
   timedOut |-> FALSE, left |-> FALSE]            \* history

Gone(p) == p.state \in {"disconnected", "zombie"}
CanSendOrDrains(p) == p.state \in {"connected", "disconnect_later"}
Drained(p) == p.outgoing = <<>> /\ p.sent = <<>>

-----------------------------------------------------------------------------
(* peer.c                                                                  *)

ResetQueues(p) ==
  [p EXCEPT !.needsDispatch = FALSE, !.acknowledges = FALSE, !.outgoing = <<>>,
            !.sent = <<>>, !.dispatched = <<>>, !.early = {}]

Reset(p) == [ResetQueues(p) EXCEPT !.state = "disconnected", !.inTransit = 0]

CanSend(p) == p.state = "connected"
Queue(p, n) == [p EXCEPT !.outgoing = Append(@, New(n))]

Disconnect(p) ==
  IF CanSendOrDrains(p)
  THEN [Queue(ResetQueues(p), Disconnecting) EXCEPT !.state = "disconnecting"]
  ELSE p

(* Mutant: what is queued is not waited for.                               *)
DisconnectAtOnce(p) == Disconnect(p)

DisconnectLater(p) ==
  IF CanSend(p) /\ ~Drained(p) THEN [p EXCEPT !.state = "disconnect_later"] ELSE Disconnect(p)

DisconnectNow(p) ==
  [Reset(p) EXCEPT !.wire = IF Gone(p) \/ p.state = "disconnecting" THEN {}
                            ELSE {Datagram("leave", Disconnecting)}]

(* The packets that are next in order wait to be dispatched; one that came *)
(* early waits for those before it.                                        *)
QueueIncoming(p, n) ==
  LET got == p.early \cup {n}
      last == CHOOSE m \in p.lastIn .. p.lastIn + Cardinality(got) :
                p.lastIn + 1 .. m \subseteq got /\ m + 1 \notin got
  IN  IF n <= p.lastIn THEN p
      ELSE [p EXCEPT !.lastIn = last, !.early = got \ (1 .. last),
                     !.dispatched = @ \o [i \in 1 .. last - p.lastIn |-> p.lastIn + i],
                     !.needsDispatch = @ \/ last > p.lastIn]

-----------------------------------------------------------------------------
(* protocol.c.  wanted: the caller of enet_host_service() takes events.    *)

DispatchState(p, state) == [p EXCEPT !.state = state, !.needsDispatch = TRUE]

DispatchIncoming(p) ==
  CASE ~p.needsDispatch -> p
    [] p.needsDispatch /\ p.state = "zombie" -> [Reset(p) EXCEPT !.event = "disconnect"]
    [] p.needsDispatch /\ p.state = "connected" /\ p.dispatched # <<>> ->
         [p EXCEPT !.event = "receive", !.packet = Head(p.dispatched),
                   !.dispatched = Tail(@), !.needsDispatch = Len(p.dispatched) > 1]
    [] OTHER -> [p EXCEPT !.needsDispatch = FALSE]

(* Mutant: the disconnect is not kept for a caller who takes events.        *)
NotifyNow(p, wanted) == [Reset(p) EXCEPT !.event = IF wanted THEN "disconnect" ELSE @]

NotifyDisconnect(p, wanted) ==
  IF wanted THEN [Reset(p) EXCEPT !.event = "disconnect"] ELSE DispatchState(p, "zombie")

(* Mutant: a command that expired leaves the transit a second time.         *)
RemoveSentTwice(p, n) ==
  LET Others(c) == c.n # n
      sent == SelectSeq(p.sent, Others)
      again == IF sent # p.sent THEN p.outgoing
               ELSE SelectSeq(p.outgoing, LAMBDA c : Others(c) \/ ~c.tried)
      found == sent # p.sent \/ again # p.outgoing
  IN  [p EXCEPT !.sent = sent, !.outgoing = again,
                !.inTransit = IF found /\ n # Disconnecting THEN @ - 1 ELSE @]

RemoveSent(p, n) ==
  LET Others(c) == c.n # n
      sent == SelectSeq(p.sent, Others)
  IN  IF sent # p.sent
      THEN [p EXCEPT !.sent = sent, !.inTransit = IF n = Disconnecting THEN @ ELSE @ - 1]
      ELSE [p EXCEPT !.outgoing = SelectSeq(@, LAMBDA c : Others(c) \/ ~c.tried)]

HandleAcknowledge(p, n, wanted) ==
  LET q == RemoveSent(p, n)
  IN  CASE q.state = "disconnecting" /\ n = Disconnecting /\ q # p -> NotifyDisconnect(q, wanted)
        [] q.state = "disconnect_later" /\ Drained(q) -> Disconnect(q)
        [] OTHER -> q

HandleSendReliable(p, n) == IF p.state = "connected" THEN QueueIncoming(p, n) ELSE p

(* A disconnect that is to be acknowledged, or one that is not ("leave").  *)
HandleDisconnect(p, kind) ==
  CASE p.state = "acknowledging_disconnect" -> p
    [] p.state = "disconnecting" -> DispatchState(ResetQueues(p), "zombie")
    [] CanSendOrDrains(p) /\ kind = "disconnect" ->
         [ResetQueues(p) EXCEPT !.state = "acknowledging_disconnect", !.acknowledges = TRUE]
    [] CanSendOrDrains(p) /\ kind = "leave" ->
         [DispatchState(ResetQueues(p), "zombie") EXCEPT !.left = TRUE]

(* The commands that have expired go back in front of the others.          *)
CheckTimeouts(p, expired) ==
  LET Expired(c) == c.n \in expired
      Current(c) == ~Expired(c)
      old == SelectSeq(p.sent, Expired)
  IN  [p EXCEPT !.sent = SelectSeq(@, Current),
                !.outgoing = [i \in DOMAIN old |-> [old[i] EXCEPT !.tried = TRUE]] \o @,
                !.inTransit = @ - Len(SelectSeq(old, IsData))]

CheckOutgoing(p, window) ==
  LET allowed == IF p.outgoing # <<>> /\ ~IsData(Head(p.outgoing)) THEN 1
                 ELSE Max({0, window - p.inTransit})
      room == Min({allowed, Len(p.outgoing)})
      go == SubSeq(p.outgoing, 1, room)
      q == [p EXCEPT !.outgoing = SubSeq(@, room + 1, Len(@)),
                     !.sent = @ \o go,
                     !.inTransit = @ + Len(SelectSeq(go, IsData)),
                     !.wire = @ \cup {Carrying(go[i]) : i \in DOMAIN go}]
  IN  IF q.state = "disconnect_later" /\ Drained(q) THEN Disconnect(q) ELSE q

SendAcknowledgements(p) ==
  IF p.acknowledges THEN [DispatchState(p, "zombie") EXCEPT !.acknowledges = FALSE] ELSE p

SendOutgoing(p, wanted, now) ==
  LET a == SendAcknowledgements(p)
  IN  CASE Gone(p) -> p
        [] ~Gone(p) /\ now.givesUp -> [NotifyDisconnect(a, wanted) EXCEPT !.timedOut = TRUE]
        [] OTHER -> CheckOutgoing(CheckTimeouts(a, now.expired), now.window)

HandleIncoming(p, d, wanted) ==
  CASE Gone(p) -> p
    [] ~Gone(p) /\ d.kind = "acknowledge" -> HandleAcknowledge(p, d.n, wanted)
    [] ~Gone(p) /\ d.kind = "data" -> HandleSendReliable(p, d.n)
    [] ~Gone(p) /\ d.kind \in {"disconnect", "leave"} -> HandleDisconnect(p, d.kind)

(* The hook of ControlStream.c keeps a disconnect from the handlers.  It   *)
(* goes by the length of the datagram, with the time it was sent; one that *)
(* is not to be acknowledged carries no time, and is not noticed.          *)
Intercepts(p, d) == p.intercept /\ d.kind = "disconnect"

ReceiveIncoming(p, wanted, batch) ==
  LET Receive(peer, d) == IF Intercepts(peer, d) THEN [peer EXCEPT !.disconnectPending = TRUE]
                          ELSE HandleIncoming(peer, d, wanted)
  IN  FoldLeft(Receive, p, batch)

(* One round of enet_host_service(): what comes before the socket is read, *)
(* and what comes after if no event came first.                            *)
BeforeReading(p, wanted, now) ==
  LET q == IF wanted THEN DispatchIncoming(p) ELSE p
  IN  IF q.event # "none" THEN q ELSE SendOutgoing(q, wanted, now)

Read(p, wanted, batch, now) ==
  LET q == ReceiveIncoming(p, wanted, batch)
      r == SendOutgoing(q, wanted, [now EXCEPT !.expired = {}, !.givesUp = FALSE])
  IN  CASE q.event # "none" -> q
        [] q.event = "none" /\ wanted -> DispatchIncoming(r)
        [] OTHER -> r
=============================================================================
