--------------------------- MODULE ControlStream ---------------------------
(***************************************************************************)
(* The messages of ControlStream.c over ENet: the threads that send, the   *)
(* receive thread with the disconnect it holds back, and the stop.         *)
(*                                                                         *)
(* enetMutex is held from the lock to the unlock, so what is between them  *)
(* is one action; the receive thread that waits for a pending disconnect   *)
(* keeps it over several rounds (pc "held").  The network loses, repeats   *)
(* and reorders datagrams.  The host is external: it sends HostMessages    *)
(* messages, the last of which says why it terminates the stream; it may   *)
(* disconnect at any time, leave without waiting for an acknowledgement,   *)
(* or die without a word.                                                  *)
(*                                                                         *)
(* Bounds: MaxSends messages of the client; MaxTries rounds of a sender    *)
(* (10 in the code); MaxBatch datagrams read in one round (256); MaxFaults *)
(* datagrams lost or sent again without need.  What was lost may be sent   *)
(* again at any time.                                                      *)
(*                                                                         *)
(* Left out: what the messages say, encryption, unreliable messages, the   *)
(* TCP stream of old hosts.                                                *)
(***************************************************************************)
EXTENDS EnetPeer

CONSTANTS Senders, HostMessages, MaxSends, MaxTries, MaxBatch, MaxFaults
ASSUME BoundsAssumption ==
  {HostMessages, MaxSends, MaxTries, MaxBatch, MaxFaults} \subseteq Nat

VARIABLES
  enet,                 \* the peer, with client->intercept and disconnectPending
  toHost, toClient,     \* datagrams on their way
  host,                 \* external: its state, the messages it has got and sent
  receiver,             \* controlReceiveThread: pc, and the code it reports
  sender,               \* the threads that send: pc, and the rounds of one message
  accepted,             \* messages enet_peer_send() took (history)
  handled,              \* the last message of the host that was handled (history)
  reported,             \* the code ClInternalConnectionTerminated() passed on
  stopper,              \* LiStopConnection()
  faults
vars == <<enet, toHost, toClient, host, receiver, sender, accepted, handled, reported,
          stopper, faults>>

Interrupted == stopper # "streaming"           \* ConnectionInterrupted
Unlocked == receiver.pc # "held"               \* enetMutex is free
IsTermination(n) == n = HostMessages

Init ==
  /\ enet = ConnectedPeer
  /\ toHost = {} /\ toClient = {}
  /\ host = [state |-> "connected", got |-> {}, sent |-> 0, told |-> FALSE]
  /\ receiver = [pc |-> "poll", code |-> "none"]
  /\ sender = [s \in Senders |-> [pc |-> "idle", n |-> 0, tries |-> 0]]
  /\ accepted = 0 /\ handled = 0
  /\ reported = "none"
  /\ stopper = "streaming"
  /\ faults = 0

-----------------------------------------------------------------------------
(* enet_host_service()                                                     *)

Batches == {b \in UNION {[1 .. k -> toClient] : k \in 0 .. MaxBatch} : IsInjective(b)}

(* The peer gives up on a command of its own that nobody acknowledges; if  *)
(* it has nothing else to send, a ping is one.                             *)
MayGiveUp(p) == ~Gone(p) /\ (CanSend(p) \/ p.sent # <<>>)

(* A command expires although it, or its acknowledgement, is on its way.   *)
Early(n) == Carrying(New(n)) \in toHost \/ Datagram("acknowledge", n) \in toClient
TooEarly(now) == Cardinality({n \in now.expired : Early(n)})

Calm == [expired |-> {}, givesUp |-> FALSE, window |-> Window]
GivingUp == [Calm EXCEPT !.givesUp = TRUE]
Nows ==
  LET expirable == {enet.sent[i].n : i \in DOMAIN enet.sent}
      sending == [expired : SUBSET expirable, givesUp : {FALSE}, window : 1 .. Window]
  IN  IF Gone(enet) THEN {Calm}
      ELSE {now \in sending : faults + TooEarly(now) <= MaxFaults}
           \cup (IF MayGiveUp(enet) THEN {GivingUp} ELSE {})

(* The rounds a caller may see, given the peer before the socket is read.  *)
(* Once an event has come, it is not.                                      *)
Round(before, wanted, batch, now) ==
  IF before.event = "none" THEN Read(before, wanted, batch, now) ELSE before

Possible(before, batch, now) ==
  before.event # "none" => batch = <<>> /\ (now = Calm \/ now.givesUp)

(* Nobody reads what is sent to a host that is gone or disconnects, or to  *)
(* a client whose peer is gone.                                            *)
Reaching(wire) == IF host.state = "connected" THEN toHost \cup wire ELSE {}
Arriving(datagrams) == IF Gone(enet) THEN {} ELSE toClient \cup datagrams

Unread(p) == IF Gone(p) THEN {} ELSE toClient

(* What a round that ends with q does to everything but the thread that    *)
(* called it.                                                              *)
Service(q, batch, now) ==
  /\ enet' = [q EXCEPT !.wire = {}, !.event = "none", !.packet = 0]
  /\ toHost' = Reaching(q.wire)
  /\ toClient' = Unread(q) \ Range(batch)
  /\ faults' = faults + TooEarly(now)

-----------------------------------------------------------------------------
(* sendMessageEnet()                                                       *)

Waits(q, n) == CanSend(q) /\ \E i \in DOMAIN q.outgoing : q.outgoing[i].n = n

Send(s, batch, now) ==
  LET p == Queue(enet, accepted + 1)
      before == BeforeReading(p, FALSE, now)
      q == Round(before, FALSE, batch, now)
  IN  /\ sender[s].pc = "idle" /\ Unlocked
      /\ CanSend(enet) /\ accepted < MaxSends
      /\ Possible(before, batch, now)
      /\ Service(q, batch, now)
      /\ accepted' = accepted + 1
      /\ sender' = IF Waits(q, accepted + 1)
                   THEN [sender EXCEPT ![s] = [pc |-> "retry", n |-> accepted + 1, tries |-> 0]]
                   ELSE sender
      /\ UNCHANGED <<host, receiver, handled, reported, stopper>>

(* Woken after 1 ms without the lock.                                      *)
Retry(s, batch, now) ==
  LET before == BeforeReading(enet, FALSE, now)
      q == Round(before, FALSE, batch, now)
      me == sender[s]
  IN  /\ me.pc = "retry" /\ Unlocked
      /\ Possible(before, batch, now)
      /\ Service(q, batch, now)
      /\ sender' = [sender EXCEPT ![s] =
           IF Waits(q, me.n) /\ me.tries + 1 < MaxTries THEN [@ EXCEPT !.tries = @ + 1]
           ELSE [pc |-> "idle", n |-> 0, tries |-> 0]]
      /\ UNCHANGED <<host, receiver, accepted, handled, reported, stopper>>

(* enet_peer_send() fails.                                                 *)
SendFails(s) ==
  /\ sender[s].pc = "idle" /\ Unlocked
  /\ ~CanSend(enet)
  /\ sender' = [sender EXCEPT ![s].pc = "report"]
  /\ UNCHANGED <<enet, toHost, toClient, host, receiver, accepted, handled, reported,
                 stopper, faults>>

(* ClInternalConnectionTerminated()                                        *)
ConnectionTerminated(code) ==
  reported' = IF reported = "none" /\ ~Interrupted THEN code ELSE reported

(* A thread that goes on after its report would only report again.          *)
SenderReports(s) ==
  /\ sender[s].pc = "report"
  /\ ConnectionTerminated("failed")
  /\ sender' = [sender EXCEPT ![s].pc = "ended"]
  /\ UNCHANGED <<enet, toHost, toClient, host, receiver, accepted, handled, stopper, faults>>

(* The thread is told to end; until then it sends: the rest of the input,   *)
(* say, or a ping.                                                         *)
SenderEnds(s) ==
  /\ sender[s].pc = "idle" /\ Interrupted
  /\ sender' = [sender EXCEPT ![s].pc = "ended"]
  /\ UNCHANGED <<enet, toHost, toClient, host, receiver, accepted, handled, reported,
                 stopper, faults>>

-----------------------------------------------------------------------------
(* controlReceiveThreadFunc()                                              *)

Reports(code) == [pc |-> "report", code |-> code]
Goes(pc) == [receiver EXCEPT !.pc = pc]

AfterEvent(q, otherwise) ==
  CASE q.event = "disconnect" -> Reports("disconnected")
    [] q.event = "receive" -> Goes("handle")
    [] OTHER -> Goes(otherwise)

Takes(q) == handled' = IF q.event = "receive" THEN q.packet ELSE handled

Poll(batch, now) ==
  LET before == BeforeReading(enet, TRUE, now)
      q == Round(before, TRUE, batch, now)
  IN  /\ receiver.pc = "poll" /\ ~Interrupted
      /\ Possible(before, batch, now)
      /\ Service(q, batch, now)
      /\ receiver' = AfterEvent(q, "quiet")
      /\ Takes(q)
      /\ UNCHANGED <<host, sender, accepted, reported, stopper>>

(* Mutant: the disconnect is let in at the first quiet poll.               *)
LetIn ==
  /\ receiver.pc = "quiet"
  /\ receiver' = Goes("poll")
  /\ enet' = [enet EXCEPT !.intercept = ~enet.disconnectPending /\ @]
  /\ UNCHANGED <<toHost, toClient, host, sender, accepted, handled, reported, stopper, faults>>

(* The poll brought nothing; the lock was given back.                      *)
LookAtPending ==
  /\ receiver.pc = "quiet"
  /\ receiver' = Goes(IF enet.disconnectPending THEN "held" ELSE "poll")
  /\ UNCHANGED <<enet, toHost, toClient, host, sender, accepted, handled, reported,
                 stopper, faults>>

HoldRound(batch, now) ==
  LET before == BeforeReading(enet, TRUE, now)
      q == Round(before, TRUE, batch, now)
  IN  /\ receiver.pc = "held" /\ ~Interrupted
      /\ Possible(before, batch, now)
      /\ Service(q, batch, now)
      /\ receiver' = AfterEvent(q, "held")
      /\ Takes(q)
      /\ UNCHANGED <<host, sender, accepted, reported, stopper>>

(* 100 ms are enough for what the host sent before it disconnected.        *)
HoldExpires ==
  /\ receiver.pc = "held" /\ ~Interrupted
  /\ ~enet.needsDispatch
  /\ IF enet.intercept
     THEN /\ \A d \in toClient : d.kind # "data"
          /\ enet' = [enet EXCEPT !.intercept = FALSE]
          /\ receiver' = Goes("poll")
     ELSE /\ receiver' = Reports("expired")
          /\ UNCHANGED enet
  /\ UNCHANGED <<toHost, toClient, host, sender, accepted, handled, reported, stopper, faults>>

(* serviceEnetHost() returns -1: interrupted.                              *)
ServiceFails ==
  /\ receiver.pc \in {"poll", "held"} /\ Interrupted
  /\ receiver' = Reports("failed")
  /\ UNCHANGED <<enet, toHost, toClient, host, sender, accepted, handled, reported,
                 stopper, faults>>

HandleMessage ==
  /\ receiver.pc = "handle" /\ ~IsTermination(handled)
  /\ receiver' = Goes("poll")
  /\ UNCHANGED <<enet, toHost, toClient, host, sender, accepted, handled, reported,
                 stopper, faults>>

HandleTermination ==
  LET q == DisconnectNow(enet)
  IN  /\ receiver.pc = "handle" /\ IsTermination(handled)
      /\ enet' = [q EXCEPT !.wire = {}]
      /\ toHost' = Reaching(q.wire)
      /\ toClient' = Unread(q)
      /\ receiver' = Reports("reason")
      /\ UNCHANGED <<host, sender, accepted, handled, reported, stopper, faults>>

ReceiverReports ==
  /\ receiver.pc = "report"
  /\ ConnectionTerminated(receiver.code)
  /\ receiver' = [pc |-> "ended", code |-> "none"]
  /\ UNCHANGED <<enet, toHost, toClient, host, sender, accepted, handled, stopper, faults>>

-----------------------------------------------------------------------------
(* LiStopConnection() and stopControlStream(), with                        *)
(* gracefullyDisconnectEnetPeer()                                          *)

Interrupt ==
  /\ stopper = "streaming"
  /\ stopper' = "joining"
  /\ UNCHANGED <<enet, toHost, toClient, host, receiver, sender, accepted, handled, reported,
                 faults>>

Joined ==
  LET q == IF CanSend(enet) THEN DisconnectLater(enet) ELSE DisconnectNow(enet)
  IN  /\ stopper = "joining"
      /\ receiver.pc = "ended" /\ \A s \in Senders : sender[s].pc = "ended"
      /\ enet' = [q EXCEPT !.wire = {}]
      /\ toHost' = Reaching(q.wire)
      /\ toClient' = Unread(q)
      /\ stopper' = IF CanSend(enet) THEN "lingering" ELSE "closed"
      /\ UNCHANGED <<host, receiver, sender, accepted, handled, reported, faults>>

Linger(batch, now) ==
  LET before == BeforeReading(enet, TRUE, now)
      q == Round(before, TRUE, batch, now)
  IN  /\ stopper = "lingering"
      /\ Possible(before, batch, now)
      /\ Service(q, batch, now)
      /\ stopper' = IF q.event = "disconnect" THEN "closed" ELSE "lingering"
      /\ UNCHANGED <<host, receiver, sender, accepted, handled, reported>>

(* enet_host_destroy() resets the peer and closes the socket.              *)
LingerExpires ==
  /\ stopper = "lingering"
  /\ stopper' = "closed"
  /\ enet' = Reset(enet) /\ toClient' = {}
  /\ UNCHANGED <<toHost, host, receiver, sender, accepted, handled, reported,
                 faults>>

-----------------------------------------------------------------------------
(* The host and the network                                                *)

Client == <<enet, receiver, sender, accepted, handled, reported, stopper>>

HostSend ==
  /\ host.state = "connected" /\ host.sent < HostMessages
  /\ host' = [host EXCEPT !.sent = @ + 1]
  /\ toClient' = Arriving({Datagram("data", host.sent + 1)})
  /\ UNCHANGED <<Client, toHost, faults>>

HostDisconnect ==
  /\ host.state = "connected"
  /\ host' = [host EXCEPT !.state = "disconnecting"]
  /\ toClient' = Arriving({Datagram("disconnect", Disconnecting)})
  /\ toHost' = {}
  /\ UNCHANGED <<Client, faults>>

(* enet_peer_disconnect_now()                                              *)
HostLeaves ==
  /\ host.state = "connected"
  /\ host' = [host EXCEPT !.state = "gone"]
  /\ toClient' = Arriving({Datagram("leave", Disconnecting)})
  /\ toHost' = {}
  /\ UNCHANGED <<Client, faults>>

HostDies ==
  /\ host.state = "connected"
  /\ host' = [host EXCEPT !.state = "gone"]
  /\ toHost' = {}
  /\ UNCHANGED <<Client, toClient, faults>>

Arrived(n) == n <= enet.lastIn \/ n \in enet.early

HostResend ==
  /\ \/ /\ host.state = "connected"
        /\ \E n \in 1 .. host.sent :
             /\ Arrived(n) => faults < MaxFaults
             /\ toClient' = Arriving({Datagram("data", n)})
             /\ faults' = IF Arrived(n) THEN faults + 1 ELSE faults
     \/ /\ host.state = "disconnecting"
        /\ toClient' = Arriving({Datagram("disconnect", Disconnecting)})
        /\ UNCHANGED faults
  /\ toClient' # toClient
  /\ UNCHANGED <<Client, toHost, host>>

HostReceive(d) ==
  /\ host.state = "connected"
  /\ toHost' = toHost \ {d}
  /\ host' = IF d.kind = "data" THEN [host EXCEPT !.got = @ \cup {d.n}]
             ELSE [host EXCEPT !.state = "gone", !.told = d.kind = "disconnect"]
  /\ toClient' = IF d.kind = "leave" THEN toClient
                 ELSE Arriving({Datagram("acknowledge", d.n)})
  /\ UNCHANGED <<Client, faults>>

Lose(d) ==
  /\ faults < MaxFaults
  /\ toHost' = toHost \ {d} /\ toClient' = toClient \ {d}
  /\ faults' = faults + 1
  /\ UNCHANGED <<Client, host>>

-----------------------------------------------------------------------------
Done == stopper = "closed" /\ UNCHANGED vars

ServiceSteps ==
  \E batch \in Batches, now \in Nows :
    \/ Poll(batch, now)
    \/ HoldRound(batch, now)
    \/ Linger(batch, now)
    \/ \E s \in Senders : Send(s, batch, now) \/ Retry(s, batch, now)

ReceiverSteps ==
  \/ LookAtPending \/ HoldExpires \/ ServiceFails
  \/ HandleMessage \/ HandleTermination \/ ReceiverReports

SenderSteps == \E s \in Senders : SendFails(s) \/ SenderReports(s) \/ SenderEnds(s)

StopSteps == Interrupt \/ Joined \/ LingerExpires

HostSteps ==
  \/ HostSend \/ HostDisconnect \/ HostLeaves \/ HostDies \/ HostResend
  \/ \E d \in toHost : HostReceive(d)
  \/ \E d \in toHost \cup toClient : Lose(d)

Next == ServiceSteps \/ ReceiverSteps \/ SenderSteps \/ StopSteps \/ HostSteps \/ Done

(* The receive thread goes on: it holds for 100 ms and then for 1 s at     *)
(* most.  A peer whose host is gone gives up after 10 s (the call of       *)
(* enet_peer_timeout()), at a poll if no sender runs.                      *)
ReceiverGoesOn ==
  /\ receiver.pc # "ended"
  /\ receiver' \in [pc : {"poll", "quiet", "held", "handle", "report", "ended"},
                   code : {"none", "disconnected", "expired", "failed", "reason"}]

GivesUpOnHost ==
  /\ host.state # "connected" /\ receiver.pc = "poll" /\ ~Interrupted
  /\ MayGiveUp(enet)
  /\ enet' = [BeforeReading(enet, TRUE, GivingUp) EXCEPT !.event = "none", !.packet = 0,
                                                      !.wire = {}]

Fairness == WF_receiver(ReceiverGoesOn) /\ SF_enet(GivesUpOnHost)
Spec == Init /\ [][Next]_vars /\ Fairness

-----------------------------------------------------------------------------
(* Properties                                                              *)

TypeOK ==
  /\ enet.state \in {"connected", "disconnect_later", "disconnecting",
                     "acknowledging_disconnect", "zombie", "disconnected"}
  /\ receiver.pc \in {"poll", "quiet", "held", "handle", "report", "ended"}
  /\ \A s \in Senders : sender[s].pc \in {"idle", "retry", "report", "ended"}
  /\ stopper \in {"streaming", "joining", "lingering", "closed"}
  /\ accepted \in 0 .. MaxSends /\ handled \in 0 .. HostMessages

(* ENet's window and isControlDataInTransit() go by a sum that is kept at  *)
(* four places (sent, acknowledged, expired, reset).  While messages can   *)
(* be sent it is what waits for an acknowledgement: never negative, never  *)
(* more than the window, and zero once all is acknowledged.                *)
TransitExact ==
  TypeOK /\ (enet.state \in {"connected", "disconnect_later"} =>
    /\ enet.inTransit = Len(SelectSeq(enet.sent, IsData))
    /\ enet.inTransit <= Window)

(* A host that disconnects does not take what it sent before with it: when *)
(* the receive thread reports the disconnect (or that it waited in vain),  *)
(* it has handled every message that had arrived in order, whichever       *)
(* thread read it from the socket.  Not so for a host that leaves without  *)
(* waiting for an acknowledgement (DisconnectHeldBack).                    *)
Heard == receiver.code \in {"disconnected", "expired"} /\ ~enet.timedOut
NothingLost == Heard /\ ~enet.left => handled = enet.lastIn

(* "This intercept function drops disconnect events to allow us to process *)
(* pending receives first" (ControlStream.c 719): whichever way a host     *)
(* disconnects, what had arrived in order before is handled first.  Not    *)
(* kept: a disconnect that is not to be acknowledged is not dropped.       *)
DisconnectHeldBack == Heard => handled = enet.lastIn

(* A host that was told of the disconnect by the graceful stop has got     *)
(* every message the client accepted, "including any key up events".       *)
FinalTraffic == host.told => 1 .. accepted \subseteq host.got

(* When the host disconnects, dies or leaves, the receive thread finds out *)
(* and ends, although its own poll may not be the one that reads the       *)
(* disconnect or gives up.                                                 *)
GoneReported == host.state # "connected" ~> receiver.pc = "ended"

(* Not kept by the code: the reason a host gave is the one reported.       *)
ReasonReported == receiver.pc = "ended" /\ IsTermination(handled) => reported # "failed"
=============================================================================
